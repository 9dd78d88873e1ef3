---------------------------- MODULE FetchProofs ----------------------------
(***************************************************************************)
(* Theorems about one fetch, for lists of any length, any page size and    *)
(* any number of changes and failures: what its walks collect, what the    *)
(* answer of each page then says of the controller, and how the tallies    *)
(* of an answer relate to its rows.                                        *)
(***************************************************************************)
EXTENDS ControllerFetch, FiniteSetTheorems, SequenceTheorems, TLAPS

AllIds == UNION {UNION {ToSet(s) : s \in Initial(l)} : l \in Lists}

Calls ==
    {c \in [list : Lists \cup Objects, pager : Paged \cup {"one"},
            zone : AllIds \cup {None}, onError : {"raise", "keep", "drop"}] :
        /\ c.pager = "one" <=> c.list \in Objects
        /\ c.zone # None => c.list \in {"ap", "detail"}}

PlainCalls == {c \in Calls : c.zone = None}

Types ==
    /\ TypeOK
    /\ world \in [Lists -> Seq(AllIds)]
    /\ \A l \in Lists : IsInjective(world[l])
    /\ view \in Seq(AllIds)
    /\ style \in [total : BOOLEAN, more : BOOLEAN]
    /\ todo \in Seq(Calls)
    /\ rows \in Seq(AllIds)
    /\ got \in [Lists -> Seq(AllIds)]
    /\ walk \in [steady : SUBSET AllIds, joined : Nat, left : Nat]

\* The entries of a list a walk has passed and those it has yet to read.
Behind(v, o) == {v[k] : k \in {j \in DOMAIN v : j <= o}}
Ahead(v, o)  == {v[k] : k \in {j \in DOMAIN v : j > o}}

\* What was read and what moved behind the offset account for every entry: an
\* entry read that is ahead again was pushed there by one that joined, and
\* one behind that was not read was pulled there by one that left.
Accounts(v, o, read, w) ==
    /\ w.steady \subseteq ToSet(v)
    /\ Len(v) <= Cardinality(w.steady) + w.joined
    /\ Len(read) = o
    /\ Len(read) + Cardinality(ToSet(read) \cap Ahead(v, o))
           <= Cardinality(ToSet(read)) + w.joined
    /\ Cardinality((w.steady \cap Behind(v, o)) \ ToSet(read)) <= w.left

\* A walk that is not told hasMore where it needs it reads one page.
OnePage == \/ Current.pager \in {"first", "tried", "one"}
           \/ Current.pager \in {"get", "switch"} /\ ~style.more

WalkInv == todo # <<>> =>
    /\ Accounts(view, Offset, rows, walk)
    /\ OnePage => Offset = 0

FetchInv == Types /\ WalkInv /\ WalkAccounts

-----------------------------------------------------------------------------
(* Sequences.                                                              *)

\* A sequence without one of its entries: those behind it move up.
LEMMA RemoveAtIs ==
    ASSUME NEW S, NEW s \in Seq(S), NEW i \in 1 .. Len(s)
    PROVE  /\ RemoveAt(s, i) \in Seq(S)
           /\ Len(RemoveAt(s, i)) = Len(s) - 1
           /\ \A j \in 1 .. Len(s) - 1 :
                 RemoveAt(s, i)[j] = IF j < i THEN s[j] ELSE s[j + 1]
<1> DEFINE a == SubSeq(s, 1, i - 1)
           b == SubSeq(s, i + 1, Len(s))
<1>0. Len(s) \in Nat /\ \A j \in 1 .. Len(s) : s[j] \in S
  BY LenProperties, ElementOfSeq
<1>1. a \in Seq(S) /\ Len(a) = i - 1 /\ \A j \in 1 .. i - 1 : a[j] = s[j]
  <2>1. \A j \in 1 .. i - 1 : s[j] \in S
    BY <1>0
  <2>2. /\ a \in Seq(S) /\ Len(a) = IF 1 <= i - 1 THEN i - 1 - 1 + 1 ELSE 0
        /\ \A j \in 1 .. i - 1 - 1 + 1 : a[j] = s[1 + j - 1]
    BY <2>1, SubSeqProperties
  <2> HIDE DEF a
  <2> QED
    BY <2>2
<1>2. b \in Seq(S) /\ Len(b) = Len(s) - i /\ \A j \in 1 .. Len(s) - i : b[j] = s[i + j]
  <2>1. \A j \in i + 1 .. Len(s) : s[j] \in S
    BY <1>0
  <2>2. /\ b \in Seq(S) /\ Len(b) = IF i + 1 <= Len(s) THEN Len(s) - (i + 1) + 1 ELSE 0
        /\ \A j \in 1 .. Len(s) - (i + 1) + 1 : b[j] = s[i + 1 + j - 1]
    BY <1>0, <2>1, SubSeqProperties
  <2> HIDE DEF b
  <2> QED
    BY <1>0, <2>2
<1> HIDE DEF a, b
<1>3. /\ a \o b \in Seq(S) /\ Len(a \o b) = Len(a) + Len(b)
      /\ \A j \in 1 .. Len(a) + Len(b) : (a \o b)[j] = IF j <= Len(a) THEN a[j] ELSE b[j - Len(a)]
  BY <1>1, <1>2, ConcatProperties
<1>4. ASSUME NEW j \in 1 .. Len(s) - 1
      PROVE  (a \o b)[j] = IF j < i THEN s[j] ELSE s[j + 1]
  <2>1. (a \o b)[j] = IF j <= i - 1 THEN a[j] ELSE b[j - (i - 1)]
    BY <1>0, <1>1, <1>2, <1>3
  <2>2. CASE j < i
    BY <1>0, <1>1, <2>1, <2>2
  <2>3. CASE ~(j < i)
    <3>1. j - (i - 1) \in 1 .. Len(s) - i /\ i + (j - (i - 1)) = j + 1
      BY <1>0, <2>3
    <3> QED
      BY <1>0, <1>2, <2>1, <2>3, <3>1
  <2> QED
    BY <2>2, <2>3
<1>5. RemoveAt(s, i) = a \o b
  BY DEF RemoveAt, a, b
<1> QED
  BY <1>0, <1>1, <1>2, <1>3, <1>4, <1>5

\* A sequence with an entry put in: those from there on move down.
LEMMA InsertAtIs ==
    ASSUME NEW S, NEW s \in Seq(S), NEW i \in 1 .. Len(s) + 1, NEW e \in S
    PROVE  /\ InsertAt(s, i, e) \in Seq(S)
           /\ Len(InsertAt(s, i, e)) = Len(s) + 1
           /\ \A j \in 1 .. Len(s) + 1 :
                 InsertAt(s, i, e)[j] = IF j < i THEN s[j] ELSE IF j = i THEN e ELSE s[j - 1]
<1> DEFINE a == SubSeq(s, 1, i - 1)
           b == SubSeq(s, i, Len(s))
           d == <<e>>
           c == a \o d
<1>0. Len(s) \in Nat /\ \A j \in 1 .. Len(s) : s[j] \in S
  BY LenProperties, ElementOfSeq
<1>1. a \in Seq(S) /\ Len(a) = i - 1 /\ \A j \in 1 .. i - 1 : a[j] = s[j]
  <2>1. \A j \in 1 .. i - 1 : s[j] \in S
    BY <1>0
  <2>2. /\ a \in Seq(S) /\ Len(a) = IF 1 <= i - 1 THEN i - 1 - 1 + 1 ELSE 0
        /\ \A j \in 1 .. i - 1 - 1 + 1 : a[j] = s[1 + j - 1]
    BY <2>1, SubSeqProperties
  <2> HIDE DEF a
  <2> QED
    BY <2>2
<1>2. /\ b \in Seq(S) /\ Len(b) = Len(s) - i + 1
      /\ \A j \in 1 .. Len(s) - i + 1 : b[j] = s[i + j - 1]
  <2>1. \A j \in i .. Len(s) : s[j] \in S
    BY <1>0
  <2>2. /\ b \in Seq(S) /\ Len(b) = IF i <= Len(s) THEN Len(s) - i + 1 ELSE 0
        /\ \A j \in 1 .. Len(s) - i + 1 : b[j] = s[i + j - 1]
    BY <1>0, <2>1, SubSeqProperties
  <2> HIDE DEF b
  <2> QED
    BY <1>0, <2>2
<1>3. d \in Seq(S) /\ Len(d) = 1 /\ d[1] = e
  OBVIOUS
<1> HIDE DEF a, b, d
<1>4. /\ c \in Seq(S) /\ Len(c) = i
      /\ \A j \in 1 .. i : c[j] = IF j < i THEN a[j] ELSE e
  <2>1. /\ c \in Seq(S) /\ Len(c) = Len(a) + Len(d)
        /\ \A j \in 1 .. Len(a) + Len(d) :
               c[j] = IF j <= Len(a) THEN a[j] ELSE d[j - Len(a)]
    BY <1>1, <1>3, ConcatProperties
  <2> HIDE DEF c
  <2>2. \A j \in 1 .. i : c[j] = IF j <= i - 1 THEN a[j] ELSE d[j - (i - 1)]
    BY <1>1, <1>3, <2>1
  <2>3. \A j \in 1 .. i : ~(j < i) => j - (i - 1) = 1
    OBVIOUS
  <2> QED
    BY <1>1, <1>3, <2>1, <2>2, <2>3
<1> HIDE DEF c
<1>5. /\ c \o b \in Seq(S) /\ Len(c \o b) = Len(c) + Len(b)
      /\ \A j \in 1 .. Len(c) + Len(b) : (c \o b)[j] = IF j <= Len(c) THEN c[j] ELSE b[j - Len(c)]
  BY <1>2, <1>4, ConcatProperties
<1>6. ASSUME NEW j \in 1 .. Len(s) + 1
      PROVE  (c \o b)[j] = IF j < i THEN s[j] ELSE IF j = i THEN e ELSE s[j - 1]
  <2>1. (c \o b)[j] = IF j <= i THEN c[j] ELSE b[j - i]
    BY <1>0, <1>2, <1>4, <1>5
  <2>2. CASE j <= i
    BY <1>0, <1>1, <1>4, <2>1, <2>2
  <2>3. CASE ~(j <= i)
    <3>1. j - i \in 1 .. Len(s) - i + 1 /\ i + (j - i) - 1 = j - 1
      BY <1>0, <2>3
    <3> QED
      BY <1>0, <1>2, <2>1, <2>3, <3>1
  <2> QED
    BY <2>2, <2>3
<1>7. InsertAt(s, i, e) = c \o b
  BY DEF InsertAt, a, b, c, d
<1> QED
  BY <1>0, <1>2, <1>4, <1>5, <1>6, <1>7

\* The entries of a sequence, and how many different ones there are.
LEMMA ToSetIs ==
    ASSUME NEW S, NEW s \in Seq(S)
    PROVE  /\ ToSet(s) = {s[j] : j \in 1 .. Len(s)}
           /\ ToSet(s) \subseteq S
           /\ IsFiniteSet(ToSet(s))
           /\ Cardinality(ToSet(s)) \in Nat
           /\ Cardinality(ToSet(s)) <= Len(s)
           /\ IsInjective(s) => Cardinality(ToSet(s)) = Len(s)
<1>1. Len(s) \in Nat /\ DOMAIN s = 1 .. Len(s) /\ s \in [1 .. Len(s) -> S]
  BY LenProperties
<1>2. ToSet(s) = {s[j] : j \in 1 .. Len(s)} /\ ToSet(s) \subseteq S
  BY <1>1 DEF ToSet
<1>3. s \in Surjection(1 .. Len(s), ToSet(s))
  BY <1>1, <1>2 DEF Surjection
<1>4. IsFiniteSet(1 .. Len(s)) /\ Cardinality(1 .. Len(s)) = Len(s)
  BY <1>1, FS_Interval
<1>5. /\ IsFiniteSet(ToSet(s))
      /\ Cardinality(ToSet(s)) <= Len(s)
      /\ Cardinality(ToSet(s)) = Len(s) <=> s \in Injection(1 .. Len(s), ToSet(s))
  BY <1>3, <1>4, FS_Surjection
<1>6. IsInjective(s) => s \in Injection(1 .. Len(s), ToSet(s))
  BY <1>1, <1>2, <1>3 DEF IsInjective, Injection, Surjection
<1> QED
  BY <1>2, <1>5, <1>6, FS_CardinalityType

\* What stands in a sequence is one of its entries.
LEMMA EntryOf ==
    ASSUME NEW S, NEW s \in Seq(S), NEW j \in 1 .. Len(s)
    PROVE  s[j] \in ToSet(s)
BY ToSetIs

\* Two sequences one after the other have the entries of both.
LEMMA ToSetOfConcat ==
    ASSUME NEW S, NEW s \in Seq(S), NEW t \in Seq(S)
    PROVE  ToSet(s \o t) = ToSet(s) \cup ToSet(t)
<1>1. /\ s \o t \in Seq(S) /\ Len(s \o t) = Len(s) + Len(t)
      /\ \A i \in 1 .. Len(s) + Len(t) : (s \o t)[i] = IF i <= Len(s) THEN s[i] ELSE t[i - Len(s)]
      /\ Len(s) \in Nat /\ Len(t) \in Nat
  BY ConcatProperties, LenProperties
<1>2. /\ ToSet(s) = {s[j] : j \in 1 .. Len(s)} /\ ToSet(t) = {t[j] : j \in 1 .. Len(t)}
      /\ ToSet(s \o t) = {(s \o t)[j] : j \in 1 .. Len(s) + Len(t)}
  <2>1. ToSet(s \o t) = {(s \o t)[j] : j \in 1 .. Len(s \o t)}
    BY <1>1, ToSetIs
  <2> QED
    BY <1>1, <2>1, ToSetIs
<1>3. ASSUME NEW x \in ToSet(s \o t) PROVE x \in ToSet(s) \cup ToSet(t)
  <2>1. PICK j \in 1 .. Len(s) + Len(t) : x = (s \o t)[j]
    BY <1>2
  <2>2. CASE j <= Len(s)
    BY <1>1, <1>2, <2>1, <2>2
  <2>3. CASE ~(j <= Len(s))
    <3>1. j - Len(s) \in 1 .. Len(t)
      BY <1>1, <2>3
    <3> QED
      BY <1>1, <1>2, <2>1, <2>3, <3>1
  <2> QED
    BY <2>2, <2>3
<1>4. ASSUME NEW x \in ToSet(s) PROVE x \in ToSet(s \o t)
  <2>1. PICK j \in 1 .. Len(s) : x = s[j]
    BY <1>2
  <2>2. j \in 1 .. Len(s) + Len(t) /\ (s \o t)[j] = x
    BY <1>1, <2>1
  <2> QED
    BY <1>2, <2>2
<1>5. ASSUME NEW x \in ToSet(t) PROVE x \in ToSet(s \o t)
  <2>1. PICK j \in 1 .. Len(t) : x = t[j]
    BY <1>2
  <2>2. Len(s) + j \in 1 .. Len(s) + Len(t) /\ ~(Len(s) + j <= Len(s)) /\ Len(s) + j - Len(s) = j
    BY <1>1
  <2>3. (s \o t)[Len(s) + j] = x
    BY <1>1, <2>1, <2>2
  <2> QED
    BY <1>2, <2>2, <2>3
<1> QED
  BY <1>3, <1>4, <1>5

\* The sequence chosen for a finite set has each of its members once.
LEMMA SetToSeqIs ==
    ASSUME NEW S, IsFiniteSet(S)
    PROVE  SetToSeq(S) \in Seq(S) /\ IsInjective(SetToSeq(S)) /\ ToSet(SetToSeq(S)) = S
<1> DEFINE n == Cardinality(S)
<1>1. n \in Nat /\ ExistsBijection(1 .. n, S)
  BY FS_CardinalityType
<1>2. PICK f : f \in Bijection(1 .. n, S)
  BY <1>1 DEF ExistsBijection
<1>3. f \in [1 .. n -> S] /\ IsInjective(f)
  BY <1>2 DEF Bijection, Injection, IsInjective
<1>4. SetToSeq(S) \in [1 .. n -> S] /\ IsInjective(SetToSeq(S))
  BY <1>3 DEF SetToSeq
<1>5. SetToSeq(S) \in Seq(S) /\ Len(SetToSeq(S)) = n
  BY <1>1, <1>4
<1>6. ToSet(SetToSeq(S)) \subseteq S /\ Cardinality(ToSet(SetToSeq(S))) = n
  BY <1>4, <1>5, ToSetIs
<1>7. ToSet(SetToSeq(S)) = S
  BY <1>6, FS_Subset
<1> QED
  BY <1>4, <1>5, <1>7

-----------------------------------------------------------------------------
(* What one page, one entry that joins and one that leaves do to a walk.   *)

\* Sets without a common member add up.
LEMMA DisjointUnion ==
    ASSUME NEW S, NEW T, IsFiniteSet(S), IsFiniteSet(T), S \cap T = {}
    PROVE  Cardinality(S \cup T) = Cardinality(S) + Cardinality(T)
<1>1. Cardinality(S \cup T) = Cardinality(S) + Cardinality(T) - Cardinality(S \cap T)
  BY FS_Union
<1>2. Cardinality(S \cap T) = 0
  BY FS_EmptySet
<1>3. Cardinality(S) \in Nat /\ Cardinality(T) \in Nat
  BY FS_CardinalityType
<1> QED
  BY <1>1, <1>2, <1>3

\* Both parts of a list, where an entry is behind or ahead.
LEMMA PartsOf ==
    ASSUME NEW S, NEW v \in Seq(S), NEW o \in Nat
    PROVE  /\ \A x : x \in Behind(v, o) <=> \E k \in 1 .. Len(v) : k <= o /\ x = v[k]
           /\ \A x : x \in Ahead(v, o) <=> \E k \in 1 .. Len(v) : k > o /\ x = v[k]
           /\ Behind(v, o) \cup Ahead(v, o) = ToSet(v)
           /\ IsFiniteSet(Behind(v, o)) /\ IsFiniteSet(Ahead(v, o))
<1>1. DOMAIN v = 1 .. Len(v) /\ Len(v) \in Nat
  BY LenProperties
<1>2. \A x : x \in Behind(v, o) <=> \E k \in 1 .. Len(v) : k <= o /\ x = v[k]
  BY <1>1 DEF Behind
<1>3. \A x : x \in Ahead(v, o) <=> \E k \in 1 .. Len(v) : k > o /\ x = v[k]
  BY <1>1 DEF Ahead
<1>4. \A x : x \in ToSet(v) <=> \E k \in 1 .. Len(v) : x = v[k]
  BY <1>1 DEF ToSet
<1>5. Behind(v, o) \cup Ahead(v, o) = ToSet(v)
  <2>1. \A k \in 1 .. Len(v) : k <= o \/ k > o
    BY <1>1
  <2> QED
    BY <1>2, <1>3, <1>4, <2>1
<1>6. IsFiniteSet(ToSet(v))
  BY ToSetIs
<1>7. IsFiniteSet(Behind(v, o)) /\ IsFiniteSet(Ahead(v, o))
  BY <1>5, <1>6, FS_Subset
<1> QED
  BY <1>2, <1>3, <1>5, <1>7

\* Before the first page nothing is read and nothing is behind.
LEMMA FreshAccounts ==
    ASSUME NEW S, NEW v \in Seq(S), IsInjective(v)
    PROVE  Accounts(v, 0, <<>>, Fresh(v))
<1>1. ToSet(<<>>) = {} /\ Len(<<>>) = 0
  BY DEF ToSet
<1>2. Behind(v, 0) = {}
  <2>1. \A k \in 1 .. Len(v) : ~(k <= 0)
    BY LenProperties
  <2> QED
    BY <2>1, PartsOf
<1>3. Cardinality(ToSet(v)) = Len(v) /\ Len(v) \in Nat
  BY ToSetIs, LenProperties
<1>4. Fresh(v).steady = ToSet(v) /\ Fresh(v).joined = 0 /\ Fresh(v).left = 0
  BY DEF Fresh
<1>5. /\ ToSet(<<>>) \cap Ahead(v, 0) = {}
      /\ (Fresh(v).steady \cap Behind(v, 0)) \ ToSet(<<>>) = {}
  BY <1>1, <1>2
<1>6. /\ Cardinality(ToSet(<<>>) \cap Ahead(v, 0)) = 0 /\ Cardinality(ToSet(<<>>)) = 0
      /\ Cardinality((Fresh(v).steady \cap Behind(v, 0)) \ ToSet(<<>>)) = 0
  BY <1>1, <1>5, FS_EmptySet
<1>7. /\ Fresh(v).steady \subseteq ToSet(v)
      /\ Len(v) <= Cardinality(Fresh(v).steady) + Fresh(v).joined
  BY <1>3, <1>4
<1>8. Len(<<>>) + 0 <= 0 + Fresh(v).joined /\ 0 <= Fresh(v).left
  BY <1>1, <1>4
<1> QED
  BY <1>1, <1>6, <1>7, <1>8 DEF Accounts

\* A page read from the offset on moves it behind what was read.
LEMMA PageAccounts ==
    ASSUME NEW S, NEW v \in Seq(S), IsInjective(v), NEW o \in Nat, NEW read \in Seq(S),
           NEW w \in [steady : SUBSET S, joined : Nat, left : Nat],
           Accounts(v, o, read, w), NEW e \in o .. Len(v)
    PROVE  /\ SubSeq(v, o + 1, e) \in Seq(S)
           /\ Len(SubSeq(v, o + 1, e)) = e - o
           /\ Accounts(v, e, read \o SubSeq(v, o + 1, e), w)
<1> DEFINE items == SubSeq(v, o + 1, e)
           I == ToSet(items)
           R == ToSet(read)
<1>0. /\ Len(v) \in Nat /\ e \in Nat /\ o <= e /\ e <= Len(v)
      /\ \A j \in 1 .. Len(v) : v[j] \in S
      /\ \A j, k \in 1 .. Len(v) : v[j] = v[k] => j = k
  BY LenProperties, ElementOfSeq DEF IsInjective
<1>1. items \in Seq(S) /\ Len(items) = e - o /\ \A j \in 1 .. e - o : items[j] = v[o + j]
  <2>1. \A j \in o + 1 .. e : v[j] \in S
    BY <1>0
  <2>2. /\ items \in Seq(S) /\ Len(items) = IF o + 1 <= e THEN e - (o + 1) + 1 ELSE 0
        /\ \A j \in 1 .. e - (o + 1) + 1 : items[j] = v[o + 1 + j - 1]
    BY <1>0, <2>1, SubSeqProperties
  <2> HIDE DEF items
  <2>3. Len(items) = e - o
    BY <1>0, <2>2
  <2>4. \A j \in 1 .. e - o : j \in 1 .. e - (o + 1) + 1 /\ o + 1 + j - 1 = o + j
    BY <1>0
  <2> QED
    BY <2>2, <2>3, <2>4
<1> HIDE DEF items
<1>2. IsInjective(items)
  <2> SUFFICES ASSUME NEW j \in 1 .. e - o, NEW k \in 1 .. e - o, items[j] = items[k]
               PROVE  j = k
    BY <1>1, LenProperties DEF IsInjective
  <2>1. o + j \in 1 .. Len(v) /\ o + k \in 1 .. Len(v) /\ v[o + j] = v[o + k]
    BY <1>0, <1>1
  <2>2. o + j = o + k
    BY <1>0, <2>1
  <2> QED
    BY <2>2
<1>3. IsFiniteSet(I) /\ Cardinality(I) = e - o
  BY <1>1, <1>2, ToSetIs
<1>4. \A x : x \in I <=> \E k \in 1 .. Len(v) : k > o /\ k <= e /\ x = v[k]
  <2>1. ASSUME NEW x \in I PROVE \E k \in 1 .. Len(v) : k > o /\ k <= e /\ x = v[k]
    <3>1. PICK j \in 1 .. e - o : x = items[j]
      BY <1>1, ToSetIs
    <3>2. o + j \in 1 .. Len(v) /\ o + j > o /\ o + j <= e /\ x = v[o + j]
      BY <1>0, <1>1, <3>1
    <3> QED
      BY <3>2
  <2>2. ASSUME NEW k \in 1 .. Len(v), k > o, k <= e PROVE v[k] \in I
    <3>1. k - o \in 1 .. e - o /\ o + (k - o) = k
      BY <1>0, <2>2
    <3>2. items[k - o] = v[k]
      BY <1>1, <3>1
    <3> QED
      BY <1>1, <3>1, <3>2, ToSetIs
  <2> QED
    BY <2>1, <2>2
<1>5. /\ IsFiniteSet(R) /\ Cardinality(R) \in Nat /\ ToSet(read \o items) = R \cup I
      /\ read \o items \in Seq(S) /\ Len(read \o items) = Len(read) + (e - o)
  <2>1. IsFiniteSet(R) /\ Cardinality(R) \in Nat
    BY ToSetIs
  <2>2. ToSet(read \o items) = R \cup I
    BY <1>1, ToSetOfConcat
  <2>3. read \o items \in Seq(S) /\ Len(read \o items) = Len(read) + Len(items)
    BY <1>1, ConcatProperties
  <2> QED
    BY <1>1, <2>1, <2>2, <2>3
<1> HIDE DEF I, R
<1>6. Ahead(v, o) = I \cup Ahead(v, e) /\ I \cap Ahead(v, e) = {}
  <2>1. \A k \in 1 .. Len(v) : k > o <=> (k > o /\ k <= e) \/ k > e
    BY <1>0
  <2>2. Ahead(v, o) = I \cup Ahead(v, e)
    BY <1>0, <1>4, <2>1, PartsOf
  <2>3. ASSUME NEW x \in I, x \in Ahead(v, e) PROVE FALSE
    <3>1. PICK k \in 1 .. Len(v) : k <= e /\ x = v[k]
      BY <1>4
    <3>2. PICK j \in 1 .. Len(v) : j > e /\ x = v[j]
      BY <1>0, <2>3, PartsOf
    <3>3. k = j
      BY <1>0, <3>1, <3>2
    <3> QED
      BY <1>0, <3>1, <3>2, <3>3
  <2> QED
    BY <2>2, <2>3
<1>7. Behind(v, e) = Behind(v, o) \cup I
  <2>1. \A k \in 1 .. Len(v) : k <= e <=> k <= o \/ (k > o /\ k <= e)
    BY <1>0
  <2> QED
    BY <1>0, <1>4, <2>1, PartsOf
<1>8. /\ Cardinality(R \cup I) = Cardinality(R) + (e - o) - Cardinality(R \cap I)
      /\ IsFiniteSet(R \cap I) /\ Cardinality(R \cap I) \in Nat
      /\ IsFiniteSet(R \cap Ahead(v, e)) /\ Cardinality(R \cap Ahead(v, e)) \in Nat
  BY <1>3, <1>5, FS_Union, FS_Intersection, FS_CardinalityType
<1>9. Cardinality(R \cap Ahead(v, o)) = Cardinality(R \cap I) + Cardinality(R \cap Ahead(v, e))
  <2>1. /\ R \cap Ahead(v, o) = (R \cap I) \cup (R \cap Ahead(v, e))
        /\ (R \cap I) \cap (R \cap Ahead(v, e)) = {}
    BY <1>6
  <2> QED
    BY <1>8, <2>1, DisjointUnion
<1>10. (R \cup I) \cap Ahead(v, e) = R \cap Ahead(v, e)
  BY <1>6
<1>11. /\ Len(read) = o /\ w.steady \subseteq ToSet(v)
       /\ Len(v) <= Cardinality(w.steady) + w.joined
       /\ Len(read) + Cardinality(R \cap Ahead(v, o)) <= Cardinality(R) + w.joined
       /\ Cardinality((w.steady \cap Behind(v, o)) \ R) <= w.left
       /\ w.joined \in Nat /\ w.left \in Nat
  BY DEF Accounts, R
<1>12. Cardinality((w.steady \cap Behind(v, e)) \ (R \cup I)) <= w.left
  <2>1. (w.steady \cap Behind(v, e)) \ (R \cup I) \subseteq (w.steady \cap Behind(v, o)) \ R
    BY <1>7
  <2>2. IsFiniteSet((w.steady \cap Behind(v, o)) \ R)
    BY PartsOf, FS_Subset
  <2>3. /\ Cardinality((w.steady \cap Behind(v, e)) \ (R \cup I))
              <= Cardinality((w.steady \cap Behind(v, o)) \ R)
        /\ IsFiniteSet((w.steady \cap Behind(v, e)) \ (R \cup I))
    BY <2>1, <2>2, FS_Subset
  <2>4. /\ Cardinality((w.steady \cap Behind(v, e)) \ (R \cup I)) \in Nat
        /\ Cardinality((w.steady \cap Behind(v, o)) \ R) \in Nat
    BY <2>2, <2>3, FS_CardinalityType
  <2> QED
    BY <1>11, <2>3, <2>4
<1>13. Len(read) + (e - o) + Cardinality((R \cup I) \cap Ahead(v, e))
           <= Cardinality(R \cup I) + w.joined
  <2> DEFINE a == Cardinality(R \cap I)
             b == Cardinality(R \cap Ahead(v, e))
             c == Cardinality(R)
  <2>1. o + (a + b) <= c + w.joined /\ a \in Nat /\ b \in Nat /\ c \in Nat /\ w.joined \in Nat
    BY <1>5, <1>8, <1>9, <1>11
  <2>2. /\ Len(read) = o /\ Cardinality((R \cup I) \cap Ahead(v, e)) = b
        /\ Cardinality(R \cup I) = c + (e - o) - a
    BY <1>8, <1>10, <1>11
  <2> HIDE DEF a, b, c
  <2>3. o + (e - o) + b <= c + (e - o) - a + w.joined
    BY <1>0, <2>1
  <2> QED
    BY <2>2, <2>3
<1>14. Accounts(v, e, read \o items, w)
  BY <1>0, <1>5, <1>11, <1>12, <1>13 DEF Accounts
<1> QED
  BY <1>1, <1>14 DEF items

\* What an account says of a walk that ends at its offset.
LEMMA EndAccounts ==
    ASSUME NEW S, NEW v \in Seq(S), NEW o \in Nat, NEW read \in Seq(S),
           NEW w \in [steady : SUBSET S, joined : Nat, left : Nat],
           Accounts(v, o, read, w)
    PROVE  /\ Len(read) - Cardinality(ToSet(read)) <= w.joined
           /\ o >= Len(v) => Cardinality(w.steady \ ToSet(read)) <= w.left
<1>1. /\ Len(read) \in Nat /\ IsFiniteSet(ToSet(read)) /\ Cardinality(ToSet(read)) \in Nat
      /\ w.joined \in Nat
  BY LenProperties, ToSetIs
<1>2. Cardinality(ToSet(read) \cap Ahead(v, o)) \in Nat
  BY <1>1, FS_Intersection, FS_CardinalityType
<1>3. Len(read) - Cardinality(ToSet(read)) <= w.joined
  BY <1>1, <1>2 DEF Accounts
<1>4. ASSUME o >= Len(v) PROVE (w.steady \cap Behind(v, o)) \ ToSet(read) = w.steady \ ToSet(read)
  <2>1. \A k \in 1 .. Len(v) : ~(k > o)
    BY <1>4, LenProperties
  <2>2. Ahead(v, o) = {}
    BY <2>1, PartsOf
  <2>3. w.steady \subseteq Behind(v, o)
    BY <2>2, PartsOf DEF Accounts
  <2> QED
    BY <2>3
<1> QED
  BY <1>3, <1>4 DEF Accounts
\* A set with one more member.
LEMMA AddedOne ==
    ASSUME NEW T, IsFiniteSet(T), NEW e
    PROVE  /\ IsFiniteSet(T \cup {e}) /\ Cardinality(T \cup {e}) \in Nat
           /\ Cardinality(T) \in Nat /\ Cardinality(T \cup {e}) <= Cardinality(T) + 1
<1>1. IsFiniteSet(T \cup {e}) /\ Cardinality(T) \in Nat
  BY FS_AddElement, FS_CardinalityType
<1>2. Cardinality(T \cup {e}) = IF e \in T THEN Cardinality(T) ELSE Cardinality(T) + 1
  BY FS_AddElement
<1> QED
  BY <1>1, <1>2

\* A set with one less.
LEMMA RemovedOne ==
    ASSUME NEW T, IsFiniteSet(T), NEW e
    PROVE  /\ Cardinality(T) \in Nat /\ Cardinality(T \ {e}) \in Nat
           /\ Cardinality(T) <= Cardinality(T \ {e}) + 1
<1>1. IsFiniteSet(T \ {e}) /\ Cardinality(T) \in Nat
  BY FS_RemoveElement, FS_CardinalityType
<1>2. Cardinality(T \ {e}) = IF e \in T THEN Cardinality(T) - 1 ELSE Cardinality(T)
  BY FS_RemoveElement
<1>3. Cardinality(T \ {e}) \in Nat
  BY <1>1, FS_CardinalityType
<1> QED
  BY <1>1, <1>2, <1>3


\* An entry that joins pushes at most one that was read ahead again.
LEMMA JoinAccounts ==
    ASSUME NEW S, NEW v \in Seq(S), IsInjective(v), NEW o \in Nat, NEW read \in Seq(S),
           NEW w \in [steady : SUBSET S, joined : Nat, left : Nat],
           Accounts(v, o, read, w),
           NEW i \in S \ ToSet(v), NEW at \in 1 .. Len(v) + 1
    PROVE  /\ InsertAt(v, at, i) \in Seq(S)
           /\ IsInjective(InsertAt(v, at, i))
           /\ Accounts(InsertAt(v, at, i), o, read, [w EXCEPT !.joined = @ + 1])
<1> DEFINE u == InsertAt(v, at, i)
           x == [w EXCEPT !.joined = @ + 1]
           R == ToSet(read)
           pushed == IF at <= o THEN v[o] ELSE i
<1>0. /\ Len(v) \in Nat /\ at \in Nat
      /\ \A j, k \in 1 .. Len(v) : v[j] = v[k] => j = k
      /\ \A j \in 1 .. Len(v) : v[j] # i
  BY LenProperties, ToSetIs DEF IsInjective
<1>1. /\ u \in Seq(S) /\ Len(u) = Len(v) + 1
      /\ \A j \in 1 .. Len(v) + 1 :
            u[j] = IF j < at THEN v[j] ELSE IF j = at THEN i ELSE v[j - 1]
  <2>1. i \in S /\ v \in Seq(S) /\ at \in 1 .. Len(v) + 1
    OBVIOUS
  <2> HIDE DEF u
  <2>2. /\ InsertAt(v, at, i) \in Seq(S) /\ Len(InsertAt(v, at, i)) = Len(v) + 1
        /\ \A j \in 1 .. Len(v) + 1 :
              InsertAt(v, at, i)[j] = IF j < at THEN v[j] ELSE IF j = at THEN i ELSE v[j - 1]
    BY <2>1, InsertAtIs
  <2> QED
    BY <2>2 DEF u
<1>2. x.steady = w.steady /\ x.joined = w.joined + 1 /\ x.left = w.left
  OBVIOUS
<1> HIDE DEF u, x, pushed
<1>a. ASSUME NEW k \in 1 .. Len(v) + 1, k > at PROVE k - 1 \in 1 .. Len(v) /\ u[k] = v[k - 1]
  <2>1. k - 1 \in 1 .. Len(v) /\ ~(k < at) /\ k # at
    BY <1>0, <1>a
  <2> QED
    BY <1>1, <2>1
<1>b. ASSUME NEW k \in 1 .. Len(v) + 1, k < at PROVE k \in 1 .. Len(v) /\ u[k] = v[k]
  <2>1. k \in 1 .. Len(v)
    BY <1>0, <1>b
  <2> QED
    BY <1>1, <1>b, <2>1
<1>c. u[at] = i
  BY <1>0, <1>1
<1>3. IsInjective(u)
  <2> SUFFICES ASSUME NEW j \in 1 .. Len(v) + 1, NEW k \in 1 .. Len(v) + 1, u[j] = u[k], j < k
               PROVE  FALSE
    BY <1>0, <1>1, LenProperties DEF IsInjective
  <2>1. CASE k < at
    <3>1. /\ j \in 1 .. Len(v) /\ u[j] = v[j]
          /\ k \in 1 .. Len(v) /\ u[k] = v[k]
      BY <1>0, <1>b, <2>1
    <3>2. v[j] = v[k]
      BY <3>1
    <3>3. j = k
      BY <1>0, <3>1, <3>2
    <3> QED
      BY <1>0, <3>3
  <2>2. CASE k = at
    <3>1. j \in 1 .. Len(v) /\ u[j] = v[j]
      BY <1>0, <1>b, <2>2
    <3> QED
      BY <1>0, <1>c, <2>2, <3>1
  <2>3. CASE k > at
    <3>1. k - 1 \in 1 .. Len(v) /\ u[k] = v[k - 1]
      BY <1>a, <2>3
    <3>2. CASE j < at
      <4>1. j \in 1 .. Len(v) /\ u[j] = v[j] /\ j # k - 1
        BY <1>0, <1>b, <2>3, <3>2
      <4> QED
        BY <1>0, <3>1, <4>1
    <3>3. CASE j = at
      BY <1>0, <1>c, <3>1, <3>3
    <3>4. CASE j > at
      <4>1. j - 1 \in 1 .. Len(v) /\ u[j] = v[j - 1] /\ j - 1 # k - 1
        BY <1>a, <3>4
      <4> QED
        BY <1>0, <3>1, <4>1
    <3> QED
      BY <1>0, <3>2, <3>3, <3>4
  <2> QED
    BY <1>0, <2>1, <2>2, <2>3
<1>4. ToSet(v) \subseteq ToSet(u)
  <2> SUFFICES ASSUME NEW j \in 1 .. Len(v) PROVE v[j] \in ToSet(u)
    BY ToSetIs
  <2>1. CASE j < at
    <3>1. j \in 1 .. Len(u) /\ u[j] = v[j]
      BY <1>0, <1>1, <2>1
    <3> QED
      BY <1>1, <3>1, EntryOf
  <2>2. CASE ~(j < at)
    <3>1. j + 1 \in 1 .. Len(v) + 1 /\ j + 1 > at /\ (j + 1) - 1 = j
      BY <1>0, <2>2
    <3>2. j + 1 \in 1 .. Len(u)
      BY <1>1, <3>1
    <3>3. u[j + 1] = v[(j + 1) - 1]
      BY <1>a, <3>1
    <3>4. u[j + 1] = v[j]
      BY <3>1, <3>3
    <3> QED
      BY <1>1, <3>2, <3>4, EntryOf
  <2> QED
    BY <1>0, <2>1, <2>2
<1>5. Ahead(u, o) \subseteq Ahead(v, o) \cup {pushed}
  <2>0. \A e : e \in Ahead(u, o) => \E k \in 1 .. Len(u) : k > o /\ e = u[k]
    BY <1>1, PartsOf
  <2> SUFFICES ASSUME NEW k \in 1 .. Len(v) + 1, k > o PROVE u[k] \in Ahead(v, o) \cup {pushed}
    BY <1>1, <2>0
  <2>1. CASE k < at
    <3>1. k \in 1 .. Len(v) /\ u[k] = v[k]
      BY <1>b, <2>1
    <3> QED
      BY <3>1, PartsOf
  <2>2. CASE k = at
    <3>1. ~(at <= o)
      BY <1>0, <2>2
    <3> QED
      BY <1>c, <2>2, <3>1 DEF pushed
  <2>3. CASE k > at
    <3>1. k - 1 \in 1 .. Len(v) /\ u[k] = v[k - 1] /\ (k - 1 > o \/ k - 1 = o)
      BY <1>a, <2>3
    <3>2. CASE k - 1 > o
      BY <3>1, <3>2, PartsOf
    <3>3. CASE k - 1 = o
      <4>1. at <= o
        BY <1>0, <2>3, <3>3
      <4> QED
        BY <3>1, <3>3, <4>1 DEF pushed
    <3> QED
      BY <3>1, <3>2, <3>3
  <2> QED
    BY <1>0, <2>1, <2>2, <2>3
<1>6. Behind(u, o) \subseteq Behind(v, o) \cup {i}
  <2>0. \A e : e \in Behind(u, o) => \E k \in 1 .. Len(u) : k <= o /\ e = u[k]
    BY <1>1, PartsOf
  <2> SUFFICES ASSUME NEW k \in 1 .. Len(v) + 1, k <= o PROVE u[k] \in Behind(v, o) \cup {i}
    BY <1>1, <2>0
  <2>1. CASE k < at
    <3>1. k \in 1 .. Len(v) /\ u[k] = v[k]
      BY <1>b, <2>1
    <3> QED
      BY <3>1, PartsOf
  <2>2. CASE k = at
    BY <1>c, <2>2
  <2>3. CASE k > at
    <3>1. k - 1 \in 1 .. Len(v) /\ u[k] = v[k - 1] /\ k - 1 <= o
      BY <1>a, <2>3
    <3> QED
      BY <3>1, PartsOf
  <2> QED
    BY <1>0, <2>1, <2>2, <2>3
<1>7. Cardinality(R \cap Ahead(u, o)) <= Cardinality(R \cap Ahead(v, o)) + 1
  <2>1. IsFiniteSet(R \cap Ahead(v, o)) /\ Cardinality(R \cap Ahead(v, o)) \in Nat
    BY ToSetIs, FS_Intersection, FS_CardinalityType
  <2>2. /\ IsFiniteSet((R \cap Ahead(v, o)) \cup {pushed})
        /\ Cardinality((R \cap Ahead(v, o)) \cup {pushed}) <= Cardinality(R \cap Ahead(v, o)) + 1
    <3> DEFINE T == R \cap Ahead(v, o)
    <3> HIDE DEF T
    <3>1. IsFiniteSet(T) /\ Cardinality(T) \in Nat
      BY <2>1 DEF T
    <3>2. /\ IsFiniteSet(T \cup {pushed})
          /\ Cardinality(T \cup {pushed}) <= Cardinality(T) + 1
      BY <3>1, AddedOne
    <3> QED
      BY <3>2 DEF T
  <2>3. R \cap Ahead(u, o) \subseteq (R \cap Ahead(v, o)) \cup {pushed}
    BY <1>5
  <2>4. /\ Cardinality(R \cap Ahead(u, o)) <= Cardinality((R \cap Ahead(v, o)) \cup {pushed})
        /\ IsFiniteSet(R \cap Ahead(u, o))
    BY <2>2, <2>3, FS_Subset
  <2>5. /\ Cardinality(R \cap Ahead(u, o)) \in Nat
        /\ Cardinality((R \cap Ahead(v, o)) \cup {pushed}) \in Nat
    BY <2>2, <2>4, FS_CardinalityType
  <2> QED
    BY <2>1, <2>2, <2>4, <2>5
<1>8. Cardinality((w.steady \cap Behind(u, o)) \ R) <= w.left
  <2>1. (w.steady \cap Behind(u, o)) \ R \subseteq (w.steady \cap Behind(v, o)) \ R
    BY <1>6 DEF Accounts
  <2>2. IsFiniteSet((w.steady \cap Behind(v, o)) \ R)
    BY PartsOf, FS_Subset
  <2>3. /\ Cardinality((w.steady \cap Behind(u, o)) \ R)
              <= Cardinality((w.steady \cap Behind(v, o)) \ R)
        /\ IsFiniteSet((w.steady \cap Behind(u, o)) \ R)
    BY <2>1, <2>2, FS_Subset
  <2>4. /\ Cardinality((w.steady \cap Behind(u, o)) \ R) \in Nat
        /\ Cardinality((w.steady \cap Behind(v, o)) \ R) \in Nat /\ w.left \in Nat
    BY <2>2, <2>3, FS_CardinalityType
  <2>5. Cardinality((w.steady \cap Behind(v, o)) \ R) <= w.left
    BY DEF Accounts
  <2> QED
    BY <2>3, <2>4, <2>5
<1>9. Len(read) + Cardinality(R \cap Ahead(u, o)) <= Cardinality(R) + (w.joined + 1)
  <2>1. /\ Len(read) \in Nat /\ Cardinality(R) \in Nat /\ IsFiniteSet(R) /\ w.joined \in Nat
        /\ Len(read) + Cardinality(R \cap Ahead(v, o)) <= Cardinality(R) + w.joined
    BY LenProperties, ToSetIs DEF Accounts
  <2>2. Cardinality(R \cap Ahead(u, o)) \in Nat /\ Cardinality(R \cap Ahead(v, o)) \in Nat
    BY <2>1, FS_Intersection, FS_CardinalityType
  <2> HIDE DEF R
  <2> QED
    BY <1>7, <2>1, <2>2
<1>10. Len(u) <= Cardinality(w.steady) + (w.joined + 1)
  <2>1. Len(v) <= Cardinality(w.steady) + w.joined /\ w.joined \in Nat /\ w.steady \subseteq ToSet(v)
    BY DEF Accounts
  <2>2. Cardinality(w.steady) \in Nat
    BY <2>1, ToSetIs, FS_Subset, FS_CardinalityType
  <2> QED
    BY <1>0, <1>1, <2>1, <2>2
<1>11. Accounts(u, o, read, x)
  BY <1>2, <1>4, <1>8, <1>9, <1>10 DEF Accounts
<1> QED
  BY <1>1, <1>3, <1>11 DEF u, x

\* An entry that leaves pulls at most one behind that was not read.
LEMMA LeaveAccounts ==
    ASSUME NEW S, NEW v \in Seq(S), IsInjective(v), NEW o \in Nat, NEW read \in Seq(S),
           NEW w \in [steady : SUBSET S, joined : Nat, left : Nat],
           Accounts(v, o, read, w), NEW at \in 1 .. Len(v)
    PROVE  /\ RemoveAt(v, at) \in Seq(S)
           /\ IsInjective(RemoveAt(v, at))
           /\ Accounts(RemoveAt(v, at), o, read,
                       [w EXCEPT !.left = @ + 1, !.steady = @ \ {v[at]}])
<1> DEFINE u == RemoveAt(v, at)
           x == [w EXCEPT !.left = @ + 1, !.steady = @ \ {v[at]}]
           R == ToSet(read)
           pulled == v[o + 1]
<1>0. /\ Len(v) \in Nat /\ at \in Nat
      /\ \A j, k \in 1 .. Len(v) : v[j] = v[k] => j = k
  BY LenProperties DEF IsInjective
<1>1. /\ u \in Seq(S) /\ Len(u) = Len(v) - 1
      /\ \A j \in 1 .. Len(v) - 1 : u[j] = IF j < at THEN v[j] ELSE v[j + 1]
  BY RemoveAtIs
<1>2. x.steady = w.steady \ {v[at]} /\ x.joined = w.joined /\ x.left = w.left + 1
  OBVIOUS
<1> HIDE DEF u, x, pulled
<1>3. IsInjective(u)
  <2> SUFFICES ASSUME NEW j \in 1 .. Len(v) - 1, NEW k \in 1 .. Len(v) - 1, u[j] = u[k], j < k
               PROVE  FALSE
    BY <1>0, <1>1, LenProperties DEF IsInjective
  <2>1. CASE k < at
    BY <1>0, <1>1, <2>1
  <2>2. CASE ~(k < at)
    <3>1. k + 1 \in 1 .. Len(v) /\ u[k] = v[k + 1]
      BY <1>0, <1>1, <2>2
    <3>2. CASE j < at
      BY <1>0, <1>1, <3>1, <3>2
    <3>3. CASE ~(j < at)
      <4>1. j + 1 \in 1 .. Len(v) /\ u[j] = v[j + 1] /\ j + 1 # k + 1
        BY <1>0, <1>1, <3>3
      <4> QED
        BY <1>0, <3>1, <4>1
    <3> QED
      BY <3>2, <3>3
  <2> QED
    BY <2>1, <2>2
<1>4. ToSet(v) \ {v[at]} \subseteq ToSet(u)
  <2> SUFFICES ASSUME NEW j \in 1 .. Len(v), j # at PROVE v[j] \in ToSet(u)
    BY ToSetIs
  <2>1. CASE j < at
    <3>1. j \in 1 .. Len(u) /\ u[j] = v[j]
      BY <1>0, <1>1, <2>1
    <3> QED
      BY <1>1, <3>1, EntryOf
  <2>2. CASE j > at
    <3>1. j - 1 \in 1 .. Len(u) /\ u[j - 1] = v[j]
      BY <1>0, <1>1, <2>2
    <3> QED
      BY <1>1, <3>1, EntryOf
  <2> QED
    BY <1>0, <2>1, <2>2
<1>5. Ahead(u, o) \subseteq Ahead(v, o)
  <2>0. \A e : e \in Ahead(u, o) => \E k \in 1 .. Len(u) : k > o /\ e = u[k]
    BY <1>1, PartsOf
  <2> SUFFICES ASSUME NEW k \in 1 .. Len(v) - 1, k > o PROVE u[k] \in Ahead(v, o)
    BY <1>1, <2>0
  <2>1. CASE k < at
    <3>1. k \in 1 .. Len(v) /\ u[k] = v[k]
      BY <1>0, <1>1, <2>1
    <3> QED
      BY <3>1, PartsOf
  <2>2. CASE ~(k < at)
    <3>1. k + 1 \in 1 .. Len(v) /\ u[k] = v[k + 1] /\ k + 1 > o
      BY <1>0, <1>1, <2>2
    <3> QED
      BY <3>1, PartsOf
  <2> QED
    BY <2>1, <2>2
<1>6. Behind(u, o) \subseteq Behind(v, o) \cup {pulled}
  <2>0. \A e : e \in Behind(u, o) => \E k \in 1 .. Len(u) : k <= o /\ e = u[k]
    BY <1>1, PartsOf
  <2> SUFFICES ASSUME NEW k \in 1 .. Len(v) - 1, k <= o PROVE u[k] \in Behind(v, o) \cup {pulled}
    BY <1>1, <2>0
  <2>1. CASE k < at
    <3>1. k \in 1 .. Len(v) /\ u[k] = v[k]
      BY <1>0, <1>1, <2>1
    <3> QED
      BY <3>1, PartsOf
  <2>2. CASE ~(k < at)
    <3>1. k + 1 \in 1 .. Len(v) /\ u[k] = v[k + 1] /\ (k + 1 <= o \/ k = o)
      BY <1>0, <1>1, <2>2
    <3>2. CASE k + 1 <= o
      BY <3>1, <3>2, PartsOf
    <3>3. CASE k = o
      BY <3>1, <3>3 DEF pulled
    <3> QED
      BY <3>1, <3>2, <3>3
  <2> QED
    BY <2>1, <2>2
<1>7. Cardinality(R \cap Ahead(u, o)) <= Cardinality(R \cap Ahead(v, o))
  <2>1. IsFiniteSet(R \cap Ahead(v, o))
    BY ToSetIs, FS_Intersection
  <2>2. R \cap Ahead(u, o) \subseteq R \cap Ahead(v, o)
    BY <1>5
  <2> QED
    BY <2>1, <2>2, FS_Subset
<1>8. Cardinality((x.steady \cap Behind(u, o)) \ R) <= w.left + 1
  <2> DEFINE missed == (w.steady \cap Behind(v, o)) \ R
  <2>1. (x.steady \cap Behind(u, o)) \ R \subseteq missed \cup {pulled}
    <3>1. x.steady \subseteq w.steady
      BY <1>2
    <3> QED
      BY <1>6, <3>1
  <2>2. IsFiniteSet(missed) /\ Cardinality(missed) \in Nat
    <3>1. IsFiniteSet(Behind(v, o)) /\ missed \subseteq Behind(v, o)
      BY PartsOf
    <3> HIDE DEF missed
    <3> QED
      BY <3>1, FS_Subset, FS_CardinalityType
  <2>3. Cardinality(missed) <= w.left /\ w.left \in Nat
    BY DEF Accounts
  <2> HIDE DEF missed
  <2>4. /\ IsFiniteSet(missed \cup {pulled}) /\ Cardinality(missed \cup {pulled}) \in Nat
        /\ Cardinality(missed \cup {pulled}) <= Cardinality(missed) + 1
    BY <2>2, AddedOne
  <2>5. /\ Cardinality((x.steady \cap Behind(u, o)) \ R) <= Cardinality(missed \cup {pulled})
        /\ IsFiniteSet((x.steady \cap Behind(u, o)) \ R)
    BY <2>1, <2>4, FS_Subset
  <2>6. Cardinality((x.steady \cap Behind(u, o)) \ R) \in Nat
    BY <2>5, FS_CardinalityType
  <2> QED
    BY <2>2, <2>3, <2>4, <2>5, <2>6
<1>9. Len(read) + Cardinality(R \cap Ahead(u, o)) <= Cardinality(R) + w.joined
  <2>1. /\ Len(read) \in Nat /\ Cardinality(R) \in Nat /\ IsFiniteSet(R) /\ w.joined \in Nat
        /\ Len(read) + Cardinality(R \cap Ahead(v, o)) <= Cardinality(R) + w.joined
    BY LenProperties, ToSetIs DEF Accounts
  <2>2. Cardinality(R \cap Ahead(u, o)) \in Nat /\ Cardinality(R \cap Ahead(v, o)) \in Nat
    BY <2>1, FS_Intersection, FS_CardinalityType
  <2> HIDE DEF R
  <2> QED
    BY <1>7, <2>1, <2>2
<1>10. Len(u) <= Cardinality(x.steady) + w.joined
  <2>1. Len(v) <= Cardinality(w.steady) + w.joined /\ w.joined \in Nat /\ w.steady \subseteq ToSet(v)
    BY DEF Accounts
  <2>2. IsFiniteSet(w.steady) /\ Cardinality(w.steady) \in Nat
    BY <2>1, ToSetIs, FS_Subset, FS_CardinalityType
  <2>3. Cardinality(w.steady) <= Cardinality(x.steady) + 1 /\ Cardinality(x.steady) \in Nat
    BY <1>2, <2>2, RemovedOne
  <2> QED
    BY <1>0, <1>1, <2>1, <2>2, <2>3
<1>11. x.steady \subseteq ToSet(u)
  BY <1>2, <1>4 DEF Accounts
<1>12. Len(read) = o
  BY DEF Accounts
<1>13. Accounts(u, o, read, x)
  BY <1>2, <1>8, <1>9, <1>10, <1>11, <1>12 DEF Accounts
<1> QED
  BY <1>1, <1>3, <1>13 DEF u, x

-----------------------------------------------------------------------------
(* The calls of a fetch and what each of them reads.                       *)

\* A walk over a list is a call.
LEMMA ListCall ==
    ASSUME NEW l \in Lists, NEW p \in Paged, NEW e \in {"raise", "keep", "drop"}
    PROVE  Call(l, p, e) \in PlainCalls /\ Call(l, p, e) \in Calls
<1>1. Lists \cap Objects = {} /\ p # "one"
  BY DEF Lists, Objects, Paged
<1> QED
  BY <1>1 DEF Call, Calls, PlainCalls

\* So is a request for an object.
LEMMA ObjectCall ==
    ASSUME NEW n \in Objects
    PROVE  One(n) \in PlainCalls /\ One(n) \in Calls
BY DEF One, Call, Calls, PlainCalls

\* Every fetch is a queue of calls, and it asks for something.
LEMMA ProgramTyped ==
    ASSUME FetchAssumption, NEW j \in Jobs
    PROVE  Program(j) \in Seq(PlainCalls) /\ Program(j) # <<>>
<1>1. /\ {Get("raise"), Get("drop"), Switches("raise"), Switches("drop"),
          Call("alarm", "first", "raise"), Call("alarm", "first", "drop"),
          Call("traffic", "tried", "raise"), Call("switch", "tried", "raise"),
          Call("vlan", "vlans", "raise")} \subseteq PlainCalls
      /\ {Query("ap"), Query("client"), Query("wlan"), Query("rogue")} \subseteq PlainCalls
  BY ListCall DEF Get, Query, Switches, Lists, Paged
<1>2. {One("cluster"), One("devices"), One("ports"), One("cpu"), One("mem"),
       One("clientTotal"), One("alarmSummary"), One("usage"), One("portUsage")} \subseteq PlainCalls
  BY ObjectCall DEF Objects
<1>3. j \in {"zones", "aps", "clients", "wlans", "firmware", "rogues", "security",
             "controller", "alarms", "switches", "switch", "traffic", "stack",
             "vlans", "inventory", "operational", "topology"}
  BY DEF FetchAssumption
<1>4. \A a, b, c, d, e, f, g \in PlainCalls :
          /\ {<<a>>, <<a, b>>, <<a, b, c, d>>, <<a, b, c, d, e, f, g>>} \subseteq Seq(PlainCalls)
          /\ <<>> \notin {<<a>>, <<a, b>>, <<a, b, c, d>>, <<a, b, c, d, e, f, g>>}
  OBVIOUS
<1>5. CASE j = "zones"
  BY <1>1, <1>2, <1>4, <1>5 DEF Program
<1>6. CASE j = "aps"
  BY <1>1, <1>2, <1>4, <1>6 DEF Program
<1>7. CASE j = "clients"
  BY <1>1, <1>2, <1>4, <1>7 DEF Program
<1>8. CASE j = "wlans"
  BY <1>1, <1>2, <1>4, <1>8 DEF Program
<1>9. CASE j = "firmware"
  BY <1>1, <1>2, <1>4, <1>9 DEF Program
<1>10. CASE j = "rogues"
  BY <1>1, <1>2, <1>4, <1>10 DEF Program
<1>11. CASE j = "security"
  BY <1>1, <1>2, <1>4, <1>11 DEF Program
<1>12. CASE j = "controller"
  BY <1>1, <1>2, <1>4, <1>12 DEF Program
<1>13. CASE j = "alarms"
  BY <1>1, <1>2, <1>4, <1>13 DEF Program
<1>14. CASE j = "switches"
  BY <1>1, <1>2, <1>4, <1>14 DEF Program
<1>15. CASE j = "switch"
  BY <1>1, <1>2, <1>4, <1>15 DEF Program
<1>16. CASE j = "traffic"
  BY <1>1, <1>2, <1>4, <1>16 DEF Program
<1>17. CASE j = "stack"
  BY <1>1, <1>2, <1>4, <1>17 DEF Program
<1>18. CASE j = "vlans"
  BY <1>1, <1>2, <1>4, <1>18 DEF Program
<1>19. CASE j = "inventory"
  BY <1>1, <1>2, <1>4, <1>19 DEF Program
<1>20. CASE j = "operational"
  BY <1>1, <1>2, <1>4, <1>20 DEF Program
<1>21. CASE j = "topology"
  BY <1>1, <1>2, <1>4, <1>21 DEF Program
<1> QED
  BY <1>3, <1>5, <1>6, <1>7, <1>8, <1>9, <1>10, <1>11, <1>12, <1>13,
     <1>14, <1>15, <1>16, <1>17, <1>18, <1>19, <1>20, <1>21

\* And either of them for one zone.
LEMMA OfZoneTyped ==
    ASSUME NEW c \in Calls, c.list \in {"ap", "detail"}, NEW z \in AllIds
    PROVE  OfZone(c, z) \in Calls
BY DEF OfZone, Calls

\* What is still to be called after a walk has ended.
LEMMA FollowingTyped ==
    ASSUME FetchAssumption, Types, todo # <<>>, NEW read \in Seq(AllIds)
    PROVE  Following(Current, read) \in Seq(Calls)
<1> DEFINE rest == Tail(todo)
           known == SetToSeq(ToSet(got["rkszones"]))
           details == Details(read)
           listings == [i \in DOMAIN known |-> OfZone(Listing, known[i])]
<1>1. rest \in Seq(Calls)
  BY HeadTailProperties DEF Types
<1>2. details \in Seq(Calls)
  <2>1. Len(read) \in Nat /\ DOMAIN read = 1 .. Len(read) /\ \A i \in 1 .. Len(read) : read[i] \in AllIds
    BY LenProperties, ElementOfSeq
  <2>2. One("detail") \in Calls /\ One("detail").list = "detail"
    BY ObjectCall DEF Objects, One, Call
  <2>3. \A i \in 1 .. Len(read) : OfZone(One("detail"), read[i]) \in Calls
    BY <2>1, <2>2, OfZoneTyped
  <2>4. details \in [1 .. Len(read) -> Calls]
    BY <2>1, <2>3 DEF Details
  <2> QED
    BY <2>1, <2>4
<1>3. listings \in Seq(Calls)
  <2>1. got["rkszones"] \in Seq(AllIds)
    BY DEF Types, Lists
  <2>2. IsFiniteSet(ToSet(got["rkszones"])) /\ ToSet(got["rkszones"]) \subseteq AllIds
    BY <2>1, ToSetIs
  <2>3. known \in Seq(ToSet(got["rkszones"]))
    BY <2>2, SetToSeqIs
  <2> HIDE DEF known
  <2>4. /\ Len(known) \in Nat /\ DOMAIN known = 1 .. Len(known)
        /\ \A i \in 1 .. Len(known) : known[i] \in AllIds
    BY <2>2, <2>3, LenProperties, ElementOfSeq
  <2>5. Listing \in Calls /\ Listing.list = "ap"
    BY ListCall DEF Listing, Lists, Paged, Call
  <2>6. \A i \in 1 .. Len(known) : OfZone(Listing, known[i]) \in Calls
    BY <2>4, <2>5, OfZoneTyped
  <2>7. listings \in [1 .. Len(known) -> Calls]
    BY <2>4, <2>6
  <2> QED
    BY <2>4, <2>7
<1>4. <<Listing>> \in Seq(Calls)
  <2>1. Listing \in Calls
    BY ListCall DEF Listing, Lists, Paged
  <2> QED
    BY <2>1
<1>5. AfterZones(job, read, rest) \in Seq(Calls)
  <2> HIDE DEF rest
  <2> QED
    BY <1>1, <1>2, ConcatProperties DEF AfterZones
<1>6. ASSUME job \in {"inventory", "operational"}
      PROVE  AfterAps(job, got["rkszones"], rest) \in Seq(Calls)
  <2>1. CASE job = "inventory"
    <3>1. AfterAps(job, got["rkszones"], rest) = listings \o rest
      BY <2>1 DEF AfterAps
    <3> HIDE DEF listings, rest
    <3> QED
      BY <1>1, <1>3, <3>1, ConcatProperties
  <2>2. CASE job = "operational"
    <3>1. AfterAps(job, got["rkszones"], rest) = <<Listing>> \o rest
      BY <2>2 DEF AfterAps
    <3> HIDE DEF rest
    <3> QED
      BY <1>1, <1>4, <3>1, ConcatProperties
  <2> QED
    BY <1>6, <2>1, <2>2
<1>7. FallsBack(Current, read) => job \in {"inventory", "operational"}
  BY DEF FallsBack
<1> HIDE DEF rest
<1> QED
  BY <1>1, <1>5, <1>6, <1>7 DEF Following, rest

\* What a call reads is a list without an entry twice.
LEMMA EntriesOfWorld ==
    ASSUME world \in [Lists -> Seq(AllIds)], \A l \in Lists : IsInjective(world[l]),
           NEW c \in Calls
    PROVE  Entries(c) \in Seq(AllIds) /\ IsInjective(Entries(c))
<1>1. CASE c.list \notin Lists
  <2>1. Entries(c) = <<>>
    BY <1>1 DEF Entries
  <2> QED
    BY <2>1 DEF IsInjective
<1>2. CASE c.list \in Lists /\ c.zone = None
  <2>1. Entries(c) = world[c.list]
    BY <1>2 DEF Entries
  <2> QED
    BY <1>2, <2>1
<1>3. CASE c.list \in Lists /\ c.zone # None
  <2> DEFINE here == {i \in ToSet(world["ap"]) : Row("ap", i).zone = c.zone}
  <2>1. Entries(c) = SetToSeq(here)
    BY <1>3 DEF Entries
  <2>2. world["ap"] \in Seq(AllIds)
    BY DEF Lists
  <2>3. IsFiniteSet(here) /\ here \subseteq AllIds
    BY <2>2, ToSetIs, FS_Subset
  <2> HIDE DEF here
  <2>4. SetToSeq(here) \in Seq(here) /\ IsInjective(SetToSeq(here))
    BY <2>3, SetToSeqIs
  <2>5. SetToSeq(here) \in Seq(AllIds)
    BY <2>3, <2>4
  <2> QED
    BY <2>1, <2>4, <2>5
<1> QED
  BY <1>1, <1>2, <1>3

\* The same of the state.
LEMMA EntriesTyped ==
    ASSUME Types, NEW c \in Calls
    PROVE  Entries(c) \in Seq(AllIds) /\ IsInjective(Entries(c))
BY EntriesOfWorld DEF Types

-----------------------------------------------------------------------------
(* What a request reads, and when the walk is over.                        *)

\* A page is as long as a page can be, or the last of its list; the offset
\* moves by what was read.
LEMMA PageRead ==
    ASSUME FetchAssumption, Types, Accounts(view, Offset, rows, walk)
    PROVE  /\ Items \in Seq(AllIds) /\ rows \o Items \in Seq(AllIds)
           /\ Offset \in Nat /\ Len(rows) = Offset
           /\ Len(Items) \in Nat /\ Len(Items) <= Limit
           /\ Len(Items) = Limit \/ Offset + Len(Items) >= Len(view)
           /\ Accounts(view, Offset + Len(Items), rows \o Items, walk)
<1> DEFINE o == Offset
           n == Len(view)
           e == IF o + Limit < n THEN o + Limit ELSE n
           items == SubSeq(view, o + 1, e)
<1>1. /\ view \in Seq(AllIds) /\ IsInjective(view) /\ rows \in Seq(AllIds)
      /\ walk \in [steady : SUBSET AllIds, joined : Nat, left : Nat]
      /\ n \in Nat /\ Limit \in Nat /\ Limit > 0
  BY LenProperties DEF Types, TypeOK, FetchAssumption
<1>2. o = Len(rows) /\ o \in Nat
  BY <1>1, LenProperties DEF Accounts
<1>3. Items = items
  BY DEF Items
<1>4. Accounts(view, o, rows, walk)
  OBVIOUS
<1> HIDE DEF o, n
<1>5. CASE o <= n
  <2>1. e \in o .. n /\ e - o <= Limit /\ (e - o = Limit \/ o + (e - o) >= n) /\ e = o + (e - o)
    BY <1>1, <1>2, <1>5
  <2> HIDE DEF e
  <2>2. /\ items \in Seq(AllIds) /\ Len(items) = e - o
        /\ Accounts(view, e, rows \o items, walk)
    BY <1>1, <1>2, <1>4, <2>1, PageAccounts DEF n
  <2> HIDE DEF items
  <2>3. Accounts(view, o + Len(items), rows \o items, walk) /\ Len(items) \in Nat
    BY <1>1, <1>2, <2>1, <2>2
  <2>4. rows \o items \in Seq(AllIds)
    BY <1>1, <2>2, ConcatProperties
  <2> QED
    BY <1>2, <1>3, <2>1, <2>2, <2>3, <2>4 DEF o, n
<1>6. CASE ~(o <= n)
  <2>1. e < o + 1 /\ n < o
    BY <1>1, <1>2, <1>6
  <2> HIDE DEF e
  <2>2. items = <<>>
    <3>1. e \in Int /\ o + 1 \in Int
      BY <1>1, <1>2 DEF e
    <3> QED
      BY <2>1, <3>1, SubSeqEmpty
  <2> HIDE DEF items
  <2>3. rows \o items = rows /\ Len(items) = 0
    BY <1>1, <2>2
  <2>4. o + Len(items) = o
    BY <1>2, <2>3
  <2> QED
    BY <1>1, <1>2, <1>3, <1>4, <2>1, <2>2, <2>3, <2>4 DEF o, n
<1> QED
  BY <1>5, <1>6

\* A walk that goes on has read whole pages, so its next request asks for
\* what comes after them.
LEMMA NextOffset ==
    ASSUME FetchAssumption, Types, Accounts(view, Offset, rows, walk),
           Current.pager \in Paged, ~Ends
    PROVE  /\ ~OnePage
           /\ NextCursor \in Nat
           /\ (IF Current.pager = "get" THEN NextCursor ELSE (NextCursor - 1) * Limit)
                  = Offset + Len(Items)
<1>1. /\ Offset \in Nat /\ Len(Items) \in Nat /\ Limit \in Nat \ {0} /\ cursor \in Nat
      /\ Len(view) \in Nat /\ Len(Items) <= Limit
      /\ Len(Items) = Limit \/ Offset + Len(Items) >= Len(view)
  BY PageRead, LenProperties DEF Types, TypeOK, FetchAssumption
<1>2. CASE Current.pager = "get"
  BY <1>1, <1>2 DEF Ends, GetEnds, HasMore, OnePage, NextCursor, Offset
<1>3. ASSUME Current.pager # "get", Len(Items) = Limit
      PROVE  NextCursor \in Nat /\ (NextCursor - 1) * Limit = Offset + Len(Items)
  <2>1. NextCursor = cursor + 1 /\ Offset = (cursor - 1) * Limit
    BY <1>3 DEF NextCursor, Offset
  <2>2. (cursor + 1 - 1) * Limit = (cursor - 1) * Limit + Limit
    BY <1>1
  <2> QED
    BY <1>1, <1>3, <2>1, <2>2
<1>4. CASE Current.pager = "query"
  <2>1. Len(Items) = Limit /\ ~OnePage
    BY <1>1, <1>4 DEF Ends, QueryEnds, HasMore, OnePage
  <2> QED
    BY <1>3, <1>4, <2>1
<1>5. CASE Current.pager = "switch"
  <2>1. Len(Items) = Limit /\ ~OnePage
    BY <1>1, <1>5 DEF Ends, SwitchEnds, HasMore, OnePage
  <2> QED
    BY <1>3, <1>5, <2>1
<1>6. CASE Current.pager = "vlans"
  <2>1. Len(Items) = Limit /\ ~OnePage
    BY <1>1, <1>6 DEF Ends, VlansEnd, HasMore, OnePage
  <2> QED
    BY <1>3, <1>6, <2>1
<1>7. Current.pager \in {"get", "query", "switch", "vlans"}
  BY DEF Ends, Paged
<1> QED
  BY <1>2, <1>4, <1>5, <1>6, <1>7

\* A walk whose list fits what its pager reads ends at the end of the list.
LEMMA EndsAtEnd ==
    ASSUME FetchAssumption, Types, Accounts(view, Offset, rows, walk), OnePage => Offset = 0,
           Current.pager \in Paged, Ends,
           NEW size \in Nat, size >= Len(view), Complete(Current, size)
    PROVE  Offset + Len(Items) >= Len(view)
<1> DEFINE reach == Offset + Len(Items)
<1> SUFFICES ASSUME reach < Len(view) PROVE FALSE
  <2>1. Offset \in Nat /\ Len(Items) \in Nat
    BY PageRead
  <2>2. Len(view) \in Nat
    BY LenProperties DEF Types
  <2> QED
    BY <2>1, <2>2
<1>1. /\ Offset \in Nat /\ Len(Items) \in Nat /\ Limit \in Nat \ {0} /\ cursor \in Nat
      /\ Len(view) \in Nat /\ Len(rows) = Offset /\ {MaxRecords, MaxPages} \subseteq Nat
  BY PageRead, LenProperties DEF Types, TypeOK, FetchAssumption
<1>2. Len(Items) = Limit
  BY <1>1, PageRead
<1>3. Items # <<>>
  BY <1>1, <1>2
<1>4. OnePage => ~(size <= Limit)
  BY <1>1, <1>2
<1>5. HasMore = style.more /\ (Total > 0 => Total = Len(view))
  BY <1>1, LenProperties DEF HasMore, Total, Types
<1>6. Current.pager # "get" => reach = cursor * Limit
  <2>1. Current.pager # "get" => Offset = (cursor - 1) * Limit
    BY DEF Offset
  <2>2. (cursor - 1) * Limit + Limit = cursor * Limit
    BY <1>1
  <2> QED
    BY <1>1, <1>2, <2>1, <2>2
<1>7. CASE Current.pager = "get"
  <2>1. ~style.more
    BY <1>3, <1>5, <1>7 DEF Ends, GetEnds
  <2> QED
    BY <1>4, <1>7, <2>1 DEF Complete, OnePage
<1>8. CASE Current.pager = "query"
  <2>1. Total > 0 /\ cursor * Limit >= Total
    BY <1>1, <1>2, <1>3, <1>5, <1>8 DEF Ends, QueryEnds
  <2> QED
    BY <1>1, <1>5, <1>6, <1>8, <2>1
<1>9. CASE Current.pager = "switch"
  <2>1. (style.more \/ size <= Limit) /\ size <= MaxRecords
    BY <1>9 DEF Complete
  <2>2. style.more
    BY <1>4, <1>9, <2>1 DEF OnePage
  <2>3. (Total > 0 /\ reach >= Total) \/ reach >= MaxRecords
    BY <1>1, <1>3, <1>5, <1>9, <2>2 DEF Ends, SwitchEnds
  <2> QED
    BY <1>1, <1>5, <2>1, <2>3
<1>10. CASE Current.pager = "vlans"
  <2>1. cursor = MaxPages
    BY <1>1, <1>2, <1>10 DEF Ends, VlansEnd
  <2>2. size < Limit * MaxPages
    BY <1>10 DEF Complete
  <2>3. Limit * MaxPages = MaxPages * Limit
    BY <1>1
  <2> QED
    BY <1>1, <1>6, <1>10, <2>1, <2>2, <2>3
<1>11. CASE Current.pager \in {"first", "tried"}
  BY <1>4, <1>11 DEF OnePage, Complete
<1> QED
  BY <1>7, <1>8, <1>9, <1>10, <1>11 DEF Paged

-----------------------------------------------------------------------------
(* The invariant of a fetch.                                               *)

\* A walk that has not read anything accounts for its list.
LEMMA FirstRequest ==
    ASSUME FetchAssumption, NEW c \in Calls, NEW entries \in Seq(AllIds), IsInjective(entries)
    PROVE  /\ FirstCursor(c) \in Nat
           /\ (IF c.pager = "get" THEN FirstCursor(c) ELSE (FirstCursor(c) - 1) * Limit) = 0
           /\ Fresh(entries) \in [steady : SUBSET AllIds, joined : Nat, left : Nat]
           /\ Accounts(entries, 0, <<>>, Fresh(entries))
<1>1. ToSet(entries) \subseteq AllIds
  BY ToSetIs
<1>2. (1 - 1) * Limit = 0
  BY DEF FetchAssumption
<1> QED
  BY <1>1, <1>2, FreshAccounts DEF FirstCursor, Fresh

\* What the end of a walk leaves to the next one.
LEMMA WalkEnds ==
    ASSUME FetchAssumption, Types, phase = "fetching",
           NEW read \in Seq(AllIds), NEW how, EndWalk(read, how),
           UNCHANGED <<world, style, job>>,
           changes' \in Nat, failures' \in Nat, changes' + failures' <= MaxEvents
    PROVE  Types' /\ WalkInv'
<1> DEFINE next == Following(Current, read)
           call == Head(next)
<1>1. todo # <<>> /\ todo \in Seq(Calls) /\ Current \in Calls
  BY HeadTailProperties DEF Types, TypeOK, Current
<1>2. next \in Seq(Calls)
  BY <1>1, FollowingTyped
<1>3. todo' = next /\ rows' = <<>> /\ candidate' = 1
  BY DEF EndWalk
<1>4. 1 \in 1 .. Candidates
  BY DEF FetchAssumption
<1>5. got' \in [Lists -> Seq(AllIds)]
  <2>1. Current.list \in Lists => got[Current.list] \o read \in Seq(AllIds)
    BY ConcatProperties DEF Types
  <2>2. got' = IF Current.list \in Lists
               THEN [got EXCEPT ![Current.list] = got[Current.list] \o read] ELSE got
    BY DEF EndWalk
  <2> QED
    BY <2>1, <2>2 DEF Types
<1>6. \A l \in lost' : l \in Lists \cup Objects
  <2>1. Current.list \in Lists \cup Objects
    BY <1>1 DEF Calls
  <2>2. lost' = lost \/ lost' = lost \cup {Current.list}
    BY DEF EndWalk
  <2> QED
    BY <2>1, <2>2 DEF Types, TypeOK
<1>7. /\ phase' \in {"fetching", "answered", "raised"}
      /\ (todo' = <<>>) = (phase' = "answered")
  <2>1. phase' = IF next = <<>> THEN "answered" ELSE phase
    BY DEF EndWalk
  <2> HIDE DEF next
  <2> QED
    BY <1>3, <2>1
<1>8. CASE next = <<>>
  <2>1. cursor' = cursor /\ view' = view /\ walk' = walk
    BY <1>8 DEF EndWalk
  <2>2. Types'
    <3>1. TypeOK'
      BY <1>3, <1>4, <1>6, <1>7, <2>1 DEF Types, TypeOK
    <3> QED
      BY <1>2, <1>3, <1>5, <2>1, <3>1 DEF Types
  <2>3. WalkInv'
    BY <1>3, <1>8 DEF WalkInv
  <2> QED
    BY <2>2, <2>3
<1>9. CASE next # <<>>
  <2>1. /\ cursor' = FirstCursor(call) /\ view' = Entries(call)
        /\ walk' = Fresh(Entries(call))
    BY <1>9 DEF EndWalk
  <2>2. call \in Calls
    BY <1>2, <1>9, HeadTailProperties
  <2>3. Entries(call) \in Seq(AllIds) /\ IsInjective(Entries(call))
    BY <2>2, EntriesTyped
  <2>4. Current' = call
    BY <1>3 DEF Current
  <2> HIDE DEF call, next
  <2>5. /\ cursor' \in Nat
        /\ walk' \in [steady : SUBSET AllIds, joined : Nat, left : Nat]
        /\ Accounts(view', 0, rows', walk')
        /\ (IF call.pager = "get" THEN cursor' ELSE (cursor' - 1) * Limit) = 0
    BY <1>3, <2>1, <2>2, <2>3, FirstRequest
  <2>6. Offset' = 0
    BY <2>4, <2>5 DEF Offset
  <2>7. Types'
    <3>1. TypeOK'
      <4>1. job' \in Jobs /\ IsInjective(view')
        BY <2>1, <2>3 DEF Types, TypeOK
      <4> QED
        BY <1>3, <1>4, <1>6, <1>7, <2>5, <4>1 DEF TypeOK
    <3>2. view' \in Seq(AllIds) /\ todo' \in Seq(Calls) /\ rows' \in Seq(AllIds)
      BY <1>2, <1>3, <2>1, <2>3
    <3>3. /\ world' \in [Lists -> Seq(AllIds)] /\ \A l \in Lists : IsInjective(world'[l])
          /\ style' \in [total : BOOLEAN, more : BOOLEAN]
      BY DEF Types
    <3> QED
      BY <1>5, <2>5, <3>1, <3>2, <3>3 DEF Types
  <2>8. WalkInv'
    BY <2>5, <2>6 DEF WalkInv
  <2> QED
    BY <2>7, <2>8
<1> QED
  BY <1>8, <1>9

\* Every fetch starts with a walk that has read nothing.
LEMMA InitEstablishesInv == FetchAssumption /\ Init => FetchInv
<1> SUFFICES ASSUME FetchAssumption, Init PROVE FetchInv
  OBVIOUS
<1>1. todo \in Seq(Calls) /\ todo # <<>> /\ Current \in Calls
  <2>1. todo \in Seq(Calls) /\ todo # <<>>
    <3>1. todo \in Seq(PlainCalls) /\ todo # <<>>
      BY ProgramTyped DEF Init
    <3> QED
      BY <3>1 DEF PlainCalls
  <2> QED
    BY <2>1, HeadTailProperties DEF Current
<1>2. world \in [Lists -> Seq(AllIds)] /\ \A l \in Lists : IsInjective(world[l])
  <2>1. PICK w : /\ \A l \in Read(job) : w[l] \in Initial(l)
                 /\ world = [l \in Lists |-> IF l \in Read(job) THEN w[l] ELSE <<>>]
    BY DEF Init
  <2>2. ASSUME NEW l \in Lists
        PROVE  world[l] \in Seq(AllIds) /\ IsInjective(world[l])
    <3>1. CASE l \in Read(job)
      <4>1. world[l] = w[l] /\ w[l] \in Initial(l)
        BY <2>1, <3>1
      <4>2. w[l] \in Seq(ToSet(w[l])) /\ IsInjective(w[l])
        BY <4>1 DEF FetchAssumption
      <4>3. ToSet(w[l]) \subseteq AllIds
        BY <4>1 DEF AllIds
      <4> QED
        BY <4>1, <4>2, <4>3
    <3>2. CASE l \notin Read(job)
      <4>1. world[l] = <<>>
        BY <2>1, <3>2
      <4> QED
        BY <4>1 DEF IsInjective
    <3> QED
      BY <3>1, <3>2
  <2> QED
    BY <2>1, <2>2
<1>3. style \in [total : BOOLEAN, more : BOOLEAN] /\ rows = <<>> /\ rows \in Seq(AllIds)
  BY DEF Init
<1>4. got \in [Lists -> Seq(AllIds)]
  BY DEF Init
<1>5. Entries(Current) \in Seq(AllIds) /\ IsInjective(Entries(Current))
  BY <1>1, <1>2, EntriesOfWorld
<1>6. /\ view = Entries(Current) /\ walk = Fresh(Entries(Current))
      /\ cursor = FirstCursor(Current)
  BY DEF Init, Current
<1>7. /\ cursor \in Nat /\ walk \in [steady : SUBSET AllIds, joined : Nat, left : Nat]
      /\ Accounts(view, 0, rows, walk) /\ Offset = 0
  BY <1>1, <1>3, <1>5, <1>6, FirstRequest DEF Offset
<1>8. TypeOK
  <2>1. /\ job \in Jobs /\ phase = "fetching" /\ candidate = 1 /\ lost = {}
        /\ changes = 0 /\ failures = 0
    BY DEF Init
  <2> QED
    BY <1>1, <1>5, <1>6, <1>7, <2>1 DEF TypeOK, FetchAssumption
<1>9. Types
  BY <1>1, <1>2, <1>3, <1>4, <1>5, <1>6, <1>7, <1>8 DEF Types
<1>10. WalkInv
  BY <1>7 DEF WalkInv
<1>11. WalkAccounts
  BY DEF Init, WalkAccounts
<1> QED
  BY <1>9, <1>10, <1>11 DEF FetchInv

\* The walk that ended last stays what it was.
LEMMA SameAccounts ==
    ASSUME WalkAccounts, last' = last, style' = style
    PROVE  WalkAccounts'
BY DEF WalkAccounts, Complete

\* A page goes on behind what was read, or ends the walk at the list's end.
LEMMA PageStep == FetchAssumption /\ FetchInv /\ Page => FetchInv'
<1> SUFFICES ASSUME FetchAssumption, FetchInv, Page PROVE FetchInv'
  OBVIOUS
<1>1. /\ Types /\ WalkAccounts /\ phase = "fetching" /\ Current.pager \in Paged
      /\ todo # <<>> /\ todo \in Seq(Calls) /\ Current \in Calls
      /\ UNCHANGED <<world, style, job, seen, changes, failures>>
  BY HeadTailProperties DEF FetchInv, Types, TypeOK, Page, Fetching, Current
<1>2. Accounts(view, Offset, rows, walk) /\ (OnePage => Offset = 0)
  BY <1>1 DEF FetchInv, WalkInv
<1>3. /\ Items \in Seq(AllIds) /\ rows \o Items \in Seq(AllIds)
      /\ Offset \in Nat /\ Len(Items) \in Nat /\ Len(rows) = Offset
      /\ Accounts(view, Offset + Len(Items), rows \o Items, walk)
  BY <1>1, <1>2, PageRead
<1>4. CASE ~Ends
  <2>1. /\ rows' = rows \o Items /\ cursor' = NextCursor
        /\ candidate' = IF Current.pager = "vlans" THEN 1 ELSE candidate
        /\ UNCHANGED <<todo, view, got, phase, walk, last, lost>>
    BY <1>4 DEF Page
  <2>2. ~OnePage /\ cursor' \in Nat
    BY <1>1, <1>2, <1>4, <2>1, NextOffset
  <2>3. Offset' = Offset + Len(Items)
    <3>1. Current' = Current
      BY <2>1 DEF Current
    <3>2. Offset' = IF Current.pager = "get" THEN NextCursor ELSE (NextCursor - 1) * Limit
      BY <2>1, <3>1 DEF Offset
    <3> QED
      BY <1>1, <1>2, <1>4, <3>2, NextOffset
  <2>4. ~OnePage'
    BY <1>1, <2>1, <2>2 DEF OnePage, Current
  <2>5. WalkInv'
    BY <1>3, <2>1, <2>3, <2>4 DEF WalkInv
  <2>6. TypeOK'
    <3>1. candidate' \in 1 .. Candidates
      BY <1>1, <2>1 DEF Types, TypeOK, FetchAssumption
    <3> QED
      BY <1>1, <2>1, <2>2, <3>1 DEF Types, TypeOK
  <2>7. Types'
    BY <1>1, <1>3, <2>1, <2>6 DEF Types
  <2>8. WalkAccounts'
    BY <1>1, <2>1, SameAccounts
  <2> QED
    BY <2>5, <2>7, <2>8 DEF FetchInv
<1>5. CASE Ends
  <2> DEFINE read == rows \o Items
             size == Cardinality(walk.steady) + walk.joined + walk.left
  <2>1. EndWalk(read, "ran")
    BY <1>5 DEF Page
  <2>2. changes' \in Nat /\ failures' \in Nat /\ changes' + failures' <= MaxEvents
    BY <1>1 DEF Types, TypeOK
  <2>3. Types' /\ WalkInv'
    <3> HIDE DEF read
    <3>1. read \in Seq(AllIds)
      BY <1>3 DEF read
    <3> QED
      BY <1>1, <2>1, <2>2, <3>1, WalkEnds
  <2>4. last' = [walk |-> walk, call |-> Current, read |-> read, how |-> "ran"]
    BY <2>1 DEF EndWalk
  <2>5. size \in Nat /\ size >= Len(view)
    <3>1. /\ view \in Seq(AllIds) /\ Len(view) \in Nat
          /\ walk \in [steady : SUBSET AllIds, joined : Nat, left : Nat]
      BY <1>1, LenProperties DEF Types
    <3>2. walk.steady \subseteq ToSet(view) /\ Len(view) <= Cardinality(walk.steady) + walk.joined
      BY <1>2 DEF Accounts
    <3>3. Cardinality(walk.steady) \in Nat
      BY <3>1, <3>2, ToSetIs, FS_Subset, FS_CardinalityType
    <3>4. walk.joined \in Nat /\ walk.left \in Nat
      BY <3>1
    <3> QED
      BY <3>1, <3>2, <3>3, <3>4
  <2>6. /\ Len(read) - Cardinality(ToSet(read)) <= walk.joined
        /\ Offset + Len(Items) >= Len(view) => Cardinality(walk.steady \ ToSet(read)) <= walk.left
    <3>1. /\ view \in Seq(AllIds) /\ Offset + Len(Items) \in Nat
          /\ walk \in [steady : SUBSET AllIds, joined : Nat, left : Nat]
      BY <1>1, <1>3 DEF Types
    <3> QED
      BY <1>3, <3>1, EndAccounts
  <2>7. Complete(Current, size) => Offset + Len(Items) >= Len(view)
    <3> HIDE DEF size
    <3> QED
      BY <1>1, <1>2, <1>5, <2>5, EndsAtEnd
  <2>8. /\ last'.walk = walk /\ last'.call = Current /\ last'.read = read
    BY <2>4
  <2> HIDE DEF read
  <2>9. WalkAccounts'
    BY <1>1, <2>6, <2>7, <2>8 DEF WalkAccounts, Complete
  <2> QED
    BY <2>3, <2>9 DEF FetchInv
<1> QED
  BY <1>4, <1>5

\* A single object is no list.
LEMMA ObjectStep == FetchAssumption /\ FetchInv /\ Object => FetchInv'
<1> SUFFICES ASSUME FetchAssumption, FetchInv, Object PROVE FetchInv'
  OBVIOUS
<1>1. /\ Types /\ phase = "fetching" /\ Current.pager = "one" /\ Current \in Calls
      /\ EndWalk(<<>>, "ran") /\ UNCHANGED <<world, style, job, changes, failures>>
  BY HeadTailProperties DEF FetchInv, Types, TypeOK, Object, Fetching, Current
<1>2. changes' \in Nat /\ failures' \in Nat /\ changes' + failures' <= MaxEvents
  BY <1>1 DEF Types, TypeOK
<1>3. Types' /\ WalkInv'
  BY <1>1, <1>2, EmptySeq, WalkEnds
<1>4. last'.call = Current
  BY <1>1 DEF EndWalk
<1>5. Current.list \notin Lists
  BY <1>1 DEF Calls, Lists, Objects
<1>6. WalkAccounts'
  BY <1>4, <1>5 DEF WalkAccounts
<1> QED
  BY <1>3, <1>6 DEF FetchInv

\* Where the walk of the switches starts over nothing is read yet.
LEMMA RetryStep == FetchAssumption /\ FetchInv /\ Retry => FetchInv'
<1> SUFFICES ASSUME FetchAssumption, FetchInv, Retry PROVE FetchInv'
  OBVIOUS
<1>1. /\ Types /\ WalkInv /\ WalkAccounts /\ todo # <<>> /\ Current \in Calls
      /\ candidate' = candidate + 1 /\ candidate < Candidates
      /\ changes + failures < MaxEvents /\ failures' = failures + 1
      /\ UNCHANGED <<world, view, style, job, todo, got, seen, phase, last, lost, changes>>
  BY HeadTailProperties DEF FetchInv, Types, TypeOK, Retry, Failing, Current
<1>2. /\ Current' = Current /\ OnePage' = OnePage
  BY <1>1 DEF OnePage, Current
<1>3. /\ rows' \in Seq(AllIds) /\ cursor' \in Nat
      /\ walk' \in [steady : SUBSET AllIds, joined : Nat, left : Nat]
      /\ Accounts(view', Offset', rows', walk')
      /\ OnePage' => Offset' = 0
  <2>1. CASE Current.pager = "switch"
    <3>1. rows' = <<>> /\ cursor' = 1 /\ walk' = Fresh(view)
      BY <2>1 DEF Retry
    <3>2. FirstCursor(Current) = 1
      BY <2>1 DEF FirstCursor
    <3>3. view \in Seq(AllIds) /\ IsInjective(view)
      BY <1>1 DEF Types, TypeOK
    <3>4. /\ Fresh(view) \in [steady : SUBSET AllIds, joined : Nat, left : Nat]
          /\ Accounts(view, 0, <<>>, Fresh(view)) /\ (1 - 1) * Limit = 0
      BY <1>1, <2>1, <3>2, <3>3, FirstRequest
    <3>5. Offset' = 0
      BY <1>2, <2>1, <3>1, <3>4 DEF Offset
    <3> QED
      BY <1>1, <3>1, <3>4, <3>5
  <2>2. CASE Current.pager # "switch"
    <3>1. UNCHANGED <<rows, cursor, walk>>
      BY <2>2 DEF Retry
    <3>2. Offset' = Offset
      BY <1>2, <3>1 DEF Offset
    <3> QED
      BY <1>1, <1>2, <3>1, <3>2 DEF Types, TypeOK, WalkInv
  <2> QED
    BY <2>1, <2>2
<1>4. TypeOK'
  <2>1. /\ candidate' \in 1 .. Candidates
        /\ changes' \in Nat /\ failures' \in Nat /\ changes' + failures' <= MaxEvents
    <3>1. Candidates \in Nat /\ MaxEvents \in Nat
      BY DEF FetchAssumption
    <3>2. candidate \in 1 .. Candidates /\ changes \in Nat /\ failures \in Nat
      BY <1>1 DEF Types, TypeOK
    <3> QED
      BY <1>1, <3>1, <3>2
  <2> QED
    BY <1>1, <1>3, <2>1 DEF Types, TypeOK
<1>5. Types'
  BY <1>1, <1>3, <1>4 DEF Types
<1>6. WalkInv'
  BY <1>3 DEF WalkInv
<1>7. WalkAccounts'
  BY <1>1, SameAccounts
<1> QED
  BY <1>5, <1>6, <1>7 DEF FetchInv

\* A failure ends the walk where it is, throws it away, or fails the fetch.
LEMMA FailStep == FetchAssumption /\ FetchInv /\ Fail => FetchInv'
<1> SUFFICES ASSUME FetchAssumption, FetchInv, Fail PROVE FetchInv'
  OBVIOUS
<1>1. /\ Types /\ WalkInv /\ WalkAccounts /\ phase = "fetching"
      /\ todo # <<>> /\ Current \in Calls
      /\ changes + failures < MaxEvents /\ failures' = failures + 1
      /\ UNCHANGED <<world, style, job, changes>>
  BY HeadTailProperties DEF FetchInv, Types, TypeOK, Fail, Failing, Current
<1>2. changes' \in Nat /\ failures' \in Nat /\ changes' + failures' <= MaxEvents
  <2>1. MaxEvents \in Nat /\ changes \in Nat /\ failures \in Nat
    BY <1>1 DEF Types, TypeOK, FetchAssumption
  <2> QED
    BY <1>1, <2>1
<1>3. Accounts(view, Offset, rows, walk)
  BY <1>1 DEF WalkInv
<1>4. CASE Current.onError = "keep"
  <2>1. EndWalk(rows, "cut")
    BY <1>4 DEF Fail
  <2>2. rows \in Seq(AllIds)
    BY <1>1 DEF Types
  <2>3. Types' /\ WalkInv'
    BY <1>1, <1>2, <2>1, <2>2, WalkEnds
  <2>4. last'.walk = walk /\ last'.read = rows /\ last'.how = "cut"
    BY <2>1 DEF EndWalk
  <2>5. Len(rows) - Cardinality(ToSet(rows)) <= walk.joined
    <3>1. /\ view \in Seq(AllIds) /\ Offset \in Nat
          /\ walk \in [steady : SUBSET AllIds, joined : Nat, left : Nat]
      BY <1>1, <1>3, <2>2, LenProperties DEF Types, Accounts
    <3> QED
      BY <1>3, <2>2, <3>1, EndAccounts
  <2>6. WalkAccounts'
    BY <2>4, <2>5 DEF WalkAccounts
  <2> QED
    BY <2>3, <2>6 DEF FetchInv
<1>5. CASE Current.onError = "drop"
  <2>1. EndWalk(<<>>, "dropped")
    BY <1>5 DEF Fail
  <2>2. Types' /\ WalkInv'
    BY <1>1, <1>2, <2>1, EmptySeq, WalkEnds
  <2>3. last'.how = "dropped"
    BY <2>1 DEF EndWalk
  <2>4. WalkAccounts'
    BY <2>3 DEF WalkAccounts
  <2> QED
    BY <2>2, <2>4 DEF FetchInv
<1>6. CASE Current.onError = "raise"
  <2>1. /\ phase' = "raised"
        /\ UNCHANGED <<todo, cursor, candidate, rows, view, got, seen, walk, last, lost>>
    BY <1>6 DEF Fail
  <2>2. Types'
    BY <1>1, <1>2, <2>1 DEF Types, TypeOK
  <2>3. WalkInv'
    BY <1>1, <2>1 DEF WalkInv, OnePage, Offset, Current
  <2>4. WalkAccounts'
    BY <1>1, <2>1, SameAccounts
  <2> QED
    BY <2>2, <2>3, <2>4 DEF FetchInv
<1>7. Current.onError \in {"keep", "drop", "raise"}
  BY <1>1 DEF Calls
<1> QED
  BY <1>4, <1>5, <1>6, <1>7

\* What holds of a walk whose list changes under it.
LEMMA ListChanges ==
    ASSUME FetchAssumption, FetchInv, Changing, UNCHANGED job,
           view' \in Seq(AllIds), IsInjective(view'),
           walk' \in [steady : SUBSET AllIds, joined : Nat, left : Nat],
           Accounts(view', Offset, rows, walk')
    PROVE  FetchInv'
<1>1. /\ Types /\ WalkInv /\ WalkAccounts /\ todo # <<>>
      /\ changes + failures < MaxEvents /\ changes' = changes + 1
      /\ UNCHANGED <<world, style, job, todo, cursor, candidate, rows, got, seen, phase, last,
                     lost, failures>>
  BY DEF FetchInv, Types, TypeOK, Changing
<1>2. Offset' = Offset /\ OnePage' = OnePage
  BY <1>1 DEF Offset, OnePage, Current
<1>3. changes' \in Nat /\ failures' \in Nat /\ changes' + failures' <= MaxEvents
  <2>1. MaxEvents \in Nat /\ changes \in Nat /\ failures \in Nat
    BY <1>1 DEF Types, TypeOK, FetchAssumption
  <2> QED
    BY <1>1, <2>1
<1>4. Types'
  BY <1>1, <1>3 DEF Types, TypeOK
<1>5. WalkInv'
  BY <1>1, <1>2 DEF WalkInv
<1>6. WalkAccounts'
  BY <1>1, SameAccounts
<1> QED
  BY <1>4, <1>5, <1>6 DEF FetchInv

\* The history of a walk when an entry joins or leaves.
LEMMA CountedTyped ==
    ASSUME NEW w \in [steady : SUBSET AllIds, joined : Nat, left : Nat], NEW e
    PROVE  /\ [w EXCEPT !.joined = @ + 1] \in [steady : SUBSET AllIds, joined : Nat, left : Nat]
           /\ [w EXCEPT !.left = @ + 1, !.steady = @ \ {e}]
                  \in [steady : SUBSET AllIds, joined : Nat, left : Nat]
<1>1. w.joined + 1 \in Nat /\ w.left + 1 \in Nat /\ w.steady \ {e} \in SUBSET AllIds
  OBVIOUS
<1> QED
  BY <1>1

\* An entry that joins is counted.
LEMMA JoinStep == FetchAssumption /\ FetchInv /\ Join => FetchInv'
<1> SUFFICES ASSUME FetchAssumption, FetchInv, Join PROVE FetchInv'
  OBVIOUS
<1>1. /\ Types /\ todo # <<>> /\ Accounts(view, Offset, rows, walk)
      /\ Changing /\ Current.list \in Lists /\ job' = job
      /\ walk' = [walk EXCEPT !.joined = @ + 1]
  BY DEF FetchInv, WalkInv, Types, TypeOK, Join, Changing
<1>2. /\ view \in Seq(AllIds) /\ IsInjective(view) /\ rows \in Seq(AllIds)
      /\ walk \in [steady : SUBSET AllIds, joined : Nat, left : Nat]
  BY <1>1 DEF Types, TypeOK
<1>3. Offset \in Nat
  BY <1>1, <1>2, LenProperties DEF Accounts
<1>4. PICK i \in Ids(Current.list) \ ToSet(view) :
      \E at \in 1 .. Len(view) + 1 : view' = InsertAt(view, at, i)
  BY DEF Join
<1>5. PICK at \in 1 .. Len(view) + 1 : view' = InsertAt(view, at, i)
  BY <1>4
<1>6. i \in AllIds \ ToSet(view)
  <2>1. i \notin ToSet(view)
    OBVIOUS
  <2>2. PICK s \in Initial(Current.list) : i \in ToSet(s)
    BY DEF Ids
  <2>3. i \in AllIds
    BY <1>1, <2>2 DEF AllIds
  <2> QED
    BY <2>1, <2>3
<1>7. /\ view' \in Seq(AllIds) /\ IsInjective(view')
      /\ Accounts(view', Offset, rows, walk')
  <2> DEFINE u == InsertAt(view, at, i)
             x == [walk EXCEPT !.joined = @ + 1]
  <2>1. u \in Seq(AllIds) /\ IsInjective(u) /\ Accounts(u, Offset, rows, x)
    BY <1>1, <1>2, <1>3, <1>6, JoinAccounts
  <2>2. view' = u /\ walk' = x
    BY <1>1, <1>5
  <2> HIDE DEF u, x
  <2> QED
    BY <2>1, <2>2
<1>8. walk' \in [steady : SUBSET AllIds, joined : Nat, left : Nat]
  BY <1>1, <1>2, CountedTyped
<1> QED
  BY <1>1, <1>7, <1>8, ListChanges

\* An entry that leaves is counted, and was not there all along.
LEMMA LeaveStep == FetchAssumption /\ FetchInv /\ Leave => FetchInv'
<1> SUFFICES ASSUME FetchAssumption, FetchInv, Leave PROVE FetchInv'
  OBVIOUS
<1>1. /\ Types /\ todo # <<>> /\ Accounts(view, Offset, rows, walk)
      /\ Changing /\ job' = job
  BY DEF FetchInv, WalkInv, Types, TypeOK, Leave, Changing
<1>2. /\ view \in Seq(AllIds) /\ IsInjective(view) /\ rows \in Seq(AllIds)
      /\ walk \in [steady : SUBSET AllIds, joined : Nat, left : Nat]
      /\ DOMAIN view = 1 .. Len(view)
  BY <1>1, LenProperties DEF Types, TypeOK
<1>3. Offset \in Nat
  BY <1>1, <1>2, LenProperties DEF Accounts
<1>4. PICK at \in DOMAIN view :
          /\ view' = RemoveAt(view, at)
          /\ walk' = [walk EXCEPT !.left = @ + 1, !.steady = @ \ {view[at]}]
  BY DEF Leave
<1>5. at \in 1 .. Len(view)
  BY <1>2
<1>6. /\ view' \in Seq(AllIds) /\ IsInjective(view')
      /\ Accounts(view', Offset, rows, walk')
  <2> DEFINE u == RemoveAt(view, at)
             x == [walk EXCEPT !.left = @ + 1, !.steady = @ \ {view[at]}]
  <2>1. u \in Seq(AllIds) /\ IsInjective(u) /\ Accounts(u, Offset, rows, x)
    BY <1>1, <1>2, <1>3, <1>5, LeaveAccounts
  <2>2. view' = u /\ walk' = x
    BY <1>4
  <2> HIDE DEF u, x
  <2> QED
    BY <2>1, <2>2
<1>7. walk' \in [steady : SUBSET AllIds, joined : Nat, left : Nat]
  BY <1>2, <1>4, CountedTyped
<1> QED
  BY <1>1, <1>6, <1>7, ListChanges

\* No step of a fetch breaks the invariant.
LEMMA NextPreservesInv == FetchAssumption /\ FetchInv /\ [Next]_vars => FetchInv'
<1> SUFFICES ASSUME FetchAssumption, FetchInv, [Next]_vars PROVE FetchInv'
  OBVIOUS
<1>1. CASE UNCHANGED vars
  <2>1. Types /\ WalkInv /\ WalkAccounts
    BY DEF FetchInv
  <2>2. /\ UNCHANGED <<world, view, style, job, todo, cursor, candidate, rows, got, phase>>
        /\ UNCHANGED <<walk, last, lost, changes, failures>>
    BY <1>1 DEF vars
  <2>3. Types'
    BY <2>1, <2>2 DEF Types, TypeOK
  <2>4. WalkInv'
    BY <2>1, <2>2 DEF WalkInv, OnePage, Offset, Current
  <2>5. WalkAccounts'
    BY <2>1, <2>2, SameAccounts
  <2> QED
    BY <2>3, <2>4, <2>5 DEF FetchInv
<1>2. CASE Done
  BY <1>1, <1>2 DEF Done
<1> QED
  BY <1>1, <1>2, PageStep, ObjectStep, RetryStep, FailStep, JoinStep, LeaveStep
     DEF Next, Request

-----------------------------------------------------------------------------
(* While the controller does not change.                                   *)

\* What a walk has read is the beginning of its list.
Prefix == todo # <<>> /\ changes = 0 =>
    /\ view = Entries(Current)
    /\ Len(rows) <= Len(view)
    /\ rows = SubSeq(view, 1, Len(rows))

QuietInv == Prefix /\ QuietWalk

\* The beginnings of a sequence.
LEMMA PrefixOf ==
    ASSUME NEW S, NEW v \in Seq(S), NEW o \in 0 .. Len(v), NEW e \in o .. Len(v)
    PROVE  /\ SubSeq(v, 1, o) \o SubSeq(v, o + 1, e) = SubSeq(v, 1, e)
           /\ Len(SubSeq(v, 1, e)) = e
           /\ SubSeq(v, 1, Len(v)) = v
           /\ SubSeq(v, 1, 0) = <<>>
<1> DEFINE a == SubSeq(v, 1, o)
           b == SubSeq(v, o + 1, e)
           c == SubSeq(v, 1, e)
           d == SubSeq(v, 1, Len(v))
<1>0. /\ Len(v) \in Nat /\ \A j \in 1 .. Len(v) : v[j] \in S
      /\ o \in Nat /\ e \in Nat /\ o <= e /\ e <= Len(v)
  BY LenProperties, ElementOfSeq
<1>1. a \in Seq(S) /\ Len(a) = o /\ \A j \in 1 .. o : a[j] = v[j]
  <2>1. 1 \in Int /\ o \in Int /\ \A j \in 1 .. o : v[j] \in S
    BY <1>0
  <2>2. /\ a \in Seq(S) /\ Len(a) = IF 1 <= o THEN o - 1 + 1 ELSE 0
        /\ \A j \in 1 .. o - 1 + 1 : a[j] = v[1 + j - 1]
    BY <2>1, SubSeqProperties
  <2> HIDE DEF a
  <2> QED
    BY <1>0, <2>2
<1>2. b \in Seq(S) /\ Len(b) = e - o /\ \A j \in 1 .. e - o : b[j] = v[o + j]
  <2>1. o + 1 \in Int /\ e \in Int /\ \A j \in o + 1 .. e : v[j] \in S
    BY <1>0
  <2>2. /\ b \in Seq(S) /\ Len(b) = IF o + 1 <= e THEN e - (o + 1) + 1 ELSE 0
        /\ \A j \in 1 .. e - (o + 1) + 1 : b[j] = v[o + 1 + j - 1]
    BY <2>1, SubSeqProperties
  <2> HIDE DEF b
  <2>3. Len(b) = e - o
    BY <1>0, <2>2
  <2>4. \A j \in 1 .. e - o : j \in 1 .. e - (o + 1) + 1 /\ o + 1 + j - 1 = o + j
    BY <1>0
  <2> QED
    BY <2>2, <2>3, <2>4
<1>3. c \in Seq(S) /\ Len(c) = e /\ \A j \in 1 .. e : c[j] = v[j]
  <2>1. 1 \in Int /\ e \in Int /\ \A j \in 1 .. e : v[j] \in S
    BY <1>0
  <2>2. /\ c \in Seq(S) /\ Len(c) = IF 1 <= e THEN e - 1 + 1 ELSE 0
        /\ \A j \in 1 .. e - 1 + 1 : c[j] = v[1 + j - 1]
    BY <2>1, SubSeqProperties
  <2> HIDE DEF c
  <2> QED
    BY <1>0, <2>2
<1>4. d \in Seq(S) /\ Len(d) = Len(v) /\ \A j \in 1 .. Len(v) : d[j] = v[j]
  <2>1. 1 \in Int /\ Len(v) \in Int
    BY <1>0
  <2>2. /\ d \in Seq(S) /\ Len(d) = IF 1 <= Len(v) THEN Len(v) - 1 + 1 ELSE 0
        /\ \A j \in 1 .. Len(v) - 1 + 1 : d[j] = v[1 + j - 1]
    BY <1>0, <2>1, SubSeqProperties
  <2> HIDE DEF d
  <2> QED
    BY <1>0, <2>2
<1>5. SubSeq(v, 1, 0) = <<>>
  BY SubSeqEmpty
<1> HIDE DEF a, b, c, d
<1>6. d = v
  BY <1>4, SeqEqual
<1>7. a \o b = c
  <2>1. /\ a \o b \in Seq(S) /\ Len(a \o b) = Len(a) + Len(b)
        /\ \A j \in 1 .. Len(a) + Len(b) :
              (a \o b)[j] = IF j <= Len(a) THEN a[j] ELSE b[j - Len(a)]
    BY <1>1, <1>2, ConcatProperties
  <2>2. Len(a) + Len(b) = e
    BY <1>0, <1>1, <1>2
  <2>3. ASSUME NEW j \in 1 .. e PROVE (a \o b)[j] = c[j]
    <3>1. CASE j <= o
      BY <1>1, <1>3, <2>1, <2>2, <3>1
    <3>2. CASE ~(j <= o)
      <4>1. j - o \in 1 .. e - o /\ o + (j - o) = j
        BY <1>0, <3>2
      <4> QED
        BY <1>1, <1>2, <1>3, <2>1, <2>2, <3>2, <4>1
    <3> QED
      BY <3>1, <3>2
  <2> QED
    BY <1>3, <2>1, <2>2, <2>3, SeqEqual
<1> QED
  BY <1>3, <1>5, <1>6, <1>7 DEF a, b, c, d

\* With a page read the walk has a longer beginning of its list.
LEMMA PrefixPage ==
    ASSUME FetchAssumption, FetchInv, Prefix, todo # <<>>, changes = 0
    PROVE  /\ view = Entries(Current)
           /\ Len(rows \o Items) <= Len(view)
           /\ rows \o Items = SubSeq(view, 1, Len(rows \o Items))
           /\ Len(rows \o Items) = Offset + Len(Items)
<1> DEFINE o == Offset
           n == Len(view)
           e == IF o + Limit < n THEN o + Limit ELSE n
<1>1. /\ view = Entries(Current) /\ Len(rows) <= n /\ rows = SubSeq(view, 1, Len(rows))
      /\ view \in Seq(AllIds) /\ rows \in Seq(AllIds) /\ n \in Nat
      /\ Limit \in Nat \ {0} /\ Len(rows) \in Nat
      /\ Accounts(view, o, rows, walk)
  BY LenProperties DEF Prefix, FetchInv, Types, WalkInv, FetchAssumption
<1>2. o = Len(rows)
  BY <1>1 DEF Accounts
<1>3. Items = SubSeq(view, o + 1, e)
  BY DEF Items
<1> HIDE DEF o
<1>4. o \in 0 .. n /\ e \in o .. n
  BY <1>1, <1>2
<1> HIDE DEF e
<1>5. rows \o Items = SubSeq(view, 1, e) /\ Len(SubSeq(view, 1, e)) = e
  <2>1. view \in Seq(AllIds) /\ o \in 0 .. Len(view) /\ e \in o .. Len(view)
    BY <1>1, <1>4
  <2>2. /\ SubSeq(view, 1, o) \o SubSeq(view, o + 1, e) = SubSeq(view, 1, e)
        /\ Len(SubSeq(view, 1, e)) = e
    BY <2>1, PrefixOf
  <2>3. rows = SubSeq(view, 1, o)
    BY <1>1, <1>2
  <2> QED
    BY <1>3, <2>2, <2>3
<1>6. Len(rows \o Items) = e /\ e <= n
  BY <1>1, <1>4, <1>5
<1>7. Len(rows \o Items) = o + Len(Items)
  <2>1. Items \in Seq(AllIds)
    BY <1>1, PageRead DEF FetchInv, o
  <2> QED
    BY <1>1, <1>2, <2>1, ConcatProperties
<1> QED
  BY <1>1, <1>5, <1>6, <1>7 DEF o

\* The page that ends an undisturbed walk brings the rest of the list.
LEMMA QuietPage ==
    ASSUME FetchAssumption, FetchInv, Prefix, todo # <<>>, Current.pager \in Paged, Ends,
           changes = 0, Complete(Current, Len(Entries(Current)))
    PROVE  rows \o Items = Entries(Current)
<1> DEFINE read == rows \o Items
<1>1. Types /\ Accounts(view, Offset, rows, walk) /\ (OnePage => Offset = 0)
  BY DEF FetchInv, WalkInv
<1>2. read \in Seq(AllIds)
  BY <1>1, PageRead
<1>3. /\ view = Entries(Current) /\ Len(read) <= Len(view)
      /\ read = SubSeq(view, 1, Len(read)) /\ Len(read) = Offset + Len(Items)
  BY PrefixPage
<1> HIDE DEF read
<1>4. view \in Seq(AllIds) /\ Len(view) \in Nat /\ Len(read) \in Nat
  BY <1>1, <1>2, LenProperties DEF Types
<1>5. Offset + Len(Items) >= Len(view)
  <2>1. Complete(Current, Len(view))
    BY <1>3
  <2> QED
    BY <1>1, <1>4, <2>1, EndsAtEnd
<1>6. Len(read) = Len(view)
  BY <1>3, <1>4, <1>5
<1>7. SubSeq(view, 1, Len(view)) = view
  BY <1>4, PrefixOf
<1> QED
  BY <1>3, <1>6, <1>7 DEF read

\* As long as nothing has changed, what a walk left behind stays what it was.
LEMMA SameQuiet ==
    ASSUME QuietWalk, last' = last, style' = style, world' = world, changes' = changes
    PROVE  QuietWalk'
BY DEF QuietWalk, Complete, Entries

\* A walk that begins has read nothing of its list.
LEMMA PrefixBegins ==
    ASSUME FetchAssumption, FetchInv, todo # <<>>, NEW read \in Seq(AllIds), NEW how,
           EndWalk(read, how), world' = world
    PROVE  Prefix'
<1>1. /\ todo' = Following(Current, read) /\ rows' = <<>>
      /\ Following(Current, read) # <<>> => view' = Entries(Head(todo'))
  BY DEF EndWalk
<1>2. Types /\ Following(Current, read) \in Seq(Calls)
  BY FollowingTyped DEF FetchInv
<1>3. ASSUME todo' # <<>> PROVE view' = Entries(Current)'
  <2>1. view' = Entries(Head(todo'))
    BY <1>1, <1>3
  <2> QED
    BY <2>1 DEF Entries, Current
<1>4. ASSUME todo' # <<>>
      PROVE  Len(rows') <= Len(view') /\ rows' = SubSeq(view', 1, Len(rows'))
  <2>1. view' \in Seq(AllIds)
    <3>1. Head(todo') \in Calls /\ view' = Entries(Head(todo'))
      BY <1>1, <1>2, <1>4, HeadTailProperties
    <3> QED
      BY <1>2, <3>1, EntriesTyped
  <2>2. Len(view') \in Nat /\ Len(rows') = 0
    BY <1>1, <2>1, LenProperties
  <2>3. SubSeq(view', 1, 0) = <<>>
    BY SubSeqEmpty
  <2> QED
    BY <1>1, <2>2, <2>3
<1> QED
  BY <1>3, <1>4 DEF Prefix

\* No step of a fetch mixes up what a walk reads while nothing changes.
LEMMA QuietStep == FetchAssumption /\ FetchInv /\ QuietInv /\ [Next]_vars => QuietInv'
<1> SUFFICES ASSUME FetchAssumption, FetchInv, Prefix, QuietWalk, [Next]_vars PROVE QuietInv'
  BY DEF QuietInv
<1>1. Types /\ changes \in Nat
  BY DEF FetchInv, Types, TypeOK
<1>2. ASSUME Fetching(Paged \cup {"one"}) \/ Failing PROVE todo # <<>> /\ Current \in Calls
  BY <1>1, <1>2, HeadTailProperties DEF Fetching, Failing, Types, TypeOK, Current
<1>3. CASE Page
  <2>1. /\ todo # <<>> /\ Current.pager \in Paged
        /\ UNCHANGED <<world, style, job, changes>>
    BY <1>1, <1>3 DEF Page, Fetching, Types, TypeOK
  <2>2. Accounts(view, Offset, rows, walk) /\ (OnePage => Offset = 0)
    BY <2>1 DEF FetchInv, WalkInv
  <2>3. rows \o Items \in Seq(AllIds)
    BY <1>1, <2>2, PageRead
  <2>4. CASE ~Ends
    <3>1. rows' = rows \o Items /\ UNCHANGED <<todo, view, last>>
      BY <1>3, <2>4 DEF Page
    <3>2. QuietWalk'
      BY <2>1, <3>1, SameQuiet
    <3>3. Prefix'
      <4>1. Entries(Current)' = Entries(Current)
        BY <2>1, <3>1 DEF Entries, Current
      <4>2. changes = 0 => /\ view = Entries(Current)
                           /\ Len(rows \o Items) <= Len(view)
                           /\ rows \o Items = SubSeq(view, 1, Len(rows \o Items))
        BY <2>1, PrefixPage
      <4> QED
        BY <2>1, <3>1, <4>1, <4>2 DEF Prefix
    <3> QED
      BY <3>2, <3>3 DEF QuietInv
  <2>5. CASE Ends
    <3> DEFINE read == rows \o Items
    <3>1. EndWalk(read, "ran")
      BY <1>3, <2>5 DEF Page
    <3>2. last'.call = Current /\ last'.read = read
      BY <3>1 DEF EndWalk
    <3> HIDE DEF read
    <3>3. Prefix'
      BY <2>1, <2>3, <3>1, PrefixBegins DEF read
    <3>4. changes = 0 /\ Complete(Current, Len(Entries(Current))) => read = Entries(Current)
      BY <2>1, <2>5, QuietPage DEF read
    <3>5. QuietWalk'
      BY <2>1, <3>2, <3>4 DEF QuietWalk, Complete, Entries
    <3> QED
      BY <3>3, <3>5 DEF QuietInv
  <2> QED
    BY <2>4, <2>5
<1>4. CASE Object
  <2>1. /\ todo # <<>> /\ EndWalk(<<>>, "ran") /\ world' = world
        /\ Current \in Calls /\ Current.pager = "one"
    BY <1>2, <1>4 DEF Object, Fetching
  <2>2. last'.call = Current /\ Current.list \notin Lists
    BY <2>1 DEF EndWalk, Calls, Lists, Objects
  <2>3. Prefix'
    BY <2>1, EmptySeq, PrefixBegins
  <2>4. QuietWalk'
    BY <2>2 DEF QuietWalk
  <2> QED
    BY <2>3, <2>4 DEF QuietInv
<1>5. CASE Retry
  <2>1. /\ todo # <<>> /\ UNCHANGED <<world, view, style, job, todo, last, changes>>
        /\ rows' = <<>> \/ rows' = rows
    BY <1>2, <1>5 DEF Retry
  <2>2. QuietWalk'
    BY <2>1, SameQuiet
  <2>3. Entries(Current)' = Entries(Current)
    BY <2>1 DEF Entries, Current
  <2>4. CASE rows' = rows
    BY <2>1, <2>3, <2>4, <2>2 DEF Prefix, QuietInv
  <2>5. CASE rows' = <<>>
    <3>1. Len(view) \in Nat /\ Len(<<>>) = 0 /\ SubSeq(view, 1, 0) = <<>>
      BY <1>1, LenProperties, SubSeqEmpty DEF Types
    <3>2. Prefix'
      BY <2>1, <2>3, <2>5, <3>1 DEF Prefix
    <3> QED
      BY <2>2, <3>2 DEF QuietInv
  <2> QED
    BY <2>1, <2>4, <2>5
<1>6. CASE Fail
  <2>1. /\ todo # <<>> /\ Current \in Calls /\ UNCHANGED <<world, style, job, changes>>
    BY <1>2, <1>6 DEF Fail
  <2>2. ASSUME NEW read \in Seq(AllIds), NEW how, how # "ran", EndWalk(read, how)
        PROVE  QuietInv'
    <3>1. last'.how # "ran"
      BY <2>2 DEF EndWalk
    <3>2. Prefix'
      BY <2>1, <2>2, PrefixBegins
    <3> QED
      BY <3>1, <3>2 DEF QuietInv, QuietWalk
  <2>3. CASE Current.onError = "keep"
    <3>1. EndWalk(rows, "cut") /\ rows \in Seq(AllIds)
      BY <1>1, <1>6, <2>3 DEF Fail, Types
    <3> QED
      BY <2>2, <3>1
  <2>4. CASE Current.onError = "drop"
    <3>1. EndWalk(<<>>, "dropped") /\ <<>> \in Seq(AllIds)
      BY <1>6, <2>4 DEF Fail
    <3> QED
      BY <2>2, <3>1
  <2>5. CASE Current.onError = "raise"
    <3>1. UNCHANGED <<todo, rows, view, last>>
      BY <1>6, <2>5 DEF Fail
    <3>2. Entries(Current)' = Entries(Current)
      BY <2>1, <3>1 DEF Entries, Current
    <3>3. Prefix'
      BY <2>1, <3>1, <3>2 DEF Prefix
    <3>4. QuietWalk'
      BY <2>1, <3>1, SameQuiet
    <3> QED
      BY <3>3, <3>4 DEF QuietInv
  <2> QED
    BY <2>1, <2>3, <2>4, <2>5 DEF Calls
<1>7. CASE Join \/ Leave
  <2>1. changes' # 0
    <3>1. Changing
      BY <1>7 DEF Join, Leave
    <3>2. changes' = changes + 1
      BY <3>1 DEF Changing
    <3> QED
      BY <1>1, <3>2
  <2> QED
    BY <2>1 DEF QuietInv, Prefix, QuietWalk
<1>8. CASE UNCHANGED vars
  <2>1. UNCHANGED <<world, view, style, job, todo, rows, last, changes>>
    BY <1>8 DEF vars
  <2>2. Entries(Current)' = Entries(Current)
    BY <2>1 DEF Entries, Current
  <2>3. Prefix'
    BY <2>1, <2>2 DEF Prefix
  <2>4. QuietWalk'
    BY <2>1, SameQuiet
  <2> QED
    BY <2>3, <2>4 DEF QuietInv
<1> QED
  BY <1>3, <1>4, <1>5, <1>6, <1>7, <1>8 DEF Next, Request, Done

\* A fetch starts with nothing read.
LEMMA QuietInit == FetchAssumption /\ Init => QuietInv
<1> SUFFICES ASSUME FetchAssumption, Init PROVE QuietInv
  OBVIOUS
<1>1. view = Entries(Current) /\ rows = <<>> /\ last = None
  BY DEF Init, Current
<1>2. view \in Seq(AllIds)
  BY InitEstablishesInv DEF FetchInv, Types
<1>3. Len(view) \in Nat /\ Len(rows) = 0 /\ SubSeq(view, 1, 0) = <<>>
  BY <1>1, <1>2, LenProperties, SubSeqEmpty
<1> QED
  BY <1>1, <1>3 DEF QuietInv, Prefix, QuietWalk

-----------------------------------------------------------------------------
(* The queue of calls.                                                     *)

Sources(j) == ToSet(Program(j)) \cup {Listing}
Reads(q, l) == \E k \in DOMAIN q : q[k].list = l

\* The calls of a fetch read every list once, and all of it.
Orderly(q, j) ==
    /\ \A k \in DOMAIN q : q[k].list \in Lists => q[k].zone = None /\ q[k] \in Sources(j)
    /\ \A i, k \in DOMAIN q : q[i].list = q[k].list /\ q[i].list \in Lists => i = k

\* The pagers get as far as the lists are long.
Reaches == \A l \in Lists : \A c \in Sources(job) : c.list = l => Complete(c, Len(world[l]))

\* Nothing has changed, and no failure has taken rows away.
Undisturbed == changes = 0 /\ lost = {} /\ Reaches

\* What the walks so far have brought is what they read.
Queue == job # "inventory" =>
    /\ Orderly(todo, job)
    /\ Undisturbed => \A l \in Lists : got[l] = IF Reads(todo, l) THEN <<>> ELSE world[l]

\* A fetch from a controller that did not change has read what is there.
QuietReads == job # "inventory" /\ phase = "answered" /\ Undisturbed => got = world

\* A queue without its first call.
LEMMA OrderlyTail ==
    ASSUME NEW q \in Seq(Calls), q # <<>>, NEW j, Orderly(q, j)
    PROVE  /\ Orderly(Tail(q), j)
           /\ \A l \in Lists : Reads(Tail(q), l) <=> Reads(q, l) /\ l # Head(q).list
           /\ Reads(q, Head(q).list)
<1> DEFINE t == Tail(q)
           n == Len(q)
<1>1. /\ n \in Nat \ {0} /\ DOMAIN q = 1 .. n /\ Head(q) = q[1]
      /\ t \in Seq(Calls) /\ Len(t) = n - 1
  BY EmptySeq, LenProperties, HeadTailProperties
<1>2. DOMAIN t = 1 .. n - 1 /\ \A k \in 1 .. n - 1 : t[k] = q[k + 1] /\ k + 1 \in 1 .. n
  BY <1>1, LenProperties
<1> HIDE DEF t, n
<1>3. \A k \in 1 .. n : k # 1 => k - 1 \in 1 .. n - 1 /\ k - 1 + 1 = k
  BY <1>1
<1>4. Orderly(t, j)
  <2>1. \A k \in DOMAIN t : t[k].list \in Lists => t[k].zone = None /\ t[k] \in Sources(j)
    BY <1>1, <1>2 DEF Orderly
  <2>2. ASSUME NEW i \in DOMAIN t, NEW k \in DOMAIN t, t[i].list = t[k].list, t[i].list \in Lists
        PROVE  i = k
    <3>1. /\ i + 1 \in DOMAIN q /\ k + 1 \in DOMAIN q
          /\ q[i + 1].list = q[k + 1].list /\ q[i + 1].list \in Lists
      BY <1>1, <1>2, <2>2
    <3>2. i + 1 = k + 1 /\ i \in Int /\ k \in Int
      BY <1>2, <3>1 DEF Orderly
    <3> QED
      BY <3>2
  <2> QED
    BY <2>1, <2>2 DEF Orderly
<1>5. ASSUME NEW l \in Lists PROVE Reads(t, l) <=> Reads(q, l) /\ l # Head(q).list
  <2>1. ASSUME NEW k \in 1 .. n - 1, t[k].list = l PROVE Reads(q, l) /\ l # Head(q).list
    <3>1. k + 1 \in DOMAIN q /\ q[k + 1].list = l /\ 1 \in DOMAIN q /\ k + 1 # 1
      BY <1>1, <1>2, <2>1
    <3>2. q[1].list # l
      BY <3>1 DEF Orderly
    <3> QED
      BY <1>1, <3>1, <3>2 DEF Reads
  <2>2. ASSUME NEW k \in 1 .. n, q[k].list = l, l # Head(q).list PROVE Reads(t, l)
    <3>1. k - 1 \in 1 .. n - 1 /\ k - 1 + 1 = k
      BY <1>1, <1>3, <2>2
    <3>2. t[k - 1].list = l /\ k - 1 \in DOMAIN t
      BY <1>2, <2>2, <3>1
    <3> QED
      BY <3>2 DEF Reads
  <2> QED
    BY <1>1, <1>2, <2>1, <2>2 DEF Reads
<1>6. Reads(q, Head(q).list)
  <2>1. 1 \in DOMAIN q
    BY <1>1
  <2> QED
    BY <1>1, <2>1 DEF Reads
<1> QED
  BY <1>4, <1>5, <1>6 DEF t

\* A queue with calls for objects behind it.
LEMMA OrderlyObjects ==
    ASSUME NEW q \in Seq(Calls), NEW d \in Seq(Calls), \A k \in DOMAIN d : d[k].list \notin Lists,
           NEW j, Orderly(q, j)
    PROVE  /\ Orderly(q \o d, j)
           /\ \A l \in Lists : Reads(q \o d, l) <=> Reads(q, l)
<1> DEFINE n == Len(q)
           m == Len(d)
           s == q \o d
<1>1. /\ n \in Nat /\ m \in Nat /\ DOMAIN q = 1 .. n /\ DOMAIN d = 1 .. m
      /\ s \in Seq(Calls) /\ Len(s) = n + m
      /\ \A k \in 1 .. n + m : s[k] = IF k <= n THEN q[k] ELSE d[k - n]
  BY LenProperties, ConcatProperties
<1>2. DOMAIN s = 1 .. n + m
  BY <1>1, LenProperties
<1> HIDE DEF n, m, s
<1>3. ASSUME NEW k \in DOMAIN s, s[k].list \in Lists PROVE k \in DOMAIN q /\ s[k] = q[k]
  <2>1. CASE k <= n
    BY <1>1, <1>2, <2>1
  <2>2. CASE ~(k <= n)
    <3>1. k - n \in DOMAIN d /\ s[k] = d[k - n]
      BY <1>1, <1>2, <2>2
    <3> QED
      BY <1>3, <3>1
  <2> QED
    BY <2>1, <2>2
<1>4. \A k \in DOMAIN q : k \in DOMAIN s /\ s[k] = q[k]
  BY <1>1, <1>2
<1>5. Orderly(s, j)
  BY <1>3 DEF Orderly
<1>6. \A l \in Lists : Reads(s, l) <=> Reads(q, l)
  BY <1>3, <1>4 DEF Reads
<1> QED
  BY <1>5, <1>6 DEF s

\* A queue with the list of all access points before it.
LEMMA OrderlyListing ==
    ASSUME NEW q \in Seq(Calls), NEW j, Orderly(q, j), ~Reads(q, "ap")
    PROVE  /\ Orderly(<<Listing>> \o q, j)
           /\ \A l \in Lists : Reads(<<Listing>> \o q, l) <=> Reads(q, l) \/ l = "ap"
<1> DEFINE n == Len(q)
           s == <<Listing>> \o q
<1>0. Listing \in Calls /\ Listing.list = "ap" /\ Listing.zone = None /\ Listing \in Sources(j)
  BY ListCall DEF Listing, Call, Lists, Paged, Sources
<1>1. /\ n \in Nat /\ DOMAIN q = 1 .. n /\ s \in Seq(Calls) /\ Len(s) = n + 1
      /\ \A k \in 1 .. n + 1 : s[k] = IF k <= 1 THEN <<Listing>>[k] ELSE q[k - 1]
  <2>1. <<Listing>> \in Seq(Calls) /\ Len(<<Listing>>) = 1
    BY <1>0
  <2>2. /\ s \in Seq(Calls) /\ Len(s) = 1 + n
        /\ \A k \in 1 .. 1 + n : s[k] = IF k <= 1 THEN <<Listing>>[k] ELSE q[k - 1]
    BY <2>1, ConcatProperties
  <2> HIDE DEF s
  <2>3. n \in Nat /\ DOMAIN q = 1 .. n
    BY LenProperties
  <2> HIDE DEF n
  <2> QED
    BY <2>2, <2>3
<1>2. DOMAIN s = 1 .. n + 1
  BY <1>1, LenProperties
<1> HIDE DEF n, s
<1>3. 1 \in DOMAIN s /\ s[1] = Listing
  BY <1>1, <1>2
<1>4. ASSUME NEW k \in DOMAIN s, k # 1 PROVE k - 1 \in DOMAIN q /\ s[k] = q[k - 1]
  <2>1. k - 1 \in 1 .. n /\ ~(k <= 1)
    BY <1>1, <1>2, <1>4
  <2> QED
    BY <1>1, <1>2, <2>1
<1>5. ASSUME NEW k \in DOMAIN q PROVE k + 1 \in DOMAIN s /\ s[k + 1] = q[k]
  <2>1. k + 1 \in 1 .. n + 1 /\ ~(k + 1 <= 1) /\ k + 1 - 1 = k
    BY <1>1
  <2> QED
    BY <1>1, <1>2, <2>1
<1>6. ASSUME NEW k \in DOMAIN s, s[k].list = "ap" PROVE k = 1
  BY <1>4, <1>6 DEF Reads
<1>7. Orderly(s, j)
  <2>1. \A k \in DOMAIN s : s[k].list \in Lists => s[k].zone = None /\ s[k] \in Sources(j)
    BY <1>0, <1>3, <1>4 DEF Orderly
  <2>2. ASSUME NEW i \in DOMAIN s, NEW k \in DOMAIN s, s[i].list = s[k].list, s[i].list \in Lists
        PROVE  i = k
    <3>1. CASE i = 1 \/ k = 1
      BY <1>0, <1>3, <1>6, <2>2, <3>1
    <3>2. CASE i # 1 /\ k # 1
      <4>1. i - 1 = k - 1
        BY <1>4, <2>2, <3>2 DEF Orderly
      <4>2. i \in Int /\ k \in Int
        BY <1>2
      <4> QED
        BY <4>1, <4>2
    <3> QED
      BY <3>1, <3>2
  <2> QED
    BY <2>1, <2>2 DEF Orderly
<1>8. ASSUME NEW l \in Lists PROVE Reads(s, l) <=> Reads(q, l) \/ l = "ap"
  <2>1. Reads(s, l) => Reads(q, l) \/ l = "ap"
    BY <1>0, <1>3, <1>4 DEF Reads
  <2>2. Reads(q, l) => Reads(s, l)
    BY <1>5 DEF Reads
  <2>3. l = "ap" => Reads(s, l)
    BY <1>0, <1>3 DEF Reads
  <2> QED
    BY <2>1, <2>2, <2>3
<1> QED
  BY <1>7, <1>8 DEF s

\* No fetch asks for a list twice, nor for a part of one.
LEMMA ProgramOrderly ==
    ASSUME FetchAssumption, NEW j \in Jobs
    PROVE  Orderly(Program(j), j)
<1> DEFINE Distinct(q) == \A i, k \in DOMAIN q : q[i].list = q[k].list /\ q[i].list \in Lists => i = k
<1>1. \A a : Distinct(<<a>>)
  OBVIOUS
<1>2. \A a, b : a.list # b.list => Distinct(<<a, b>>)
  OBVIOUS
<1>3. ASSUME NEW a, NEW b, NEW c, NEW d, a.list # b.list, a.list # c.list, a.list # d.list,
             b.list # c.list, b.list # d.list, c.list # d.list
      PROVE  Distinct(<<a, b, c, d>>)
  BY <1>3
<1>4. ASSUME NEW a, NEW b, NEW c, NEW d, NEW e, NEW f, NEW g,
             a.list # b.list, a.list # c.list, a.list # d.list, a.list # e.list,
             a.list # f.list, a.list # g.list, b.list # c.list, b.list # d.list,
             b.list # e.list, b.list # f.list, b.list # g.list, c.list # d.list,
             c.list # e.list, c.list # f.list, c.list # g.list, d.list # e.list,
             d.list # f.list, d.list # g.list, e.list # f.list, e.list # g.list,
             f.list # g.list
      PROVE  Distinct(<<a, b, c, d, e, f, g>>)
  <2> DEFINE q == <<a, b, c, d, e, f, g>>
  <2>1. /\ DOMAIN q = 1 .. 7 /\ q[1] = a /\ q[2] = b /\ q[3] = c /\ q[4] = d
        /\ q[5] = e /\ q[6] = f /\ q[7] = g
    OBVIOUS
  <2> HIDE DEF q
  <2>2. ASSUME NEW i \in 1 .. 7, NEW k \in 1 .. 7, i < k PROVE q[i].list # q[k].list
    <3>1. CASE i \in {1, 2}
      BY <1>4, <2>1, <2>2, <3>1
    <3>2. CASE i \in {3, 4, 5, 6}
      BY <1>4, <2>1, <2>2, <3>2
    <3> QED
      BY <2>2, <3>1, <3>2
  <2>3. \A i, k \in 1 .. 7 : q[i].list = q[k].list => i = k
    <3> SUFFICES ASSUME NEW i \in 1 .. 7, NEW k \in 1 .. 7, i # k PROVE q[i].list # q[k].list
      OBVIOUS
    <3>1. i < k \/ k < i
      OBVIOUS
    <3> QED
      BY <2>2, <3>1
  <2>4. Distinct(q)
    BY <2>1, <2>3
  <2> QED
    BY <2>4 DEF q
<1>5. /\ \A l, p, e : Call(l, p, e).list = l
      /\ \A e : Get(e).list = "rkszones" /\ Switches(e).list = "switch"
      /\ \A l : Query(l).list = l /\ One(l).list = l
  BY DEF Call, Get, Switches, Query, One
<1>6. j \in {"zones", "aps", "clients", "wlans", "firmware", "rogues", "security",
             "controller", "alarms", "switches", "switch", "traffic", "stack",
             "vlans", "inventory", "operational", "topology"}
  BY DEF FetchAssumption
<1> HIDE DEF Distinct
<1>7. Distinct(Program(j))
  <2>1. CASE j \in {"firmware", "rogues", "security", "alarms", "stack", "vlans"}
    BY <1>1, <2>1 DEF Program
  <2>2. CASE j \in {"zones", "inventory", "clients"}
    BY <1>2, <1>5, <2>2 DEF Program
  <2>3. CASE j \in {"aps", "wlans"}
    BY <1>2, <1>5, <2>3 DEF Program
  <2>4. CASE j \in {"controller", "switches", "traffic"}
    BY <1>1, <1>2, <1>5, <2>4 DEF Program
  <2>5. CASE j = "switch"
    BY <1>3, <1>5, <2>5 DEF Program
  <2>6. CASE j = "operational"
    BY <1>3, <1>5, <2>6 DEF Program
  <2>7. CASE j = "topology"
    BY <1>4, <1>5, <2>7 DEF Program
  <2> QED
    BY <1>6, <2>1, <2>2, <2>3, <2>4, <2>5, <2>6, <2>7
<1> DEFINE q == Program(j)
<1>8. q \in Seq(PlainCalls)
  BY ProgramTyped
<1> HIDE DEF q
<1>9. ASSUME NEW k \in DOMAIN q PROVE q[k].zone = None /\ q[k] \in ToSet(q)
  <2>1. DOMAIN q = 1 .. Len(q)
    BY <1>8, LenProperties
  <2>2. q[k] \in PlainCalls
    BY <1>8, <2>1, ElementOfSeq
  <2> QED
    BY <2>2 DEF PlainCalls, ToSet
<1> QED
  BY <1>7, <1>9 DEF Orderly, Sources, q, Distinct

\* The details of zones are calls, and none of them reads a list.
LEMMA DetailCalls ==
    ASSUME NEW read \in Seq(AllIds)
    PROVE  Details(read) \in Seq(Calls) /\ \A k \in DOMAIN Details(read) : Details(read)[k].list \notin Lists
<1>1. Len(read) \in Nat /\ DOMAIN read = 1 .. Len(read) /\ \A i \in 1 .. Len(read) : read[i] \in AllIds
  BY LenProperties, ElementOfSeq
<1>2. One("detail") \in Calls /\ One("detail").list = "detail" /\ "detail" \notin Lists
  BY ObjectCall DEF Objects, Lists, One, Call
<1>3. \A i \in 1 .. Len(read) :
          OfZone(One("detail"), read[i]) \in Calls /\ OfZone(One("detail"), read[i]).list = "detail"
  BY <1>1, <1>2, OfZoneTyped DEF OfZone, One, Call
<1>4. /\ Details(read) \in [1 .. Len(read) -> Calls]
      /\ DOMAIN Details(read) = 1 .. Len(read)
      /\ \A k \in 1 .. Len(read) : Details(read)[k] = OfZone(One("detail"), read[k])
  BY <1>1, <1>3 DEF Details
<1>5. Details(read) \in Seq(Calls)
  BY <1>1, <1>4
<1> QED
  BY <1>2, <1>3, <1>4, <1>5

\* As long as the queue and what was lost stay the same, so does the account.
LEMMA SameQueue ==
    ASSUME Queue, UNCHANGED <<world, style, job, todo, got, lost>>, changes' = 0 => changes = 0
    PROVE  Queue'
BY DEF Queue, Undisturbed, Reaches, Complete

\* A walk that ends leaves the account of the queue behind it in order.
LEMMA QueueEnds ==
    ASSUME FetchAssumption, FetchInv, Queue, todo # <<>>, NEW read \in Seq(AllIds), NEW how,
           EndWalk(read, how), UNCHANGED <<world, style, job, changes>>,
           job # "inventory" /\ how = "ran" /\ Undisturbed /\ Current.list \in Lists
               => read = world[Current.list]
    PROVE  Queue'
<1> SUFFICES ASSUME job # "inventory"
             PROVE  /\ Orderly(todo', job)
                    /\ Undisturbed' =>
                           \A l \in Lists : got'[l] = IF Reads(todo', l) THEN <<>> ELSE world[l]
  BY DEF Queue
<1> DEFINE t == Tail(todo)
<1>1. /\ todo \in Seq(Calls) /\ t \in Seq(Calls) /\ Current \in Calls
      /\ got \in [Lists -> Seq(AllIds)]
  BY HeadTailProperties DEF FetchInv, Types, Current
<1>2. /\ Orderly(t, job) /\ Reads(todo, Current.list)
      /\ \A l \in Lists : Reads(t, l) <=> Reads(todo, l) /\ l # Current.list
  BY <1>1, OrderlyTail DEF Queue, Current
<1>3. Undisturbed => \A l \in Lists : got[l] = IF Reads(todo, l) THEN <<>> ELSE world[l]
  BY DEF Queue
<1>4. todo' = Following(Current, read)
  BY DEF EndWalk
<1>5. \A l \in Lists : got'[l] = IF l = Current.list THEN got[l] \o read ELSE got[l]
  BY <1>1 DEF EndWalk
<1>6. Reaches' => Reaches
  BY DEF Reaches, Complete
<1> HIDE DEF t
<1>7. CASE FallsBack(Current, read)
  <2>1. Current.list = "ap" /\ read = <<>> /\ job = "operational" /\ lost' = lost
    BY <1>7 DEF FallsBack, EndWalk
  <2>2. todo' = <<Listing>> \o t
    BY <1>4, <1>7, <2>1 DEF Following, AfterAps, t
  <2>3. "ap" \in Lists /\ ~Reads(t, "ap")
    BY <1>2, <2>1 DEF Lists
  <2>4. Orderly(todo', job) /\ \A l \in Lists : Reads(todo', l) <=> Reads(t, l) \/ l = "ap"
    BY <1>1, <1>2, <2>2, <2>3, OrderlyListing
  <2>5. \A l \in Lists : got'[l] = got[l]
    <3>1. got["ap"] \o <<>> = got["ap"]
      BY <1>1, <2>3
    <3> QED
      BY <1>5, <2>1, <3>1
  <2>6. Undisturbed' => Undisturbed
    BY <1>6, <2>1 DEF Undisturbed
  <2>7. \A l \in Lists : Reads(todo', l) <=> Reads(todo, l)
    BY <1>2, <2>1, <2>4
  <2> QED
    BY <1>3, <2>4, <2>5, <2>6, <2>7
<1>8. CASE ~FallsBack(Current, read)
  <2>1. todo' \in {t, t \o Details(read)}
    BY <1>4, <1>8 DEF Following, AfterZones, t
  <2>2. Orderly(todo', job) /\ \A l \in Lists : Reads(todo', l) <=> Reads(t, l)
    <3>1. CASE todo' = t
      BY <1>2, <3>1
    <3>2. CASE todo' = t \o Details(read)
      BY <1>1, <1>2, <3>2, DetailCalls, OrderlyObjects
    <3> QED
      BY <2>1, <3>1, <3>2
  <2>3. ASSUME Undisturbed', NEW l \in Lists
        PROVE  got'[l] = IF Reads(todo', l) THEN <<>> ELSE world[l]
    <3>1. how = "ran" /\ lost' = lost
      BY <1>8, <2>3 DEF EndWalk, Undisturbed
    <3>2. Undisturbed
      BY <1>6, <2>3, <3>1 DEF Undisturbed
    <3>3. CASE l # Current.list
      BY <1>2, <1>3, <1>5, <2>2, <3>2, <3>3
    <3>4. CASE l = Current.list
      <4>1. got[l] = <<>> /\ read = world[l] /\ ~Reads(todo', l)
        BY <1>2, <1>3, <2>2, <3>1, <3>2, <3>4
      <4>2. got'[l] = read
        <5>1. <<>> \o read = read
          OBVIOUS
        <5> QED
          BY <1>5, <3>4, <4>1, <5>1
      <4> QED
        BY <4>1, <4>2
    <3> QED
      BY <3>3, <3>4
  <2> QED
    BY <2>2, <2>3
<1> QED
  BY <1>7, <1>8

\* No step of a fetch asks for a list again that it has read.
LEMMA QueueStep == FetchAssumption /\ FetchInv /\ QuietInv /\ Queue /\ [Next]_vars => Queue'
<1> SUFFICES ASSUME FetchAssumption, FetchInv, Prefix, Queue, [Next]_vars PROVE Queue'
  BY DEF QuietInv
<1>1. Types /\ changes \in Nat
  BY DEF FetchInv, Types, TypeOK
<1>2. ASSUME Fetching(Paged \cup {"one"}) \/ Failing PROVE todo # <<>> /\ Current \in Calls
  BY <1>1, <1>2, HeadTailProperties DEF Fetching, Failing, Types, TypeOK, Current
<1>3. CASE Page
  <2>1. /\ todo # <<>> /\ Current \in Calls /\ Current.pager \in Paged
        /\ UNCHANGED <<world, style, job, changes>>
    BY <1>2, <1>3 DEF Page, Fetching
  <2>2. CASE ~Ends
    <3>1. UNCHANGED <<todo, got, lost>>
      BY <1>3, <2>2 DEF Page
    <3> QED
      BY <2>1, <3>1, SameQueue
  <2>3. CASE Ends
    <3> DEFINE read == rows \o Items
    <3>1. EndWalk(read, "ran")
      BY <1>3, <2>3 DEF Page
    <3>2. read \in Seq(AllIds)
      <4>1. Accounts(view, Offset, rows, walk)
        BY <2>1 DEF FetchInv, WalkInv
      <4> QED
        BY <1>1, <4>1, PageRead
    <3>3. ASSUME job # "inventory", Undisturbed, Current.list \in Lists
          PROVE  read = world[Current.list]
      <4>1. Current.zone = None /\ Current \in Sources(job)
        <5>1. 1 \in DOMAIN todo /\ todo[1] = Current
          BY <1>1, <2>1, EmptySeq, LenProperties, HeadTailProperties DEF Types, Current
        <5> QED
          BY <3>3, <5>1 DEF Queue, Orderly
      <4>2. Entries(Current) = world[Current.list]
        BY <3>3, <4>1 DEF Entries
      <4>3. Complete(Current, Len(Entries(Current)))
        BY <3>3, <4>1, <4>2 DEF Undisturbed, Reaches
      <4> QED
        BY <2>1, <2>3, <3>3, <4>2, <4>3, QuietPage DEF Undisturbed
    <3> HIDE DEF read
    <3> QED
      BY <2>1, <3>1, <3>2, <3>3, QueueEnds
  <2> QED
    BY <2>2, <2>3
<1>4. CASE Object
  <2>1. /\ todo # <<>> /\ EndWalk(<<>>, "ran") /\ UNCHANGED <<world, style, job, changes>>
        /\ Current.list \notin Lists
    BY <1>2, <1>4 DEF Object, Fetching, Calls, Lists, Objects
  <2> QED
    BY <2>1, EmptySeq, QueueEnds
<1>5. CASE Retry
  BY <1>5, SameQueue DEF Retry
<1>6. CASE Fail
  <2>1. /\ todo # <<>> /\ Current \in Calls /\ UNCHANGED <<world, style, job, changes>>
    BY <1>2, <1>6 DEF Fail
  <2>2. CASE Current.onError = "keep"
    <3>1. EndWalk(rows, "cut") /\ rows \in Seq(AllIds)
      BY <1>1, <1>6, <2>2 DEF Fail, Types
    <3> QED
      BY <2>1, <3>1, QueueEnds
  <2>3. CASE Current.onError = "drop"
    <3>1. EndWalk(<<>>, "dropped") /\ <<>> \in Seq(AllIds)
      BY <1>6, <2>3 DEF Fail
    <3> QED
      BY <2>1, <3>1, QueueEnds
  <2>4. CASE Current.onError = "raise"
    <3>1. UNCHANGED <<todo, got, lost>>
      BY <1>6, <2>4 DEF Fail
    <3> QED
      BY <2>1, <3>1, SameQueue
  <2> QED
    BY <2>1, <2>2, <2>3, <2>4 DEF Calls
<1>7. CASE Join \/ Leave
  <2>1. Changing
    BY <1>7 DEF Join, Leave
  <2>2. changes' # 0 /\ UNCHANGED <<world, style, job, todo, got, lost>>
    BY <1>1, <2>1 DEF Changing
  <2> QED
    BY <2>2, SameQueue
<1>8. CASE UNCHANGED vars
  BY <1>8, SameQueue DEF vars
<1> QED
  BY <1>3, <1>4, <1>5, <1>6, <1>7, <1>8 DEF Next, Request, Done

\* A fetch starts with every list it asks for still to be read.
LEMMA QueueInit == FetchAssumption /\ Init => Queue
<1> SUFFICES ASSUME FetchAssumption, Init PROVE Queue
  OBVIOUS
<1>1. job \in Jobs /\ todo = Program(job) /\ Orderly(todo, job)
  BY ProgramOrderly DEF Init
<1>2. ASSUME NEW l \in Lists, ~Reads(todo, l) PROVE world[l] = <<>>
  <2>1. l \notin Read(job)
    BY <1>1, <1>2 DEF Read, Reads, ToSet
  <2> QED
    BY <2>1 DEF Init
<1>3. \A l \in Lists : got[l] = <<>>
  BY DEF Init
<1> QED
  BY <1>1, <1>2, <1>3 DEF Queue

\* When a fetch that nothing disturbed is over, every list has been read.
LEMMA QuietAnswer == FetchInv /\ Queue => QuietReads
<1> SUFFICES ASSUME FetchInv, Queue, job # "inventory", phase = "answered", Undisturbed
             PROVE  got = world
  BY DEF QuietReads
<1>1. todo = <<>> /\ got \in [Lists -> Seq(AllIds)] /\ world \in [Lists -> Seq(AllIds)]
  BY DEF FetchInv, Types, TypeOK
<1>2. \A l \in Lists : ~Reads(todo, l)
  BY <1>1 DEF Reads
<1>3. \A l \in Lists : got[l] = world[l]
  BY <1>2 DEF Queue
<1> QED
  BY <1>1, <1>3

-----------------------------------------------------------------------------
(* Finite sets and sums over them.                                         *)

\* A set of numbers has a least one.
LEMMA Least ==
    ASSUME NEW T \in SUBSET Nat, T # {}
    PROVE  \E n \in T : \A m \in T : n <= m
<1> DEFINE Below == {ss \in Nat \X Nat : ss[1] < ss[2]}
<1>1. IsWellFoundedOn(Below, Nat)
  BY NatLessThanWellFounded DEF OpToRel
<1>2. \A m, n \in T : <<m, n>> \notin Below => n <= m
  OBVIOUS
<1> HIDE DEF Below
<1>3. \E n \in T : \A m \in T : <<m, n>> \notin Below
  BY <1>1, WFMin
<1> QED
  BY <1>2, <1>3

\* What holds of the empty set, and of a set with one member more whenever
\* of the set, holds of a finite set.
LEMMA SetInduction ==
    ASSUME NEW S, IsFiniteSet(S), NEW G, {} \in G,
           \A T \in SUBSET S : \A x \in S \ T : T \in G => T \cup {x} \in G
    PROVE  S \in G
<1> DEFINE Bad == {T \in SUBSET S : T \notin G}
           Sizes == {Cardinality(T) : T \in Bad}
<1>1. \A T \in SUBSET S : IsFiniteSet(T) /\ Cardinality(T) \in Nat
  BY FS_Subset, FS_CardinalityType
<1>2. SUFFICES ASSUME S \notin G PROVE FALSE
  OBVIOUS
<1>3. Sizes # {} /\ Sizes \in SUBSET Nat
  BY <1>1, <1>2
<1>4. PICK n \in Sizes : \A m \in Sizes : n <= m
  <2> HIDE DEF Sizes
  <2> QED
    BY <1>3, Least
<1>5. PICK T \in Bad : Cardinality(T) = n
  BY <1>4
<1>6. PICK x \in T : TRUE
  BY <1>5
<1>7. T \ {x} \notin G
  <2>1. (T \ {x}) \cup {x} = T /\ T \ {x} \in SUBSET S /\ x \in S \ (T \ {x})
    BY <1>5, <1>6
  <2> QED
    BY <1>5, <2>1
<1>8. Cardinality(T \ {x}) = Cardinality(T) - 1 /\ Cardinality(T) \in Nat
  BY <1>1, <1>5, <1>6, FS_RemoveElement
<1>9. Cardinality(T \ {x}) \in Sizes
  BY <1>7, <1>5
<1>10. n <= n - 1 /\ n \in Nat
  BY <1>4, <1>5, <1>8, <1>9
<1> QED
  BY <1>10

\* The sums of the library are folds: a fold takes one member after another.
Pick(s) == CHOOSE x \in s : TRUE
IsSum(it, f, S) == it = [s \in SUBSET S |-> IF s = {} THEN 0 ELSE f[Pick(s)] + it[s \ {Pick(s)}]]

\* What the sum of a function over a set stands for.
LEMMA FoldIs ==
    ASSUME NEW f, NEW S
    PROVE  SumFunctionOnSet(f, S) = (CHOOSE it : IsSum(it, f, S))[S]
  BY DEF SumFunctionOnSet, FoldFunctionOnSet, MapThenFoldSet, IsSum, Pick

\* What holds of 0, and of n + 1 whenever of n, holds of every number.
LEMMA CountUp ==
    ASSUME NEW G, 0 \in G, \A n \in Nat : n \in G => n + 1 \in G
    PROVE  Nat \subseteq G
<1> DEFINE Missing == Nat \ G
<1> SUFFICES ASSUME Missing # {} PROVE FALSE
  OBVIOUS
<1>1. PICK n \in Missing : \A m \in Missing : n <= m
  <2>1. Missing \in SUBSET Nat
    OBVIOUS
  <2> HIDE DEF Missing
  <2> QED
    BY <2>1, Least
<1>2. n # 0 /\ n - 1 \in Nat /\ n - 1 \notin Missing
  BY <1>1
<1>3. n \in G
  <2>1. (n - 1) + 1 = n
    BY <1>1
  <2> QED
    BY <1>2, <2>1
<1> QED
  BY <1>1, <1>3

\* There is a table of the sums over the subsets of a finite set ...
LEMMA SumExists ==
    ASSUME NEW S, IsFiniteSet(S), NEW f, \A x \in S : f[x] \in Int
    PROVE  \E it \in [SUBSET S -> Int] : IsSum(it, f, S)
<1> DEFINE Small(n) == {s \in SUBSET S : Cardinality(s) <= n}
           Step(it, s) == IF s = {} THEN 0 ELSE f[Pick(s)] + it[s \ {Pick(s)}]
           G == {n \in Nat : \E it \in [Small(n) -> Int] : it = [s \in Small(n) |-> Step(it, s)]}
<1>0. \A s \in SUBSET S : IsFiniteSet(s) /\ Cardinality(s) \in Nat
                            /\ (Cardinality(s) = 0 <=> s = {})
  BY FS_Subset, FS_CardinalityType, FS_EmptySet
<1>1. 0 \in G
  <2>1. \A s \in Small(0) : s = {}
    BY <1>0
  <2> DEFINE it == [s \in Small(0) |-> 0]
  <2>2. it \in [Small(0) -> Int] /\ it = [s \in Small(0) |-> Step(it, s)]
    BY <2>1
  <2> QED
    BY <2>2
<1>2. ASSUME NEW n \in Nat, n \in G PROVE n + 1 \in G
  <2>1. PICK it \in [Small(n) -> Int] : it = [s \in Small(n) |-> Step(it, s)]
    BY <1>2
  <2> DEFINE jt == [s \in Small(n + 1) |-> Step(it, s)]
  <2>2. ASSUME NEW s \in Small(n + 1), s # {}
        PROVE  /\ f[Pick(s)] \in Int /\ s \ {Pick(s)} \in Small(n)
               /\ it[s \ {Pick(s)}] \in Int /\ jt[s \ {Pick(s)}] = it[s \ {Pick(s)}]
    <3>1. Pick(s) \in s
      BY <2>2 DEF Pick
    <3>2. Cardinality(s \ {Pick(s)}) = Cardinality(s) - 1 /\ Cardinality(s) \in Nat
      BY <1>0, <3>1, FS_RemoveElement
    <3>3. s \ {Pick(s)} \in Small(n) /\ s \ {Pick(s)} \in Small(n + 1)
      BY <3>2
    <3>4. it[s \ {Pick(s)}] = Step(it, s \ {Pick(s)})
      BY <2>1, <3>3
    <3>5. jt[s \ {Pick(s)}] = Step(it, s \ {Pick(s)})
      BY <3>3
    <3>6. f[Pick(s)] \in Int /\ it[s \ {Pick(s)}] \in Int
      BY <2>1, <3>1, <3>3
    <3> QED
      BY <3>3, <3>4, <3>5, <3>6
  <2>3. jt \in [Small(n + 1) -> Int]
    <3>1. ASSUME NEW s \in Small(n + 1) PROVE Step(it, s) \in Int
      <4>1. CASE s = {}
        BY <4>1
      <4>2. CASE s # {}
        <5>1. f[Pick(s)] \in Int /\ it[s \ {Pick(s)}] \in Int
          BY <2>2, <4>2
        <5>2. Step(it, s) = f[Pick(s)] + it[s \ {Pick(s)}]
          BY <4>2
        <5> HIDE DEF Step, Small
        <5> QED
          BY <5>1, <5>2
      <4> QED
        BY <4>1, <4>2
    <3> HIDE DEF Small, Step
    <3> QED
      BY <3>1
  <2>4. jt = [s \in Small(n + 1) |-> Step(jt, s)]
    BY <2>2
  <2> HIDE DEF jt, Small, Step
  <2>5. \E kt \in [Small(n + 1) -> Int] : kt = [s \in Small(n + 1) |-> Step(kt, s)]
    BY <2>3, <2>4
  <2> QED
    BY <2>5
<1>3. Cardinality(S) \in G
  <2>1. Cardinality(S) \in Nat
    BY <1>0
  <2> HIDE DEF G
  <2> QED
    BY <1>1, <1>2, <2>1, CountUp
<1>4. Small(Cardinality(S)) = SUBSET S
  BY FS_Subset
<1> QED
  BY <1>3, <1>4 DEF IsSum

\* ... and only one, so that the sum does not depend on the set around.
LEMMA SumUnique ==
    ASSUME NEW S, IsFiniteSet(S), NEW T \in SUBSET S, NEW f, NEW g, \A x \in T : f[x] = g[x],
           NEW it, IsSum(it, f, S), NEW jt, IsSum(jt, g, T)
    PROVE  \A s \in SUBSET T : it[s] = jt[s]
<1> DEFINE G == {n \in Nat : \A s \in SUBSET T : Cardinality(s) = n => it[s] = jt[s]}
<1>0. \A s \in SUBSET T : IsFiniteSet(s) /\ Cardinality(s) \in Nat
                            /\ (Cardinality(s) = 0 <=> s = {})
  BY FS_Subset, FS_CardinalityType, FS_EmptySet
<1>1. ASSUME NEW s \in SUBSET T
      PROVE  /\ it[s] = IF s = {} THEN 0 ELSE f[Pick(s)] + it[s \ {Pick(s)}]
             /\ jt[s] = IF s = {} THEN 0 ELSE g[Pick(s)] + jt[s \ {Pick(s)}]
             /\ s # {} => Pick(s) \in s
  <2>1. s \in SUBSET S
    OBVIOUS
  <2> QED
    BY <2>1 DEF IsSum, Pick
<1>2. 0 \in G
  BY <1>0, <1>1
<1>3. ASSUME NEW n \in Nat, n \in G PROVE n + 1 \in G
  <2>1. SUFFICES ASSUME NEW s \in SUBSET T, Cardinality(s) = n + 1 PROVE it[s] = jt[s]
    OBVIOUS
  <2>2. s # {} /\ Pick(s) \in s
    <3>1. Cardinality(s) # 0
      BY <2>1
    <3> QED
      BY <1>0, <1>1, <3>1
  <2>3. Cardinality(s \ {Pick(s)}) = n
    <3>1. IsFiniteSet(s)
      BY <1>0
    <3>2. Cardinality(s \ {Pick(s)}) = Cardinality(s) - 1
      BY <2>2, <3>1, FS_RemoveElement
    <3> QED
      BY <2>1, <3>2
  <2>4. it[s \ {Pick(s)}] = jt[s \ {Pick(s)}]
    BY <1>3, <2>3
  <2> QED
    BY <1>1, <2>2, <2>4
<1>4. Nat \subseteq G
  <2> HIDE DEF G
  <2> QED
    BY <1>2, <1>3, CountUp
<1> QED
  BY <1>0, <1>4

\* A sum is nothing, or one term and the sum of the rest.
LEMMA SumIs ==
    ASSUME NEW S, IsFiniteSet(S), NEW f, \A x \in S : f[x] \in Int
    PROVE  /\ SumFunctionOnSet(f, S) \in Int
           /\ S = {} => SumFunctionOnSet(f, S) = 0
           /\ S # {} => SumFunctionOnSet(f, S)
                          = f[Pick(S)] + SumFunctionOnSet(f, S \ {Pick(S)})
<1> DEFINE it == CHOOSE it : IsSum(it, f, S)
           R == S \ {Pick(S)}
           jt == CHOOSE jt : IsSum(jt, f, R)
<1>1. IsSum(it, f, S) /\ it[S] \in Int
  <2>1. PICK kt \in [SUBSET S -> Int] : IsSum(kt, f, S)
    BY SumExists
  <2>2. IsSum(it, f, S)
    BY <2>1
  <2> HIDE DEF it
  <2>3. it[S] = kt[S]
    BY <2>1, <2>2, SumUnique
  <2> QED
    BY <2>1, <2>2, <2>3
<1>2. IsSum(jt, f, R)
  <2>1. IsFiniteSet(R) /\ \A x \in R : f[x] \in Int
    BY FS_Subset
  <2> HIDE DEF R
  <2>2. PICK kt \in [SUBSET R -> Int] : IsSum(kt, f, R)
    BY <2>1, SumExists
  <2> QED
    BY <2>2
<1>3. SumFunctionOnSet(f, S) = it[S] /\ SumFunctionOnSet(f, R) = jt[R]
  BY FoldIs
<1> HIDE DEF it, jt
<1>4. it[S] = IF S = {} THEN 0 ELSE f[Pick(S)] + it[R]
  BY <1>1 DEF IsSum
<1>5. it[R] = jt[R]
  BY <1>1, <1>2, SumUnique
<1> QED
  BY <1>1, <1>3, <1>4, <1>5

\* A sum depends on its terms alone.
LEMMA SumSame ==
    ASSUME NEW S, IsFiniteSet(S), NEW f, NEW g, \A x \in S : f[x] \in Int /\ f[x] = g[x]
    PROVE  SumFunctionOnSet(f, S) = SumFunctionOnSet(g, S)
<1> DEFINE it == CHOOSE it : IsSum(it, f, S)
           jt == CHOOSE jt : IsSum(jt, g, S)
<1>1. IsSum(it, f, S) /\ IsSum(jt, g, S)
  BY SumExists
<1>2. SumFunctionOnSet(f, S) = it[S] /\ SumFunctionOnSet(g, S) = jt[S]
  BY FoldIs
<1> HIDE DEF it, jt
<1> QED
  BY <1>1, <1>2, SumUnique

\* Whichever term is taken out of a sum first ...
LEMMA SumWithout ==
    ASSUME NEW S, IsFiniteSet(S), NEW f, \A x \in S : f[x] \in Int, NEW x \in S
    PROVE  SumFunctionOnSet(f, S) = f[x] + SumFunctionOnSet(f, S \ {x})
<1> DEFINE Part(s) == SumFunctionOnSet(f, s)
           G == {n \in Nat : \A s \in SUBSET S : Cardinality(s) = n =>
                                \A y \in s : Part(s) = f[y] + Part(s \ {y})}
<1>0. \A s \in SUBSET S : IsFiniteSet(s) /\ Cardinality(s) \in Nat
                            /\ (Cardinality(s) = 0 <=> s = {})
  BY FS_Subset, FS_CardinalityType, FS_EmptySet
<1>1. ASSUME NEW s \in SUBSET S
      PROVE  Part(s) \in Int /\ (s # {} => Pick(s) \in s /\ Part(s) = f[Pick(s)] + Part(s \ {Pick(s)}))
  <2>1. \A y \in s : f[y] \in Int
    OBVIOUS
  <2> QED
    BY <1>0, <2>1, SumIs DEF Pick
<1> HIDE DEF Part
<1>2. 0 \in G
  BY <1>0
<1>3. ASSUME NEW n \in Nat, n \in G PROVE n + 1 \in G
  <2>1. SUFFICES ASSUME NEW s \in SUBSET S, Cardinality(s) = n + 1, NEW y \in s
                 PROVE  Part(s) = f[y] + Part(s \ {y})
    OBVIOUS
  <2> DEFINE p == Pick(s)
  <2>2. p \in s /\ Part(s) = f[p] + Part(s \ {p})
    BY <1>1
  <2>3. CASE y = p
    BY <2>2, <2>3
  <2>4. CASE y # p
    <3>1. /\ s \ {p} \in SUBSET S /\ y \in s \ {p} /\ Cardinality(s \ {p}) = n
          /\ s \ {y} \in SUBSET S /\ p \in s \ {y} /\ Cardinality(s \ {y}) = n
      <4>1. IsFiniteSet(s)
        BY <1>0
      <4>2. p \in s
        BY <2>2
      <4> HIDE DEF p
      <4>3. Cardinality(s \ {p}) = Cardinality(s) - 1
        BY <4>1, <4>2, FS_RemoveElement
      <4>4. Cardinality(s \ {y}) = Cardinality(s) - 1
        BY <4>1, FS_RemoveElement
      <4>5. Cardinality(s \ {p}) = n /\ Cardinality(s \ {y}) = n
        BY <2>1, <4>3, <4>4
      <4> QED
        BY <2>4, <4>2, <4>5
    <3>2. /\ Part(s \ {p}) = f[y] + Part((s \ {p}) \ {y})
          /\ Part(s \ {y}) = f[p] + Part((s \ {y}) \ {p})
      BY <1>3, <3>1
    <3>3. (s \ {p}) \ {y} = (s \ {y}) \ {p} /\ Part((s \ {y}) \ {p}) \in Int
      BY <1>1
    <3>4. f[p] \in Int /\ f[y] \in Int
      BY <2>2
    <3>5. Part(s) = f[p] + (f[y] + Part((s \ {y}) \ {p}))
      BY <2>2, <3>2, <3>3
    <3>6. Part(s \ {y}) = f[p] + Part((s \ {y}) \ {p})
      BY <3>2
    <3> HIDE DEF p
    <3> QED
      BY <3>3, <3>4, <3>5, <3>6
  <2> QED
    BY <2>3, <2>4
<1>4. Nat \subseteq G
  <2> HIDE DEF G
  <2> QED
    BY <1>2, <1>3, CountUp
<1> QED
  BY <1>0, <1>4 DEF Part

\* ... or added to it last.
LEMMA SumWith ==
    ASSUME NEW S, IsFiniteSet(S), NEW f, \A x \in S : f[x] \in Int, NEW x, x \notin S, f[x] \in Int
    PROVE  SumFunctionOnSet(f, S \cup {x}) = f[x] + SumFunctionOnSet(f, S)
<1>1. (S \cup {x}) \ {x} = S /\ IsFiniteSet(S \cup {x}) /\ \A y \in S \cup {x} : f[y] \in Int
  BY FS_AddElement
<1> QED
  BY <1>1, SumWithout

\* The three facts inductions over sums use.
LEMMA SumAll ==
    ASSUME NEW S, IsFiniteSet(S), NEW f, \A x \in S : f[x] \in Int
    PROVE  /\ \A T \in SUBSET S : SumFunctionOnSet(f, T) \in Int
           /\ SumFunctionOnSet(f, {}) = 0
           /\ \A T \in SUBSET S : \A x \in S \ T :
                 SumFunctionOnSet(f, T \cup {x}) = f[x] + SumFunctionOnSet(f, T)
<1>1. \A T \in SUBSET S : IsFiniteSet(T) /\ \A x \in T : f[x] \in Int
  BY FS_Subset
<1>2. \A T \in SUBSET S : SumFunctionOnSet(f, T) \in Int
  BY <1>1, SumIs
<1>3. SumFunctionOnSet(f, {}) = 0
  BY SumIs, FS_EmptySet
<1>4. ASSUME NEW T \in SUBSET S, NEW x \in S \ T
      PROVE  SumFunctionOnSet(f, T \cup {x}) = f[x] + SumFunctionOnSet(f, T)
  BY <1>1, SumWith
<1> QED
  BY <1>2, <1>3, <1>4

\* The sum of two functions is the sum of their sums.
LEMMA SumAddsUp ==
    ASSUME NEW S, IsFiniteSet(S), NEW f, NEW g, NEW h,
           \A x \in S : f[x] \in Int /\ g[x] \in Int /\ h[x] = f[x] + g[x]
    PROVE  SumFunctionOnSet(h, S) = SumFunctionOnSet(f, S) + SumFunctionOnSet(g, S)
<1> DEFINE F(T) == SumFunctionOnSet(f, T)
           E(T) == SumFunctionOnSet(g, T)
           H(T) == SumFunctionOnSet(h, T)
           G == {T \in SUBSET S : H(T) = F(T) + E(T)}
<1>1. \A x \in S : h[x] \in Int
  OBVIOUS
<1>2. /\ \A T \in SUBSET S : F(T) \in Int /\ E(T) \in Int
      /\ F({}) = 0 /\ E({}) = 0 /\ H({}) = 0
      /\ \A T \in SUBSET S : \A x \in S \ T :
            F(T \cup {x}) = f[x] + F(T) /\ E(T \cup {x}) = g[x] + E(T) /\ H(T \cup {x}) = h[x] + H(T)
  BY <1>1, SumAll
<1> HIDE DEF F, E, H
<1>3. {} \in G
  BY <1>2
<1>4. ASSUME NEW T \in SUBSET S, NEW x \in S \ T, T \in G PROVE T \cup {x} \in G
  <2>1. /\ F(T \cup {x}) = f[x] + F(T) /\ E(T \cup {x}) = g[x] + E(T)
        /\ H(T \cup {x}) = h[x] + H(T) /\ H(T) = F(T) + E(T)
        /\ F(T) \in Int /\ E(T) \in Int /\ f[x] \in Int /\ g[x] \in Int /\ h[x] = f[x] + g[x]
    BY <1>2, <1>4
  <2>2. H(T \cup {x}) = F(T \cup {x}) + E(T \cup {x})
    BY <2>1
  <2> QED
    BY <2>2
<1>5. S \in G
  <2> HIDE DEF G
  <2> QED
    BY <1>3, <1>4, SetInduction
<1> QED
  BY <1>5 DEF F, E, H

\* A sum of greater terms is no less.
LEMMA SumGrows ==
    ASSUME NEW S, IsFiniteSet(S), NEW f, NEW g,
           \A x \in S : f[x] \in Int /\ g[x] \in Int /\ f[x] <= g[x]
    PROVE  SumFunctionOnSet(f, S) <= SumFunctionOnSet(g, S)
<1> DEFINE F(T) == SumFunctionOnSet(f, T)
           E(T) == SumFunctionOnSet(g, T)
           G == {T \in SUBSET S : F(T) <= E(T)}
<1>2. /\ \A T \in SUBSET S : F(T) \in Int /\ E(T) \in Int
      /\ F({}) = 0 /\ E({}) = 0
      /\ \A T \in SUBSET S : \A x \in S \ T :
            F(T \cup {x}) = f[x] + F(T) /\ E(T \cup {x}) = g[x] + E(T)
  BY SumAll
<1> HIDE DEF F, E
<1>3. {} \in G
  BY <1>2
<1>4. ASSUME NEW T \in SUBSET S, NEW x \in S \ T, T \in G PROVE T \cup {x} \in G
  <2>1. /\ F(T \cup {x}) = f[x] + F(T) /\ E(T \cup {x}) = g[x] + E(T)
        /\ F(T) <= E(T)
        /\ F(T) \in Int /\ E(T) \in Int /\ f[x] \in Int /\ g[x] \in Int /\ f[x] <= g[x]
    BY <1>2, <1>4
  <2>2. F(T \cup {x}) <= E(T \cup {x})
    BY <2>1
  <2> QED
    BY <2>2
<1>5. S \in G
  <2> HIDE DEF G
  <2> QED
    BY <1>3, <1>4, SetInduction
<1> QED
  BY <1>5 DEF F, E

\* Sums over disjoint sets add up.
LEMMA SumOfParts ==
    ASSUME NEW A, IsFiniteSet(A), NEW B, IsFiniteSet(B), A \cap B = {},
           NEW f, \A x \in A \cup B : f[x] \in Int
    PROVE  SumFunctionOnSet(f, A \cup B) = SumFunctionOnSet(f, A) + SumFunctionOnSet(f, B)
<1> DEFINE F(T) == SumFunctionOnSet(f, T)
           G == {T \in SUBSET B : F(A \cup T) = F(A) + F(T)}
<1>1. IsFiniteSet(A \cup B)
  BY FS_Union
<1>2. /\ \A T \in SUBSET (A \cup B) : F(T) \in Int
      /\ F({}) = 0
      /\ \A T \in SUBSET (A \cup B) : \A x \in (A \cup B) \ T : F(T \cup {x}) = f[x] + F(T)
  BY <1>1, SumAll
<1> HIDE DEF F
<1>3. {} \in G
  <2>1. A \cup {} = A /\ F(A) \in Int
    BY <1>2
  <2> QED
    BY <1>2, <2>1
<1>4. ASSUME NEW T \in SUBSET B, NEW x \in B \ T, T \in G PROVE T \cup {x} \in G
  <2>1. /\ A \cup T \in SUBSET (A \cup B) /\ x \in (A \cup B) \ (A \cup T)
        /\ T \in SUBSET (A \cup B) /\ x \in (A \cup B) \ T
        /\ (A \cup T) \cup {x} = A \cup (T \cup {x})
    OBVIOUS
  <2>2. F(A \cup (T \cup {x})) = f[x] + F(A \cup T)
    BY <1>2, <2>1
  <2>3. /\ F(T \cup {x}) = f[x] + F(T) /\ F(A \cup T) = F(A) + F(T)
        /\ F(T) \in Int /\ F(A) \in Int /\ f[x] \in Int
    BY <1>2, <1>4, <2>1
  <2>4. F(A \cup (T \cup {x})) = F(A) + F(T \cup {x})
    BY <2>2, <2>3
  <2> QED
    BY <2>4
<1>5. B \in G
  <2> HIDE DEF G
  <2> QED
    BY <1>3, <1>4, SetInduction
<1> QED
  BY <1>5 DEF F

\* The members of S that belong to t.
Fibre(h, S, t) == {x \in S : h[x] = t}

\* Summed part by part, a sum is the same.
LEMMA SumOfFibres ==
    ASSUME NEW S, IsFiniteSet(S), NEW T, IsFiniteSet(T), NEW h, \A x \in S : h[x] \in T,
           NEW w, \A x \in S : w[x] \in Int,
           NEW v, \A t \in T : v[t] = SumFunctionOnSet(w, Fibre(h, S, t))
    PROVE  SumFunctionOnSet(v, T) = SumFunctionOnSet(w, S)
<1> DEFINE V(U) == SumFunctionOnSet(v, U)
           W(U) == SumFunctionOnSet(w, U)
           Over(U) == {x \in S : h[x] \in U}
           G == {U \in SUBSET T : V(U) = W(Over(U))}
<1>0. W({}) = 0 /\ \A U \in SUBSET S : W(U) \in Int
  BY SumAll
<1>1. ASSUME NEW t \in T PROVE v[t] \in Int /\ v[t] = W({x \in S : h[x] = t})
  <2>1. {x \in S : h[x] = t} \in SUBSET S
    OBVIOUS
  <2> HIDE DEF W
  <2>2. W({x \in S : h[x] = t}) \in Int
    BY <1>0, <2>1
  <2>3. v[t] = W({x \in S : h[x] = t})
    BY DEF W, Fibre
  <2> QED
    BY <2>2, <2>3
<1>2. /\ V({}) = 0 /\ W({}) = 0
      /\ \A U \in SUBSET T : \A t \in T \ U : V(U \cup {t}) = v[t] + V(U)
  <2>1. \A t \in T : v[t] \in Int
    BY <1>1
  <2>2. /\ V({}) = 0
        /\ \A U \in SUBSET T : \A t \in T \ U : V(U \cup {t}) = v[t] + V(U)
    BY <2>1, SumAll
  <2> QED
    BY <1>0, <2>2
<1>3. ASSUME NEW U \in SUBSET T, NEW t \in T \ U
      PROVE  /\ W(Over(U \cup {t})) = W(Over(U)) + v[t]
             /\ W(Over(U)) \in Int
  <2>1. /\ Over(U) \in SUBSET S /\ {x \in S : h[x] = t} \in SUBSET S
        /\ Over(U) \cap {x \in S : h[x] = t} = {}
        /\ Over(U \cup {t}) = Over(U) \cup {x \in S : h[x] = t}
    OBVIOUS
  <2>2. IsFiniteSet(Over(U)) /\ IsFiniteSet({x \in S : h[x] = t})
    BY <2>1, FS_Subset
  <2>3. \A x \in Over(U) \cup {x \in S : h[x] = t} : w[x] \in Int
    OBVIOUS
  <2>4. W(Over(U) \cup {x \in S : h[x] = t}) = W(Over(U)) + W({x \in S : h[x] = t})
    <3> HIDE DEF Over
    <3> QED
      BY <2>1, <2>2, <2>3, SumOfParts
  <2>5. W(Over(U)) \in Int
    <3> HIDE DEF Over
    <3> QED
      BY <2>1, SumAll
  <2> QED
    BY <1>1, <2>1, <2>4, <2>5
<1>4. Over({}) = {} /\ Over(T) = S
  OBVIOUS
<1> HIDE DEF V, W, Over
<1>5. {} \in G
  BY <1>2, <1>4
<1>6. ASSUME NEW U \in SUBSET T, NEW t \in T \ U, U \in G PROVE U \cup {t} \in G
  <2>1. V(U \cup {t}) = W(Over(U \cup {t}))
    <3>1. V(U \cup {t}) = v[t] + V(U) /\ V(U) = W(Over(U)) /\ v[t] \in Int
      BY <1>1, <1>2, <1>6
    <3> QED
      BY <1>3, <3>1
  <2> QED
    BY <2>1
<1>7. T \in G
  <2> HIDE DEF G
  <2> QED
    BY <1>5, <1>6, SetInduction
<1> QED
  BY <1>4, <1>7 DEF V, W

\* A sum of ones is a count ...
LEMMA SumOfOnes ==
    ASSUME NEW S, IsFiniteSet(S), NEW f, \A x \in S : f[x] = 1
    PROVE  SumFunctionOnSet(f, S) = Cardinality(S)
<1> DEFINE F(T) == SumFunctionOnSet(f, T)
           G == {T \in SUBSET S : F(T) = Cardinality(T)}
<1>1. /\ F({}) = 0
      /\ \A T \in SUBSET S : \A x \in S \ T : F(T \cup {x}) = f[x] + F(T)
  BY SumAll
<1> HIDE DEF F
<1>2. {} \in G
  BY <1>1, FS_EmptySet
<1>3. ASSUME NEW T \in SUBSET S, NEW x \in S \ T, T \in G PROVE T \cup {x} \in G
  <2>1. IsFiniteSet(T) /\ Cardinality(T) \in Nat
    BY FS_Subset, FS_CardinalityType
  <2>2. Cardinality(T \cup {x}) = Cardinality(T) + 1
    BY <2>1, FS_AddElement
  <2>3. F(T \cup {x}) = 1 + F(T) /\ F(T) = Cardinality(T)
    BY <1>1, <1>3
  <2>4. F(T \cup {x}) = Cardinality(T \cup {x})
    BY <2>1, <2>2, <2>3
  <2> QED
    BY <2>4
<1>4. S \in G
  <2> HIDE DEF G
  <2> QED
    BY <1>2, <1>3, SetInduction
<1> QED
  BY <1>4 DEF F

\* ... so counts of parts add up.
LEMMA CountOfFibres ==
    ASSUME NEW S, IsFiniteSet(S), NEW T, IsFiniteSet(T), NEW h, \A x \in S : h[x] \in T,
           NEW v, \A t \in T : v[t] = Cardinality(Fibre(h, S, t))
    PROVE  SumFunctionOnSet(v, T) = Cardinality(S)
<1> DEFINE w == [x \in S |-> 1]
<1>1. \A x \in S : w[x] = 1 /\ w[x] \in Int
  OBVIOUS
<1> HIDE DEF w
<1>2. ASSUME NEW t \in T PROVE v[t] = SumFunctionOnSet(w, Fibre(h, S, t))
  <2> DEFINE fibre == Fibre(h, S, t)
  <2>1. IsFiniteSet(fibre) /\ \A x \in fibre : w[x] = 1
    <3>1. fibre \in SUBSET S
      BY DEF Fibre
    <3> HIDE DEF fibre
    <3> QED
      BY <1>1, <3>1, FS_Subset
  <2> HIDE DEF fibre
  <2>2. SumFunctionOnSet(w, fibre) = Cardinality(fibre)
    BY <2>1, SumOfOnes
  <2> QED
    BY <2>2 DEF fibre
<1>3. SumFunctionOnSet(v, T) = SumFunctionOnSet(w, S)
  <2>1. \A t \in T : v[t] = SumFunctionOnSet(w, Fibre(h, S, t))
    BY <1>2
  <2>2. \A x \in S : w[x] \in Int
    BY <1>1
  <2> QED
    BY <2>1, <2>2, SumOfFibres
<1> QED
  BY <1>1, <1>3, SumOfOnes

\* A function has no more values than arguments.
LEMMA ImageOf ==
    ASSUME NEW h, IsFiniteSet(DOMAIN h)
    PROVE  IsFiniteSet(Range(h)) /\ Cardinality(Range(h)) <= Cardinality(DOMAIN h)
<1> DEFINE S == DOMAIN h
           T == Range(h)
           f == [x \in S |-> h[x]]
<1>1. f \in Surjection(S, T)
  BY DEF Surjection, Range
<1> HIDE DEF f, S, T
<1>2. IsFiniteSet(S)
  BY DEF S
<1> QED
  BY <1>1, <1>2, FS_Surjection DEF S, T

\* A table of items, one for each key, whose numbers are sums over the entries
\* of that key, sums up to the sum over all entries.
LEMMA SumOfTable ==
    ASSUME NEW S, IsFiniteSet(S), NEW key, DOMAIN key = S, NEW w, \A x \in S : w[x] \in Int,
           NEW item, \A x, y \in S : item[key[x]] = item[key[y]] => key[x] = key[y],
           NEW T, T = {item[key[x]] : x \in S},
           NEW v, \A x \in S : v[item[key[x]]] = SumFunctionOnSet(w, Fibre(key, S, key[x]))
    PROVE  SumFunctionOnSet(v, T) = SumFunctionOnSet(w, S)
<1> DEFINE h == [x \in S |-> item[key[x]]]
<1>1. DOMAIN h = S /\ T = {h[x] : x \in S} /\ \A x \in S : h[x] \in T
  OBVIOUS
<1>2. \A x \in S : Fibre(h, S, h[x]) = Fibre(key, S, key[x])
  BY DEF Fibre
<1>3. \A x \in S : h[x] = item[key[x]]
  OBVIOUS
<1> HIDE DEF h
<1>4. IsFiniteSet(T)
  <2>1. T = Range(h)
    BY <1>1 DEF Range
  <2> QED
    BY <1>1, <2>1, ImageOf
<1>5. \A t \in T : v[t] = SumFunctionOnSet(w, Fibre(h, S, t))
  <2>1. ASSUME NEW x \in S PROVE v[h[x]] = SumFunctionOnSet(w, Fibre(h, S, h[x]))
    BY <1>2, <1>3
  <2> SUFFICES ASSUME NEW t \in T PROVE v[t] = SumFunctionOnSet(w, Fibre(h, S, t))
    OBVIOUS
  <2>2. PICK x \in S : t = h[x]
    BY <1>1
  <2> QED
    BY <2>1, <2>2
<1> QED
  BY <1>1, <1>4, <1>5, SumOfFibres

\* The same of counts.
LEMMA CountOfTable ==
    ASSUME NEW S, IsFiniteSet(S), NEW key, DOMAIN key = S,
           NEW item, \A x, y \in S : item[key[x]] = item[key[y]] => key[x] = key[y],
           NEW T, T = {item[key[x]] : x \in S},
           NEW v, \A x \in S : v[item[key[x]]] = Cardinality(Fibre(key, S, key[x]))
    PROVE  SumFunctionOnSet(v, T) = Cardinality(S)
<1> DEFINE h == [x \in S |-> item[key[x]]]
<1>1. DOMAIN h = S /\ T = {h[x] : x \in S} /\ \A x \in S : h[x] \in T
  OBVIOUS
<1>2. \A x \in S : Fibre(h, S, h[x]) = Fibre(key, S, key[x])
  BY DEF Fibre
<1>3. \A x \in S : h[x] = item[key[x]]
  OBVIOUS
<1> HIDE DEF h
<1>4. IsFiniteSet(T)
  <2>1. T = Range(h)
    BY <1>1 DEF Range
  <2> QED
    BY <1>1, <2>1, ImageOf
<1>5. \A t \in T : v[t] = Cardinality(Fibre(h, S, t))
  <2>1. ASSUME NEW x \in S PROVE v[h[x]] = Cardinality(Fibre(h, S, h[x]))
    BY <1>2, <1>3
  <2> SUFFICES ASSUME NEW t \in T PROVE v[t] = Cardinality(Fibre(h, S, t))
    OBVIOUS
  <2>2. PICK x \in S : t = h[x]
    BY <1>1
  <2> QED
    BY <2>1, <2>2
<1> QED
  BY <1>1, <1>4, <1>5, CountOfFibres

\* Two counts that do not overlap stay below the number of positions.
LEMMA Disjoint ==
    ASSUME NEW S, IsFiniteSet(S), NEW A \in SUBSET S, NEW B \in SUBSET S, A \cap B = {}
    PROVE  /\ Cardinality(A) \in Nat /\ Cardinality(B) \in Nat /\ Cardinality(S) \in Nat
           /\ Cardinality(A \cup B) = Cardinality(A) + Cardinality(B)
           /\ Cardinality(A \cup B) <= Cardinality(S)
<1>1. IsFiniteSet(A) /\ IsFiniteSet(B) /\ IsFiniteSet(A \cup B) /\ A \cup B \in SUBSET S
  BY FS_Subset
<1>2. Cardinality(A \cap B) = 0
  BY FS_EmptySet
<1>3. Cardinality(A) \in Nat /\ Cardinality(B) \in Nat /\ Cardinality(S) \in Nat
  BY <1>1, FS_CardinalityType
<1>4. Cardinality(A \cup B) = Cardinality(A) + Cardinality(B) - Cardinality(A \cap B)
  BY <1>1, FS_Union
<1>5. Cardinality(A \cup B) <= Cardinality(S)
  BY <1>1, FS_Subset
<1> QED
  BY <1>2, <1>3, <1>4, <1>5

\* Quotient and remainder.
LEMMA Division ==
    ASSUME NEW n \in Int, NEW d \in Nat \ {0}
    PROVE  /\ n \div d \in Int /\ n % d \in 0 .. d - 1
           /\ n = d * (n \div d) + (n % d)
<1>1. n \div d \in Int
  OBVIOUS
<1>2. n % d \in 0 .. d - 1
  OBVIOUS
<1>3. n = d * (n \div d) + (n % d)
  OBVIOUS
<1> QED
  BY <1>1, <1>2, <1>3

\* Products grow with their factors ...
LEMMA TimesGrows ==
    ASSUME NEW a \in Int, NEW b \in Int, NEW d \in Nat, a <= b
    PROVE  d * a <= d * b
  OBVIOUS

\* ... step by step.
LEMMA TimesNext ==
    ASSUME NEW k \in Int, NEW d \in Nat
    PROVE  d * k \in Int /\ d * (k + 1) = d * k + d /\ (d + 1) * k = d * k + k /\ 0 * k = 0
  OBVIOUS

\* A sum of equal terms is a product.
LEMMA SumOfSame ==
    ASSUME NEW S, IsFiniteSet(S), NEW k \in Int, NEW f, \A x \in S : f[x] = k
    PROVE  SumFunctionOnSet(f, S) = Cardinality(S) * k
<1> DEFINE F(T) == SumFunctionOnSet(f, T)
           G == {T \in SUBSET S : F(T) = Cardinality(T) * k}
<1>1. /\ F({}) = 0
      /\ \A T \in SUBSET S : \A x \in S \ T : F(T \cup {x}) = f[x] + F(T)
  BY SumAll
<1> HIDE DEF F
<1>2. {} \in G
  BY <1>1, FS_EmptySet
<1>3. ASSUME NEW T \in SUBSET S, NEW x \in S \ T, T \in G PROVE T \cup {x} \in G
  <2>1. IsFiniteSet(T)
    BY FS_Subset
  <2>2. Cardinality(T \cup {x}) = Cardinality(T) + 1 /\ Cardinality(T) \in Nat
    BY <2>1, FS_AddElement, FS_CardinalityType
  <2>3. F(T \cup {x}) = k + Cardinality(T) * k
    BY <1>1, <1>3
  <2> DEFINE c == Cardinality(T)
  <2>4. (c + 1) * k = c * k + k /\ c * k \in Int
    <3> HIDE DEF c
    <3>1. c \in Nat
      BY <2>2 DEF c
    <3> QED
      BY <3>1, TimesNext
  <2> QED
    BY <2>2, <2>3, <2>4
<1> HIDE DEF G
<1>4. S \in G
  BY <1>2, <1>3, SetInduction
<1> QED
  BY <1>4 DEF G, F

\* A finite set of numbers has a greatest one.
LEMMA Greatest ==
    ASSUME NEW S \in SUBSET Nat, IsFiniteSet(S), S # {}
    PROVE  Max(S) \in S /\ \A y \in S : y <= Max(S)
<1> DEFINE G == {T \in SUBSET S : T # {} => \E x \in T : \A y \in T : y <= x}
<1>1. {} \in G
  OBVIOUS
<1>2. ASSUME NEW T \in SUBSET S, NEW x \in S \ T, T \in G PROVE T \cup {x} \in G
  <2>1. CASE T = {}
    BY <2>1
  <2>2. CASE T # {}
    <3>1. PICK m \in T : \A y \in T : y <= m
      BY <1>2, <2>2
    <3>2. CASE x <= m
      BY <3>1, <3>2
    <3>3. CASE ~(x <= m)
      <4>1. \A y \in T \cup {x} : y <= x
        BY <3>1, <3>3
      <4> QED
        BY <4>1
    <3> QED
      BY <3>2, <3>3
  <2> QED
    BY <2>1, <2>2
<1> HIDE DEF G
<1>3. S \in G
  BY <1>1, <1>2, SetInduction
<1>4. \E x \in S : \A y \in S : y <= x
  BY <1>3 DEF G
<1>5. \E x \in S : \A y \in S : x >= y
  BY <1>4
<1>6. Max(S) \in S /\ \A y \in S : Max(S) >= y
  BY <1>5 DEF Max
<1> QED
  BY <1>6

\* The positions of the second of two lists behind the first.
LEMMA SecondPart ==
    ASSUME NEW V, NEW a \in Seq(V), NEW b \in Seq(V)
    PROVE  /\ a \o b \in Seq(V) /\ Len(a \o b) = Len(a) + Len(b)
           /\ \A i \in 1 .. Len(a) : i \in DOMAIN (a \o b) /\ (a \o b)[i] = a[i]
           /\ \A i \in 1 .. Len(b) : Len(a) + i \in DOMAIN (a \o b) /\ (a \o b)[Len(a) + i] = b[i]
OBVIOUS

\* A list that is a table over positions.
LEMMA SeqIs ==
    ASSUME NEW n \in Nat, NEW f, DOMAIN f = 1 .. n, f = [i \in 1 .. n |-> f[i]]
    PROVE  f \in Seq(Range(f)) /\ Len(f) = n
<1>1. f \in [1 .. n -> Range(f)]
  BY DEF Range
<1> QED
  BY <1>1

\* Ranks that tell the members of a set apart and stay below its size are
\* all the numbers below its size, so that many have a rank below a bound.
First(S, r, c) == {x \in S : r[x] < c}

\* Of so many the rank is below a bound.
LEMMA FirstOf ==
    ASSUME NEW S, IsFiniteSet(S), NEW r \in [S -> Nat],
           \A x, y \in S : r[x] = r[y] => x = y,
           \A x \in S : r[x] < Cardinality(S), NEW c \in Nat
    PROVE  Cardinality(First(S, r, c)) = IF c < Cardinality(S) THEN c ELSE Cardinality(S)
<1> DEFINE n == Cardinality(S)
           few == {x \in S : r[x] < c}
<1> SUFFICES Cardinality(few) = IF c < n THEN c ELSE n
  BY DEF First
<1>1. n \in Nat
  BY FS_CardinalityType
<1>2. CASE n <= c
  <2>1. few = S
    BY <1>1, <1>2
  <2> HIDE DEF few
  <2>2. Cardinality(few) = n
    BY <2>1
  <2> QED
    BY <1>1, <1>2, <2>2 DEF few
<1>3. CASE c < n
  <2>1. IsFiniteSet(0 .. n - 1) /\ Cardinality(0 .. n - 1) = n
    <3> HIDE DEF n
    <3>1. n - 1 \in Int /\ ~(0 > n - 1) /\ (n - 1) - 0 + 1 = n
      BY <1>1, <1>3
    <3> QED
      BY <3>1, FS_Interval
  <2>2. r \in Injection(S, 0 .. n - 1)
    <3>1. r \in [S -> 0 .. n - 1]
      BY <1>1
    <3> QED
      BY <3>1 DEF Injection, IsInjective
  <2>3. r \in Surjection(S, 0 .. n - 1)
    <3> HIDE DEF n
    <3>1. Cardinality(S) = Cardinality(0 .. n - 1)
      BY <2>1 DEF n
    <3> QED
      BY <2>1, <2>2, <3>1, FS_Injection
  <2> DEFINE f == [x \in few |-> r[x]]
  <2>4. f \in Bijection(few, 0 .. c - 1)
    <3>1. f \in [few -> 0 .. c - 1]
      OBVIOUS
    <3>2. \A x, y \in few : f[x] = f[y] => x = y
      OBVIOUS
    <3>3. \A k \in 0 .. c - 1 : \E x \in few : f[x] = k
      <4> SUFFICES ASSUME NEW k \in 0 .. c - 1 PROVE \E x \in few : f[x] = k
        OBVIOUS
      <4>1. k \in 0 .. n - 1
        BY <1>1, <1>3
      <4>2. PICK x \in S : r[x] = k
        BY <2>3, <4>1 DEF Surjection
      <4> QED
        BY <4>2
    <3> HIDE DEF f, few
    <3> QED
      BY <3>1, <3>2, <3>3 DEF Bijection, Injection, Surjection, IsInjective
  <2>5. IsFiniteSet(few)
    <3>1. few \in SUBSET S
      OBVIOUS
    <3> HIDE DEF few
    <3> QED
      BY <3>1, FS_Subset
  <2> HIDE DEF f, few
  <2>6. Cardinality(few) = Cardinality(0 .. c - 1)
    BY <2>4, <2>5, FS_Bijection DEF ExistsBijection
  <2>7. Cardinality(0 .. c - 1) = c
    BY FS_Interval
  <2>8. Cardinality(few) = c
    BY <2>6, <2>7
  <2> QED
    BY <1>3, <2>8 DEF few
<1> QED
  BY <1>1, <1>2, <1>3

\* What is read of one zone adds to what was read of others.
LEMMA InjectiveConcat ==
    ASSUME NEW S, NEW s \in Seq(S), NEW t \in Seq(S), IsInjective(s), IsInjective(t),
           ToSet(s) \cap ToSet(t) = {}
    PROVE  IsInjective(s \o t)
<1> DEFINE n == Len(s)
           m == Len(t)
           u == s \o t
<1>1. /\ n \in Nat /\ m \in Nat /\ DOMAIN s = 1 .. n /\ DOMAIN t = 1 .. m
      /\ u \in Seq(S) /\ Len(u) = n + m
      /\ \A i \in 1 .. n + m : u[i] = IF i <= n THEN s[i] ELSE t[i - n]
  BY LenProperties, ConcatProperties
<1>2. DOMAIN u = 1 .. n + m
  BY <1>1, LenProperties
<1>3. /\ \A i \in 1 .. n : s[i] \in ToSet(s)
      /\ \A i \in 1 .. m : t[i] \in ToSet(t)
  BY EntryOf
<1> HIDE DEF n, m, u
<1>4. ASSUME NEW i \in 1 .. n + m
      PROVE  \/ i \in 1 .. n /\ u[i] = s[i] /\ u[i] \in ToSet(s)
             \/ i - n \in 1 .. m /\ u[i] = t[i - n] /\ u[i] \in ToSet(t)
  <2>1. CASE i <= n
    BY <1>1, <1>3, <2>1
  <2>2. CASE ~(i <= n)
    <3>1. i - n \in 1 .. m
      BY <1>1, <2>2
    <3> QED
      BY <1>1, <1>3, <2>2, <3>1
  <2> QED
    BY <2>1, <2>2
<1>5. ASSUME NEW i \in 1 .. n + m, NEW k \in 1 .. n + m, u[i] = u[k] PROVE i = k
  <2>1. CASE i \in 1 .. n /\ u[i] = s[i] /\ u[i] \in ToSet(s)
    <3>1. k \in 1 .. n /\ u[k] = s[k]
      BY <1>4, <1>5, <2>1
    <3> QED
      BY <1>1, <1>5, <2>1, <3>1 DEF IsInjective
  <2>2. CASE i - n \in 1 .. m /\ u[i] = t[i - n] /\ u[i] \in ToSet(t)
    <3>1. k - n \in 1 .. m /\ u[k] = t[k - n]
      BY <1>4, <1>5, <2>2
    <3>2. i - n = k - n
      BY <1>1, <1>5, <2>2, <3>1 DEF IsInjective
    <3> QED
      BY <1>1, <3>2
  <2> QED
    BY <1>4, <2>1, <2>2
<1> QED
  BY <1>2, <1>5 DEF IsInjective, u

-----------------------------------------------------------------------------
(* The tallies.                                                            *)

\* What has been read are sequences of entries.
GotTyped == got \in [Lists -> Seq(AllIds)]

\* The rows of a list by their positions.
LEMMA RowsIs ==
    ASSUME GotTyped, NEW l \in Lists
    PROVE  /\ DOMAIN Rows(l) = 1 .. Len(got[l]) /\ Len(got[l]) \in Nat
           /\ IsFiniteSet(DOMAIN Rows(l)) /\ Cardinality(DOMAIN Rows(l)) = Len(got[l])
           /\ \A i \in DOMAIN Rows(l) : got[l][i] \in ToSet(got[l]) /\ Rows(l)[i] = Row(l, got[l][i])
<1>1. got[l] \in Seq(AllIds) /\ Len(got[l]) \in Nat /\ DOMAIN got[l] = 1 .. Len(got[l])
  BY LenProperties DEF GotTyped
<1>2. DOMAIN Rows(l) = 1 .. Len(got[l]) /\ \A i \in 1 .. Len(got[l]) : Rows(l)[i] = Row(l, got[l][i])
  BY <1>1 DEF Rows, RowsOf
<1>3. IsFiniteSet(1 .. Len(got[l])) /\ Cardinality(1 .. Len(got[l])) = Len(got[l])
  BY <1>1, FS_Interval
<1>4. \A i \in 1 .. Len(got[l]) : got[l][i] \in ToSet(got[l])
  BY <1>1 DEF ToSet
<1> QED
  BY <1>1, <1>2, <1>3, <1>4

\* The groups of the switch page count every switch read, once.
LEMMA GroupsTally == ASSUME GotTyped PROVE GroupsAddUp
<1> DEFINE list == Rows("switch")
           S == DOMAIN list
           T == GroupItems(list)
           v == [g \in T |-> g.switches]
           key == [i \in S |-> list[i].group]
           entry(g) == [id |-> g, switches |-> Cardinality({i \in S : list[i].group = g})]
           item == [g \in {key[i] : i \in S} |-> entry(g)]
<1>1. IsFiniteSet(S) /\ Cardinality(S) = Len(got["switch"])
  BY RowsIs DEF Lists
<1> HIDE DEF list
<1>2. T = {entry(list[i].group) : i \in S}
  <2>1. ASSUME NEW t \in T PROVE \E i \in S : t = entry(list[i].group)
    BY DEF GroupItems, Values, Many, Size, RestrictValues, Restrict
  <2>2. ASSUME NEW i \in S PROVE entry(list[i].group) \in T
    BY DEF GroupItems, Values, Many, Size, RestrictValues, Restrict
  <2> HIDE DEF entry, T
  <2> QED
    BY <2>1, <2>2
<1>3. ASSUME NEW x \in S
      PROVE  /\ item[key[x]] = entry(list[x].group)
             /\ item[key[x]].id = key[x]
             /\ item[key[x]].switches = Cardinality(Fibre(key, S, key[x]))
  <2>1. item[key[x]] = entry(list[x].group) /\ key[x] = list[x].group
    OBVIOUS
  <2>2. Fibre(key, S, key[x]) = {i \in S : list[i].group = list[x].group}
    BY DEF Fibre
  <2> QED
    BY <2>1, <2>2
<1> HIDE DEF item, T, entry
<1>4. ASSUME NEW x \in S PROVE v[item[key[x]]] = Cardinality(Fibre(key, S, key[x]))
  BY <1>2, <1>3
<1>5. DOMAIN key = S /\ \A x, y \in S : item[key[x]] = item[key[y]] => key[x] = key[y]
  <2>1. DOMAIN key = S
    OBVIOUS
  <2> HIDE DEF key
  <2> QED
    BY <1>3, <2>1
<1>6. T = {item[key[x]] : x \in S}
  <2>1. \A x \in S : item[key[x]] = entry(list[x].group)
    BY <1>3
  <2> HIDE DEF key, S
  <2> QED
    BY <1>2, <2>1
<1>7. SumFunctionOnSet(v, T) = Cardinality(S)
  <2> HIDE DEF v, key, S
  <2> QED
    BY <1>1, <1>4, <1>5, <1>6, CountOfTable
<1>8. SumOf(T, LAMBDA g : g.switches) = SumFunctionOnSet(v, T)
  BY DEF SumOf, SumFunction
<1> QED
  BY <1>1, <1>7, <1>8 DEF GroupsAddUp, list, T

\* So do the sites every WLAN read.
LEMMA SitesTally == ASSUME GotTyped PROVE SitesAddUp
<1> DEFINE wlans == Rows("wlan")
           clients == Rows("client")
           S == DOMAIN wlans
           T == SiteItems(wlans, clients)
           v == [s \in T |-> s.wlans]
           key == [i \in S |-> Site(wlans[i])]
           own(s) == {i \in S : Site(wlans[i]) = s}
           met(s) == Cardinality({i \in DOMAIN clients : Home(clients[i], wlans) = s})
           listed(s) == SumFunction([i \in own(s) |-> wlans[i].clients])
           entry(s) == [id |-> s, wlans |-> Cardinality(own(s)),
                        clients |-> IF met(s) > listed(s) THEN met(s) ELSE listed(s)]
           item == [s \in {key[i] : i \in S} |-> entry(s)]
<1>1. IsFiniteSet(S) /\ Cardinality(S) = Len(got["wlan"])
  BY RowsIs DEF Lists
<1> HIDE DEF wlans, clients
<1>2. T = {entry(Site(wlans[i])) : i \in S}
  <2>1. ASSUME NEW t \in T PROVE \E i \in S : t = entry(Site(wlans[i]))
    BY DEF SiteItems, Values, Many, Size, RestrictValues, Restrict, Sum
  <2>2. ASSUME NEW i \in S PROVE entry(Site(wlans[i])) \in T
    BY DEF SiteItems, Values, Many, Size, RestrictValues, Restrict, Sum
  <2> HIDE DEF entry, T
  <2> QED
    BY <2>1, <2>2
<1>3. ASSUME NEW x \in S
      PROVE  /\ item[key[x]] = entry(Site(wlans[x]))
             /\ item[key[x]].id = key[x]
             /\ item[key[x]].wlans = Cardinality(Fibre(key, S, key[x]))
  <2>1. item[key[x]] = entry(Site(wlans[x])) /\ key[x] = Site(wlans[x])
    OBVIOUS
  <2>2. Fibre(key, S, key[x]) = own(Site(wlans[x]))
    BY DEF Fibre
  <2> HIDE DEF own, met, listed
  <2> QED
    BY <2>1, <2>2
<1> HIDE DEF item, T, entry
<1>4. ASSUME NEW x \in S PROVE v[item[key[x]]] = Cardinality(Fibre(key, S, key[x]))
  BY <1>2, <1>3
<1>5. DOMAIN key = S /\ \A x, y \in S : item[key[x]] = item[key[y]] => key[x] = key[y]
  <2>1. DOMAIN key = S
    OBVIOUS
  <2> HIDE DEF key
  <2> QED
    BY <1>3, <2>1
<1>6. T = {item[key[x]] : x \in S}
  <2>1. \A x \in S : item[key[x]] = entry(Site(wlans[x]))
    BY <1>3
  <2> HIDE DEF key, S
  <2> QED
    BY <1>2, <2>1
<1>7. SumFunctionOnSet(v, T) = Cardinality(S)
  <2> HIDE DEF v, key, S
  <2> QED
    BY <1>1, <1>4, <1>5, <1>6, CountOfTable
<1>8. SumOf(T, LAMBDA s : s.wlans) = SumFunctionOnSet(v, T)
  BY DEF SumOf, SumFunction
<1> QED
  BY <1>1, <1>7, <1>8 DEF SitesAddUp, wlans, clients, T

\* The VLANs account for the ports of every row.
LEMMA VlansTally ==
    ASSUME GotTyped, \A i \in DOMAIN Rows("vlan") : Rows("vlan")[i].ports \in Int
    PROVE  VlansAddUp
<1> DEFINE list == Rows("vlan")
           S == DOMAIN list
           T == VlanItems(list)
           v == [t \in T |-> t.ports]
           w == [i \in S |-> list[i].ports]
           key == [i \in S |-> list[i].vlan]
           own(n) == {i \in S : list[i].vlan = n}
           of(n) == [i \in own(n) |-> list[i]]
           entry(n) == [id |-> n, ports |-> SumFunction([i \in DOMAIN of(n) |-> of(n)[i].ports]),
                        members |-> {of(n)[i].group : i \in DOMAIN of(n)} \ {None}]
           item == [n \in {key[i] : i \in S} |-> entry(n)]
<1>1. IsFiniteSet(S) /\ \A i \in S : w[i] \in Int
  BY RowsIs DEF Lists
<1> HIDE DEF list
<1>2. T = {entry(list[i].vlan) : i \in S}
  <2>0. ASSUME NEW t \in T
        PROVE  \E n \in {list[i].vlan : i \in S} : t = entry(n)
    BY Zenon DEF VlanItems, Values, RestrictValues, Restrict, Sum
  <2>1. ASSUME NEW t \in T PROVE \E i \in S : t = entry(list[i].vlan)
    <3> HIDE DEF entry, T
    <3> QED
      BY <2>0
  <2>2. ASSUME NEW i \in S PROVE entry(list[i].vlan) \in T
    BY DEF VlanItems, Values, RestrictValues, Restrict, Sum
  <2> HIDE DEF entry, T
  <2> QED
    BY <2>1, <2>2
<1>3. ASSUME NEW x \in S
      PROVE  /\ item[key[x]] = entry(list[x].vlan)
             /\ item[key[x]].id = key[x]
             /\ item[key[x]].ports = SumFunctionOnSet(w, Fibre(key, S, key[x]))
  <2>1. item[key[x]] = entry(list[x].vlan) /\ key[x] = list[x].vlan
    OBVIOUS
  <2>2. Fibre(key, S, key[x]) = own(list[x].vlan)
    BY DEF Fibre
  <2> DEFINE mine == own(list[x].vlan)
             f == [i \in mine |-> list[i].ports]
  <2>3. IsFiniteSet(mine) /\ \A i \in mine : f[i] \in Int /\ f[i] = w[i]
    <3>1. mine \in SUBSET S /\ \A i \in mine : f[i] = w[i]
      OBVIOUS
    <3> HIDE DEF mine, f
    <3> QED
      BY <1>1, <3>1, FS_Subset
  <2>4. SumFunction(f) = SumFunctionOnSet(f, mine)
    BY DEF SumFunction
  <2>5. entry(list[x].vlan).ports = SumFunction(f) /\ entry(list[x].vlan).id = list[x].vlan
    <3>1. f = [i \in DOMAIN of(list[x].vlan) |-> of(list[x].vlan)[i].ports]
      OBVIOUS
    <3> HIDE DEF of, f
    <3> QED
      BY <3>1
  <2> HIDE DEF mine, f, w, entry
  <2>6. SumFunctionOnSet(f, mine) = SumFunctionOnSet(w, mine)
    BY <2>3, SumSame
  <2>7. Fibre(key, S, key[x]) = mine
    BY <2>2 DEF mine
  <2> QED
    BY <2>1, <2>7, <2>4, <2>5, <2>6
<1> HIDE DEF item, T, entry
<1>4. ASSUME NEW x \in S
      PROVE  v[item[key[x]]] = SumFunctionOnSet(w, Fibre(key, S, key[x]))
  BY <1>2, <1>3
<1>5. DOMAIN key = S /\ \A x, y \in S : item[key[x]] = item[key[y]] => key[x] = key[y]
  <2>1. DOMAIN key = S
    OBVIOUS
  <2> HIDE DEF key
  <2> QED
    BY <1>3, <2>1
<1>6. T = {item[key[x]] : x \in S}
  <2>1. \A x \in S : item[key[x]] = entry(list[x].vlan)
    BY <1>3
  <2> HIDE DEF key, S
  <2> QED
    BY <1>2, <2>1
<1>7. SumFunctionOnSet(v, T) = SumFunctionOnSet(w, S)
  <2> HIDE DEF v, key, S, w
  <2> QED
    BY <1>1, <1>4, <1>5, <1>6, SumOfTable
<1>8. SumOf(T, LAMBDA t : t.ports) = SumFunctionOnSet(v, T)
  BY DEF SumOf, SumFunction
<1>9. Sum(list, LAMBDA r : r.ports) = SumFunctionOnSet(w, S)
  BY DEF Sum, SumFunction
<1> QED
  BY <1>7, <1>8, <1>9 DEF VlansAddUp, list, T

\* The classes of rogues are disjoint.
LEMMA ClassesTally == ASSUME GotTyped PROVE ClassesAddUp
<1> DEFINE list == Rows("rogue")
           S == DOMAIN list
           A(c) == {i \in S : c \in {list[i].class, "total"}}
<1>1. IsFiniteSet(S)
  BY RowsIs DEF Lists
<1> HIDE DEF list
<1>2. \A c \in {"malicious", "rogue", "known", "total"} : RogueTiles(list)[c] = Cardinality(A(c))
  BY DEF RogueTiles, Many, Size, RestrictValues, Restrict
<1>3. /\ A("malicious") \in SUBSET S /\ A("rogue") \in SUBSET S /\ A("known") \in SUBSET S
      /\ A("total") = S
      /\ A("malicious") \cap A("rogue") = {}
      /\ (A("malicious") \cup A("rogue")) \cap A("known") = {}
  OBVIOUS
<1> HIDE DEF A, S
<1>4. /\ Cardinality(A("malicious") \cup A("rogue"))
            = Cardinality(A("malicious")) + Cardinality(A("rogue"))
      /\ Cardinality(A("malicious")) \in Nat /\ Cardinality(A("rogue")) \in Nat
  <2>1. /\ A("malicious") \in SUBSET S /\ A("rogue") \in SUBSET S
        /\ A("malicious") \cap A("rogue") = {}
    BY <1>3
  <2>2. Cardinality(A("malicious")) \in Nat /\ Cardinality(A("rogue")) \in Nat
    BY <1>1, <2>1, FS_Subset, FS_CardinalityType
  <2>3. Cardinality(A("malicious") \cup A("rogue"))
          = Cardinality(A("malicious")) + Cardinality(A("rogue"))
    BY <1>1, <2>1, Disjoint
  <2> QED
    BY <2>2, <2>3
<1>5. /\ Cardinality((A("malicious") \cup A("rogue")) \cup A("known"))
            = Cardinality(A("malicious") \cup A("rogue")) + Cardinality(A("known"))
      /\ Cardinality((A("malicious") \cup A("rogue")) \cup A("known")) <= Cardinality(S)
  <2> DEFINE U == A("malicious") \cup A("rogue")
  <2>1. U \in SUBSET S /\ U \cap A("known") = {} /\ A("known") \in SUBSET S
    BY <1>3
  <2> HIDE DEF U
  <2>2. Cardinality(U \cup A("known")) = Cardinality(U) + Cardinality(A("known"))
        /\ Cardinality(U \cup A("known")) <= Cardinality(S)
    BY <1>1, <2>1, Disjoint
  <2> QED
    BY <2>2 DEF U
<1>6. Cardinality(A("malicious")) + Cardinality(A("rogue")) + Cardinality(A("known"))
         <= Cardinality(A("total"))
  BY <1>3, <1>4, <1>5
<1> QED
  BY <1>2, <1>6 DEF ClassesAddUp, list

\* So are the severities of alarms, each weighted by its count.
LEMMA SeveritiesTally ==
    ASSUME GotTyped, \A i \in DOMAIN Rows("alarm") : Rows("alarm")[i].count \in Nat
    PROVE  SeveritiesAddUp
<1> DEFINE list == Rows("alarm")
           S == DOMAIN list
           w(s) == [i \in S |-> IF s \in {list[i].severity, "total"} THEN list[i].count ELSE 0]
           weight(s) == SumFunctionOnSet(w(s), S)
           two == [i \in S |-> w("critical")[i] + w("major")[i]]
           three == [i \in S |-> two[i] + w("minor")[i]]
           four == [i \in S |-> three[i] + w("warning")[i]]
<1>1. IsFiniteSet(S) /\ \A i \in S : list[i].count \in Nat
  BY RowsIs DEF Lists
<1> HIDE DEF list
<1>2. ASSUME NEW s \in {"critical", "major", "minor", "warning", "total"}
      PROVE  AlarmTiles(list)[s] = weight(s)
  <2>1. AlarmTiles(list)[s]
          = SumFunction([i \in S |-> IF s \in {list[i].severity, "total"} THEN list[i].count ELSE 0])
    BY DEF AlarmTiles, Sum
  <2>2. AlarmTiles(list)[s] = SumFunction(w(s)) /\ DOMAIN w(s) = S
    BY <2>1
  <2> HIDE DEF w
  <2> QED
    BY <2>2 DEF SumFunction
<1>3. ASSUME NEW i \in S
      PROVE  /\ \A s \in {"critical", "major", "minor", "warning", "total"} : w(s)[i] \in Int
             /\ w("critical")[i] + w("major")[i] + w("minor")[i] + w("warning")[i] <= w("total")[i]
  BY <1>1
<1> HIDE DEF S, w
<1>4. /\ \A i \in S : two[i] \in Int /\ three[i] \in Int /\ four[i] \in Int
      /\ \A i \in S : four[i] <= w("total")[i]
  BY <1>3
<1>5. SumFunctionOnSet(two, S) = weight("critical") + weight("major")
  <2>1. \A i \in S : two[i] = w("critical")[i] + w("major")[i]
    OBVIOUS
  <2> HIDE DEF two
  <2> QED
    BY <1>1, <1>3, <2>1, SumAddsUp
<1>6. SumFunctionOnSet(three, S) = SumFunctionOnSet(two, S) + weight("minor")
  <2>1. \A i \in S : three[i] = two[i] + w("minor")[i]
    OBVIOUS
  <2> HIDE DEF two, three
  <2> QED
    BY <1>1, <1>3, <1>4, <2>1, SumAddsUp
<1>7. SumFunctionOnSet(four, S) = SumFunctionOnSet(three, S) + weight("warning")
  <2>1. \A i \in S : four[i] = three[i] + w("warning")[i]
    OBVIOUS
  <2> HIDE DEF three, four
  <2> QED
    BY <1>1, <1>3, <1>4, <2>1, SumAddsUp
<1>8. SumFunctionOnSet(four, S) <= weight("total")
  <2> HIDE DEF four
  <2> QED
    BY <1>1, <1>3, <1>4, SumGrows
<1>9. \A s \in {"critical", "major", "minor", "warning", "total"} : weight(s) \in Int
  BY <1>1, <1>3, SumIs
<1> HIDE DEF four, three, two, weight
<1>10. weight("critical") + weight("major") + weight("minor") + weight("warning") <= weight("total")
  BY <1>5, <1>6, <1>7, <1>8, <1>9
<1> QED
  BY <1>2, <1>10 DEF SeveritiesAddUp, list

\* No switch uses more power than it has.
LEMMA PowerTally ==
    ASSUME GotTyped, \A i \in DOMAIN Rows("switch") : /\ Rows("switch")[i].watts \in Nat
                                                  /\ Rows("switch")[i].free \in Nat
    PROVE  PowerAddsUp
<1> DEFINE list == Rows("switch")
           S == DOMAIN list
           used == [i \in S |-> IF list[i].free < list[i].watts
                                THEN list[i].watts - list[i].free ELSE 0]
           there == [i \in S |-> list[i].watts]
<1>1. IsFiniteSet(S) /\ \A i \in S : list[i].watts \in Nat /\ list[i].free \in Nat
  BY RowsIs DEF Lists
<1> HIDE DEF list
<1>2. /\ PoeTiles(list).allocated = SumFunctionOnSet(used, S)
      /\ PoeTiles(list).budget = SumFunctionOnSet(there, S)
  BY DEF PoeTiles, PoeItem, Sum, SumFunction
<1>3. \A i \in S : used[i] \in Int /\ there[i] \in Int /\ used[i] <= there[i]
  BY <1>1
<1>4. SumFunctionOnSet(used, S) <= SumFunctionOnSet(there, S)
  <2> HIDE DEF used, there, S
  <2> QED
    BY <1>1, <1>3, SumGrows
<1> QED
  BY <1>2, <1>4 DEF PowerAddsUp, list

\* A client is poor below -75 dBm, or below 15 on the other scale.
LEMMA SignalsTally ==
    ASSUME GotTyped, \A i \in DOMAIN Rows("client") : Rows("client")[i].rssi \in Int
    PROVE  SignalsAddUp
<1> DEFINE list == Rows("client")
           S == DOMAIN list
           poor == {i \in S : Quality(list[i].rssi) = "poor"}
           weak == {i \in S : list[i].rssi < -75 \/ list[i].rssi \in 1 .. 14}
<1>1. \A i \in S : list[i].rssi \in Int
  OBVIOUS
<1> HIDE DEF list
<1>2. ASSUME NEW n \in Int PROVE Quality(n) = "poor" <=> n < -75 \/ n \in 1 .. 14
  BY DEF Quality
<1>3. poor = weak
  BY <1>1, <1>2
<1>4. ClientTiles(list).poor = Cardinality(poor)
  BY DEF ClientTiles, Many, Size, RestrictValues, Restrict
<1>5. Many(list, LAMBDA c : c.rssi < -75 \/ c.rssi \in 1 .. 14) = Cardinality(weak)
  BY DEF Many, Size, RestrictValues, Restrict
<1> QED
  BY <1>3, <1>4, <1>5 DEF SignalsAddUp, list

\* Explicit stacks count every switch that names one.
LEMMA StacksTally == ASSUME GotTyped PROVE StacksAddUp
<1> DEFINE list == Rows("switch")
           N == {i \in DOMAIN list : list[i].stack \notin {None, list[i].id}}
           named == [i \in N |-> list[i]]
           T == StackItems(list)
           v == [s \in T |-> s.members]
           key == [i \in N |-> list[i].stack]
           of(s) == [i \in {j \in DOMAIN named : named[j].stack = s} |-> named[i]]
           entry(s) == [id |-> s, members |-> Cardinality(DOMAIN of(s)),
                        aligned |-> Cardinality({of(s)[i].fw : i \in DOMAIN of(s)}) <= 1]
           item == [s \in {key[i] : i \in N} |-> entry(s)]
<1>1. IsFiniteSet(N)
  <2>1. N \in SUBSET DOMAIN list
    OBVIOUS
  <2> QED
    BY <2>1, RowsIs, FS_Subset DEF Lists
<1> HIDE DEF list
<1>2. ASSUME N # {} PROVE T = {entry(list[i].stack) : i \in N}
  <2>1. T = {entry(s) : s \in {named[i].stack : i \in DOMAIN named}}
    BY <1>2, Zenon DEF StackItems, Values, Size, RestrictValues, Restrict
  <2>2. {named[i].stack : i \in DOMAIN named} = {list[i].stack : i \in N}
    OBVIOUS
  <2> HIDE DEF entry, named, N, T
  <2>3. {entry(s) : s \in {list[i].stack : i \in N}} = {entry(list[i].stack) : i \in N}
    OBVIOUS
  <2> QED
    BY Zenon, <2>1, <2>2, <2>3
<1>3. ASSUME NEW x \in N
      PROVE  /\ item[key[x]] = entry(list[x].stack)
             /\ item[key[x]].id = key[x]
             /\ item[key[x]].members = Cardinality(Fibre(key, N, key[x]))
  <2>1. item[key[x]] = entry(list[x].stack) /\ key[x] = list[x].stack
    OBVIOUS
  <2>2. Fibre(key, N, key[x]) = DOMAIN of(list[x].stack)
    BY DEF Fibre
  <2> HIDE DEF of
  <2> QED
    BY <2>1, <2>2
<1> HIDE DEF item, T, entry
<1>4. ASSUME N # {}, NEW x \in N PROVE v[item[key[x]]] = Cardinality(Fibre(key, N, key[x]))
  <2>1. item[key[x]] \in T
    BY <1>2, <1>3, <1>4
  <2>2. v[item[key[x]]] = item[key[x]].members
    BY <2>1
  <2> HIDE DEF key, v
  <2> QED
    BY <1>3, <2>2
<1>5. DOMAIN key = N /\ \A x, y \in N : item[key[x]] = item[key[y]] => key[x] = key[y]
  <2>1. DOMAIN key = N
    OBVIOUS
  <2> HIDE DEF key, N
  <2> QED
    BY <1>3, <2>1
<1>6. ASSUME N # {} PROVE T = {item[key[x]] : x \in N}
  <2>1. \A x \in N : item[key[x]] = entry(list[x].stack)
    BY <1>3
  <2> HIDE DEF key, N
  <2> QED
    BY <1>2, <1>6, <2>1
<1>7. ASSUME N # {} PROVE SumFunctionOnSet(v, T) = Cardinality(N)
  <2> HIDE DEF v, key, N
  <2> QED
    BY <1>1, <1>4, <1>5, <1>6, <1>7, CountOfTable
<1>8. SumOf(T, LAMBDA s : s.members) = SumFunctionOnSet(v, T)
  BY DEF SumOf, SumFunction
<1>9. Many(list, LAMBDA r : r.stack \notin {None, r.id}) = Cardinality(N)
  BY DEF Many, Size, RestrictValues, Restrict
<1>10. Cardinality(N) > 0 => N # {}
  <2> HIDE DEF N
  <2>1. Cardinality(N) = 0 <=> N = {}
    BY <1>1, FS_EmptySet
  <2> QED
    BY <2>1
<1> QED
  BY <1>7, <1>8, <1>9, <1>10 DEF StacksAddUp, list, T

\* No AP is of two of the classes of the totals.
LEMMA TotalsTally == ASSUME GotTyped PROVE ApStats(Rows("ap")).other >= 0
<1> DEFINE list == Rows("ap")
           S == DOMAIN list
           up == {i \in S : list[i].raw \in {"online", "connect"}}
           odd == {i \in S : list[i].raw = "flagged"}
           down == {i \in S : list[i].raw \in {"offline", "disconnect"}}
<1>1. IsFiniteSet(S) /\ Len(list) = Cardinality(S)
  BY RowsIs DEF Lists
<1> HIDE DEF list
<1>2. ApStats(list).other = Len(list) - Cardinality(up) - Cardinality(odd) - Cardinality(down)
  BY DEF ApStats, Many, Size, RestrictValues, Restrict
<1>3. up \in SUBSET S /\ odd \in SUBSET S /\ up \cap odd = {}
  OBVIOUS
<1> DEFINE both == up \cup odd
<1>4. both \in SUBSET S /\ down \in SUBSET S /\ both \cap down = {}
  OBVIOUS
<1>5. /\ Cardinality(both) = Cardinality(up) + Cardinality(odd)
      /\ Cardinality(both) + Cardinality(down) <= Cardinality(S)
      /\ Cardinality(up) \in Nat /\ Cardinality(odd) \in Nat /\ Cardinality(down) \in Nat
      /\ Cardinality(S) \in Nat
  <2> HIDE DEF up, odd, down, S
  <2>1. /\ Cardinality(both) = Cardinality(up) + Cardinality(odd)
        /\ Cardinality(up) \in Nat /\ Cardinality(odd) \in Nat
    <3>1. up \in SUBSET S /\ odd \in SUBSET S /\ up \cap odd = {}
      BY <1>3
    <3>2. Cardinality(up \cup odd) = Cardinality(up) + Cardinality(odd)
      BY <1>1, <3>1, Disjoint
    <3>3. Cardinality(up) \in Nat /\ Cardinality(odd) \in Nat
      BY <1>1, <3>1, FS_Subset, FS_CardinalityType
    <3> QED
      BY <3>2, <3>3
  <2> HIDE DEF both
  <2>2. /\ Cardinality(both \cup down) = Cardinality(both) + Cardinality(down)
        /\ Cardinality(both \cup down) <= Cardinality(S)
        /\ Cardinality(down) \in Nat /\ Cardinality(S) \in Nat
    <3>1. both \in SUBSET S /\ down \in SUBSET S /\ both \cap down = {}
      BY <1>4
    <3>2. Cardinality(both \cup down) = Cardinality(both) + Cardinality(down)
      BY <1>1, <3>1, Disjoint
    <3>3. Cardinality(both \cup down) <= Cardinality(S)
      BY <1>1, <3>1, Disjoint
    <3>4. Cardinality(down) \in Nat /\ Cardinality(S) \in Nat
      BY <1>1, <3>1, FS_Subset, FS_CardinalityType
    <3> QED
      BY <3>2, <3>3, <3>4
  <2> QED
    BY <2>1, <2>2
<1>6. Len(list) - Cardinality(up) - Cardinality(odd) - Cardinality(down) >= 0
  <2> HIDE DEF up, odd, down, S, both
  <2> QED
    BY <1>1, <1>5
<1> QED
  BY <1>2, <1>6 DEF list

\* A switch the page calls offline is not online in the totals.
LEMMA SwitchesTally ==
    ASSUME GotTyped
    PROVE  SwitchTiles(Rows("switch")).offline <= SwitchStats(Rows("switch")).offline
<1> DEFINE list == Rows("switch")
           S == DOMAIN list
           up == {i \in S : SwitchStatus(list[i].raw) = "online"}
           down == {i \in S : SwitchStatus(list[i].raw) = "offline"}
<1>1. IsFiniteSet(S) /\ Len(list) = Cardinality(S)
  BY RowsIs DEF Lists
<1> HIDE DEF list
<1>2. SwitchStats(list).offline = Len(list) - Cardinality(up)
  BY DEF SwitchStats, Many, Size, RestrictValues, Restrict
<1>3. SwitchTiles(list).offline = Cardinality(down)
  BY DEF SwitchTiles, Many, Size, RestrictValues, Restrict
<1>4. up \in SUBSET S /\ down \in SUBSET S /\ up \cap down = {}
  OBVIOUS
<1> HIDE DEF up, down, S
<1>5. /\ Cardinality(up \cup down) = Cardinality(up) + Cardinality(down)
      /\ Cardinality(up \cup down) <= Cardinality(S)
      /\ Cardinality(up) \in Nat /\ Cardinality(down) \in Nat /\ Cardinality(S) \in Nat
  <2>1. Cardinality(up \cup down) = Cardinality(up) + Cardinality(down)
    BY <1>1, <1>4, Disjoint
  <2>2. Cardinality(up \cup down) <= Cardinality(S)
    BY <1>1, <1>4, Disjoint
  <2>3. Cardinality(up) \in Nat /\ Cardinality(down) \in Nat /\ Cardinality(S) \in Nat
    BY <1>1, <1>4, FS_Subset, FS_CardinalityType
  <2> QED
    BY <2>1, <2>2, <2>3
<1>6. Cardinality(down) <= Len(list) - Cardinality(up)
  BY <1>1, <1>5
<1> QED
  BY <1>2, <1>3, <1>6 DEF list

\* The parts of the graph.
Zoned(zones, aps, alarmed) == [i \in DOMAIN zones |-> ZoneNode(zones[i].id, aps, alarmed)]
Grouped(switches) == SetToSeq({GroupNode(g, switches) : g \in Values(switches, LAMBDA r : GroupOf(r))})
Top(cluster) == Node("controller", "controller", IF cluster THEN "online" ELSE "unknown")
Switched(switches, alarmed) == [i \in DOMAIN switches |-> SwitchNode(switches[i], alarmed)]

\* The graph ends with one node for each switch, and each of its nodes is of
\* one of the four kinds.
LEMMA NodesOf ==
    ASSUME GotTyped
    PROVE  /\ \E V : \E a \in Seq(V) : \E b \in Seq(V) :
                 /\ Nodes = a \o b
                 /\ b = Switched(Rows("switch"), Alarmed) /\ Len(b) = Len(got["switch"])
           /\ \A n \in ToSet(Nodes) :
                 \/ n = Top(<<"cluster", None>> \in seen)
                 \/ \E i \in DOMAIN Rows("rkszones") :
                        n = ZoneNode(Rows("rkszones")[i].id, Rows("ap"), Alarmed)
                 \/ \E i \in DOMAIN Rows("switch") :
                        n = GroupNode(GroupOf(Rows("switch")[i]), Rows("switch"))
                 \/ \E i \in DOMAIN Rows("switch") : n = SwitchNode(Rows("switch")[i], Alarmed)
<1> DEFINE top == Top(<<"cluster", None>> \in seen)
           zoned == Zoned(Rows("rkszones"), Rows("ap"), Alarmed)
           groups == {GroupNode(g, Rows("switch"))
                        : g \in Values(Rows("switch"), LAMBDA r : GroupOf(r))}
           grouped == Grouped(Rows("switch"))
           switched == Switched(Rows("switch"), Alarmed)
           V == ({top} \cup groups) \cup (Range(zoned) \cup Range(switched))
<1>1. Nodes = ((<<top>> \o zoned) \o grouped) \o switched
  BY DEF Nodes, Graph, Zoned, Grouped, Switched, Top
<1>2. zoned \in Seq(Range(zoned))
  <2>1. /\ Len(got["rkszones"]) \in Nat /\ DOMAIN zoned = 1 .. Len(got["rkszones"])
    BY RowsIs DEF Zoned, Lists
  <2>2. zoned = [i \in DOMAIN zoned |-> zoned[i]]
    BY DEF Zoned
  <2> HIDE DEF zoned
  <2> QED
    BY <2>1, <2>2, SeqIs
<1>3. switched \in Seq(Range(switched)) /\ Len(switched) = Len(got["switch"])
  <2>1. /\ Len(got["switch"]) \in Nat /\ DOMAIN switched = 1 .. Len(got["switch"])
    BY RowsIs DEF Switched, Lists
  <2>2. switched = [i \in DOMAIN switched |-> switched[i]]
    BY DEF Switched
  <2> HIDE DEF switched
  <2> QED
    BY <2>1, <2>2, SeqIs
<1>4. /\ grouped \in Seq(groups) /\ ToSet(grouped) = groups
      /\ \A n \in groups : \E i \in DOMAIN Rows("switch") :
             n = GroupNode(GroupOf(Rows("switch")[i]), Rows("switch"))
  <2> DEFINE S == DOMAIN Rows("switch")
             h == [i \in S |-> GroupNode(GroupOf(Rows("switch")[i]), Rows("switch"))]
  <2>0. groups = {GroupNode(GroupOf(Rows("switch")[i]), Rows("switch")) : i \in S}
    BY Zenon DEF Values
  <2>1. groups = Range(h) /\ IsFiniteSet(DOMAIN h)
    <3>1. IsFiniteSet(S)
      BY RowsIs DEF Lists
    <3>2. groups = Range(h)
      BY <2>0 DEF Range
    <3> QED
      BY <3>1, <3>2
  <2> HIDE DEF h
  <2>2. IsFiniteSet(groups)
    BY <2>1, ImageOf
  <2>3. grouped = SetToSeq(groups)
    BY DEF Grouped
  <2> HIDE DEF groups, grouped
  <2> QED
    BY <2>0, <2>2, <2>3, SetToSeqIs
<1> HIDE DEF groups
<1>7. /\ \A n \in Range(zoned) : \E i \in DOMAIN Rows("rkszones") :
              n = ZoneNode(Rows("rkszones")[i].id, Rows("ap"), Alarmed)
      /\ \A n \in Range(switched) : \E i \in DOMAIN Rows("switch") :
              n = SwitchNode(Rows("switch")[i], Alarmed)
  BY DEF Zoned, Switched, Range
<1> HIDE DEF zoned, switched, grouped
<1>5. /\ <<top>> \in Seq(V) /\ zoned \in Seq(V) /\ grouped \in Seq(V) /\ switched \in Seq(V)
  BY <1>2, <1>3, <1>4
<1> HIDE DEF V, top
<1>6. (<<top>> \o zoned) \o grouped \in Seq(V) /\ <<top>> \o zoned \in Seq(V)
  BY <1>5
<1>8. ToSet(Nodes) = ((ToSet(<<top>>) \cup ToSet(zoned)) \cup ToSet(grouped)) \cup ToSet(switched)
  <2>1. ToSet(<<top>> \o zoned) = ToSet(<<top>>) \cup ToSet(zoned)
    BY <1>5, ToSetOfConcat
  <2> DEFINE two == <<top>> \o zoned
             three == two \o grouped
  <2>2. two \in Seq(V) /\ three \in Seq(V)
    BY <1>6
  <2> HIDE DEF two
  <2>3. ToSet(three) = ToSet(two) \cup ToSet(grouped)
    BY <1>5, <2>2, ToSetOfConcat
  <2> HIDE DEF three
  <2>4. ToSet(three \o switched) = ToSet(three) \cup ToSet(switched)
    BY <1>5, <2>2, ToSetOfConcat
  <2>5. Nodes = three \o switched
    BY <1>1 DEF three, two
  <2> QED
    BY <2>1, <2>3, <2>4, <2>5 DEF two
<1>9. /\ ToSet(<<top>>) \subseteq {top} /\ ToSet(zoned) \subseteq Range(zoned)
      /\ ToSet(switched) \subseteq Range(switched)
  <2>1. <<top>> \in Seq({top})
    OBVIOUS
  <2> QED
    BY <1>2, <1>3, <2>1, ToSetIs
<1>10. ASSUME NEW n \in ToSet(Nodes)
       PROVE  \/ n = top
              \/ \E i \in DOMAIN Rows("rkszones") :
                     n = ZoneNode(Rows("rkszones")[i].id, Rows("ap"), Alarmed)
              \/ \E i \in DOMAIN Rows("switch") :
                     n = GroupNode(GroupOf(Rows("switch")[i]), Rows("switch"))
              \/ \E i \in DOMAIN Rows("switch") : n = SwitchNode(Rows("switch")[i], Alarmed)
  <2>1. n \in {top} \cup Range(zoned) \cup groups \cup Range(switched)
    BY <1>4, <1>8, <1>9
  <2> QED
    BY <1>4, <1>7, <2>1
<1>11. \E W : \E a \in Seq(W) : \E b \in Seq(W) :
          Nodes = a \o b /\ b = switched /\ Len(b) = Len(got["switch"])
  BY <1>1, <1>3, <1>5, <1>6
<1> QED
  BY <1>10, <1>11 DEF switched, top

\* A switch its page calls offline has an offline node in the graph.
LEMMA GraphTally ==
    ASSUME GotTyped
    PROVE  GraphTiles(Nodes).offline >= SwitchTiles(Rows("switch")).offline
<1> DEFINE list == Rows("switch")
           S == {i \in DOMAIN list : SwitchStatus(list[i].raw) = "offline"}
           T == {i \in DOMAIN Nodes : Nodes[i].status = "offline"}
<1>1. PICK V : \E a \in Seq(V) : \E b \in Seq(V) :
              /\ Nodes = a \o b
              /\ b = Switched(Rows("switch"), Alarmed) /\ Len(b) = Len(got["switch"])
  BY NodesOf
<1>2. PICK a \in Seq(V), b \in Seq(V) :
              /\ Nodes = a \o b
              /\ b = Switched(list, Alarmed) /\ Len(b) = Len(got["switch"])
  BY <1>1
<1> DEFINE f == [i \in S |-> Len(a) + i]
<1>3. /\ IsFiniteSet(DOMAIN list) /\ DOMAIN list = 1 .. Len(got["switch"]) /\ Len(got["switch"]) \in Nat
  BY RowsIs DEF Lists
<1> HIDE DEF list
<1>4. DOMAIN Nodes = 1 .. Len(a) + Len(b) /\ Len(a) \in Nat /\ Len(b) \in Nat
  <2>1. DOMAIN (a \o b) = 1 .. Len(a) + Len(b)
    BY SecondPart
  <2>2. Len(a) \in Nat /\ Len(b) \in Nat
    BY LenProperties
  <2> QED
    BY <1>2, <2>1, <2>2
<1>5. ASSUME NEW i \in S PROVE Len(a) + i \in T
  <2>1. i \in 1 .. Len(b) /\ i \in DOMAIN list
    BY <1>2, <1>3
  <2>2. Len(a) + i \in DOMAIN Nodes /\ Nodes[Len(a) + i] = b[i]
    BY <1>2, <2>1, SecondPart
  <2>3. b[i] = SwitchNode(list[i], Alarmed)
    BY <1>2, <2>1 DEF Switched
  <2>4. list[i].raw = "offline"
    BY DEF SwitchStatus, PageStatus
  <2>5. SwitchNode(list[i], Alarmed).status = "offline"
    BY <2>4 DEF SwitchNode, Node, Escalated, NodeStatus
  <2> QED
    BY <2>2, <2>3, <2>5
<1>6. IsFiniteSet(T)
  <2>1. T \in SUBSET DOMAIN Nodes /\ IsFiniteSet(DOMAIN Nodes)
    BY <1>4, FS_Interval
  <2> QED
    BY <2>1, FS_Subset
<1>7. S \in SUBSET Int
  BY <1>3
<1>8. f \in Injection(S, T)
  <2> HIDE DEF S, T
  <2> QED
    BY <1>4, <1>5, <1>7 DEF Injection, IsInjective
<1>9. Cardinality(S) <= Cardinality(T)
  <2> HIDE DEF S, T, f
  <2> QED
    BY <1>6, <1>8, FS_Injection
<1>10. SwitchTiles(list).offline = Cardinality(S)
  BY DEF SwitchTiles, Many, Size, RestrictValues, Restrict
<1>11. GraphTiles(Nodes).offline = Cardinality(T)
  BY DEF GraphTiles, Many, Size, RestrictValues, Restrict
<1>12. Cardinality(S) \in Nat /\ Cardinality(T) \in Nat
  <2>1. S \in SUBSET DOMAIN list
    OBVIOUS
  <2> HIDE DEF S, T
  <2> QED
    BY <1>3, <1>6, <2>1, FS_Subset, FS_CardinalityType
<1> QED
  BY <1>9, <1>10, <1>11, <1>12 DEF list

\* The positions shown before one: those of its kind that were listed before
\* it and, when it is up, all that are down.
Before(S, d, i) == {j \in S : IF d[j] = d[i] THEN j < i ELSE d[j]}

\* The offline leaves first, each in the order listed: how many leaves come
\* before a leaf tells it from the others, and of those offline none comes
\* behind one that is not.
LEMMA RankOf ==
    ASSUME NEW S \in SUBSET Int, IsFiniteSet(S), NEW d \in [S -> BOOLEAN], NEW c \in Nat,
           NEW U \in SUBSET S, \A i \in U : Before(S, d, i) \subseteq U
    PROVE  Cardinality({i \in U : Cardinality(Before(S, d, i)) < c})
             = IF c < Cardinality(U) THEN c ELSE Cardinality(U)
<1> DEFINE r == [i \in U |-> Cardinality(Before(S, d, i))]
<1>1. IsFiniteSet(U) /\ \A V \in SUBSET S : IsFiniteSet(V) /\ Cardinality(V) \in Nat
  BY FS_Subset, FS_CardinalityType
<1>2. ASSUME NEW V \in SUBSET S, NEW W \in SUBSET S, NEW x \in W, V \subseteq W, x \notin V
      PROVE  Cardinality(V) < Cardinality(W)
  <2>1. V \in SUBSET W /\ V # W /\ IsFiniteSet(W)
    BY <1>1, <1>2
  <2>2. Cardinality(V) <= Cardinality(W) /\ Cardinality(V) # Cardinality(W)
    BY <2>1, FS_Subset
  <2> QED
    BY <1>1, <2>2
<1>3. ASSUME NEW i \in S PROVE Before(S, d, i) \in SUBSET S /\ i \notin Before(S, d, i)
  BY DEF Before
<1>4. ASSUME NEW i \in S, NEW j \in S, i # j, i \notin Before(S, d, j)
      PROVE  j \in Before(S, d, i)
  BY <1>4 DEF Before
<1>5. ASSUME NEW i \in S, NEW j \in S, j \in Before(S, d, i)
      PROVE  Before(S, d, j) \subseteq Before(S, d, i)
  <2> SUFFICES ASSUME NEW k \in Before(S, d, j) PROVE k \in Before(S, d, i)
    OBVIOUS
  <2>1. k \in S /\ d[i] \in BOOLEAN /\ d[j] \in BOOLEAN /\ d[k] \in BOOLEAN
        /\ i \in Int /\ j \in Int /\ k \in Int
    BY DEF Before
  <2>2. IF d[j] = d[i] THEN j < i ELSE d[j]
    BY <1>5 DEF Before
  <2>3. IF d[k] = d[j] THEN k < j ELSE d[k]
    BY DEF Before
  <2>4. IF d[k] = d[i] THEN k < i ELSE d[k]
    <3>1. CASE d[k] = d[i]
      <4>1. CASE d[j] = d[i]
        BY <2>1, <2>2, <2>3, <3>1, <4>1
      <4>2. CASE d[j] # d[i]
        <5>1. d[j] /\ d[k]
          BY <2>2, <2>3, <3>1, <4>2
        <5> QED
          BY <2>1, <3>1, <4>2, <5>1
      <4> QED
        BY <4>1, <4>2
    <3>2. CASE d[k] # d[i]
      <4>1. d[k]
        BY <2>1, <2>2, <2>3, <3>2
      <4> QED
        BY <3>2, <4>1
    <3> QED
      BY <3>1, <3>2
  <2> QED
    BY <2>1, <2>4 DEF Before
<1>6. ASSUME NEW i \in S, NEW j \in S, j \in Before(S, d, i)
      PROVE  Cardinality(Before(S, d, j)) < Cardinality(Before(S, d, i))
  BY <1>2, <1>3, <1>5, <1>6
<1>7. r \in [U -> Nat]
  BY <1>1, <1>3
<1>8. ASSUME NEW i \in U, NEW j \in U, r[i] = r[j] PROVE i = j
  <2> SUFFICES ASSUME i # j PROVE FALSE
    OBVIOUS
  <2>1. i \in Before(S, d, j) \/ j \in Before(S, d, i)
    BY <1>4
  <2>2. Cardinality(Before(S, d, i)) = Cardinality(Before(S, d, j))
    BY <1>8
  <2>3. Cardinality(Before(S, d, i)) \in Nat
    BY <1>1, <1>3
  <2> QED
    BY <1>6, <2>1, <2>2, <2>3
<1>9. ASSUME NEW i \in U PROVE r[i] < Cardinality(U)
  <2>1. Before(S, d, i) \in SUBSET S /\ Before(S, d, i) \subseteq U /\ i \notin Before(S, d, i)
    BY <1>3
  <2> QED
    BY <1>2, <2>1
<1>10. First(U, r, c) = {i \in U : Cardinality(Before(S, d, i)) < c}
  BY DEF First
<1> HIDE DEF r
<1>11. Cardinality(First(U, r, c)) = IF c < Cardinality(U) THEN c ELSE Cardinality(U)
  <2>1. IsFiniteSet(U)
    BY <1>1
  <2>2. \A i, j \in U : r[i] = r[j] => i = j
    BY <1>8
  <2>3. \A i \in U : r[i] < Cardinality(U)
    BY <1>9
  <2> QED
    BY <1>7, <2>1, <2>2, <2>3, FirstOf
<1> QED
  BY <1>10, <1>11

\* The leaves of an expanded zone and the surplus are all there are, and no
\* offline one is cut while another is shown.
LEMMA LeavesTally == ASSUME GotTyped PROVE LeavesAddUp
<1> DEFINE list == Rows("ap")
           S == DOMAIN list
           d == [i \in S |-> NodeStatus(list[i].raw) = "offline"]
           D == {i \in S : NodeStatus(list[i].raw) = "offline"}
           P == {i \in S : Cardinality(Before(S, d, i)) < Cap}
           n == Len(got["ap"])
<1>1. /\ IsFiniteSet(S) /\ Cardinality(S) = n /\ S \in SUBSET Int /\ n \in Nat
  BY RowsIs DEF Lists
<1> HIDE DEF list
<1>2. d \in [S -> BOOLEAN] /\ \A i \in S : d[i] = (i \in D)
  OBVIOUS
<1>3. \A i \in S : Before(S, d, i) \subseteq S
  BY DEF Before
<1>4. D \in SUBSET S /\ \A i \in D : Before(S, d, i) \subseteq D
  BY DEF Before
<1>5. Cardinality(P) = IF Cap < n THEN Cap ELSE n
  <2> HIDE DEF d, S, D
  <2> QED
    BY <1>1, <1>2, <1>3, RankOf, CapAssumption
<1>6. Cardinality({i \in D : Cardinality(Before(S, d, i)) < Cap})
        = IF Cap < Cardinality(D) THEN Cap ELSE Cardinality(D)
  <2> HIDE DEF d, S, D
  <2> QED
    BY <1>1, <1>2, <1>4, RankOf, CapAssumption
<1> DEFINE down(r) == NodeStatus(r.raw) = "offline"
           leaves == Leaves(list)
           shown == Restrict(list, P)
<1>7. leaves.shown = shown /\ leaves.extra = Surplus(list)
  <2>1. ASSUME NEW i \in S
        PROVE  Before(S, d, i) = {j \in S : IF down(list[j]) = down(list[i]) THEN j < i ELSE down(list[j])}
    BY DEF Before
  <2>2. P = {i \in S : Cardinality({j \in S : IF down(list[j]) = down(list[i]) THEN j < i
                                              ELSE down(list[j])}) < Cap}
    <3> HIDE DEF S, d, down
    <3> QED
      BY <2>1
  <2> HIDE DEF P
  <2> QED
    BY <2>2, Zenon DEF Leaves
<1>8. DOMAIN shown = P /\ \A i \in P : shown[i] = list[i]
  BY DEF Restrict
<1>9. Size(leaves.shown) + leaves.extra = n
  <2>1. Surplus(list) = IF n < Cap THEN 0 ELSE n - Cap
    BY <1>1 DEF Surplus, Size
  <2>2. Size(shown) = Cardinality(P)
    BY <1>8 DEF Size
  <2>3. Cardinality(P) + Surplus(list) = n
    <3> HIDE DEF n, P
    <3>1. n \in Nat /\ Cap \in Nat
      BY <1>1, CapAssumption
    <3> QED
      BY <1>5, <2>1, <3>1
  <2> HIDE DEF leaves, shown, P, S, n
  <2> QED
    BY <1>7, <2>2, <2>3
<1>10. Many(list, down) = Cardinality(D)
  BY DEF Many, Size, RestrictValues, Restrict
<1>11. Many(shown, down) = Cardinality({i \in D : Cardinality(Before(S, d, i)) < Cap})
  <2>1. {i \in P : NodeStatus(shown[i].raw) = "offline"} = {i \in D : Cardinality(Before(S, d, i)) < Cap}
    BY <1>8
  <2>2. Many(shown, down) = Cardinality({i \in P : NodeStatus(shown[i].raw) = "offline"})
    BY <1>8 DEF Many, Size, RestrictValues, Restrict
  <2> QED
    BY <2>1, <2>2
<1>12. Many(shown, down) = Many(list, down) \/ Many(shown, down) = Cap
  BY <1>6, <1>10, <1>11
<1> QED
  BY <1>7, <1>9, <1>12 DEF LeavesAddUp, list

-----------------------------------------------------------------------------
(* Where the rows come from.                                               *)

\* Whatever a walk reads is an entry of its list.
Origin ==
    /\ \A l \in Lists : ToSet(world[l]) \subseteq Ids(l) /\ ToSet(got[l]) \subseteq Ids(l)
    /\ todo # <<>> /\ Current.list \in Lists =>
           ToSet(view) \subseteq Ids(Current.list) /\ ToSet(rows) \subseteq Ids(Current.list)

\* What a call reads are entries of its list.
LEMMA EntriesOrigin ==
    ASSUME world \in [Lists -> Seq(AllIds)], \A l \in Lists : ToSet(world[l]) \subseteq Ids(l),
           NEW c \in Calls, c.list \in Lists
    PROVE  ToSet(Entries(c)) \subseteq Ids(c.list)
<1>1. CASE c.zone = None
  <2>1. Entries(c) = world[c.list]
    BY <1>1 DEF Entries
  <2> QED
    BY <2>1
<1>2. CASE c.zone # None
  <2> DEFINE here == {i \in ToSet(world["ap"]) : Row("ap", i).zone = c.zone}
  <2>1. c.list = "ap" /\ "ap" \in Lists /\ world["ap"] \in Seq(AllIds)
    BY <1>2 DEF Calls, Lists
  <2>2. Entries(c) = SetToSeq(here)
    BY <1>2 DEF Entries
  <2>3. IsFiniteSet(here) /\ here \subseteq Ids("ap")
    BY <2>1, ToSetIs, FS_Subset
  <2> HIDE DEF here
  <2>4. ToSet(SetToSeq(here)) = here
    BY <2>3, SetToSeqIs
  <2> QED
    BY <2>1, <2>2, <2>3, <2>4
<1> QED
  BY <1>1, <1>2

\* A walk that ends hands on what it read, and the next one begins.
LEMMA OriginEnds ==
    ASSUME FetchAssumption, FetchInv, Origin, todo # <<>>, NEW read \in Seq(AllIds), NEW how,
           EndWalk(read, how), world' = world,
           Current.list \in Lists => ToSet(read) \subseteq Ids(Current.list)
    PROVE  Origin'
<1> DEFINE next == Following(Current, read)
<1>1. Types /\ got \in [Lists -> Seq(AllIds)] /\ world \in [Lists -> Seq(AllIds)]
  BY DEF FetchInv, Types
<1>2. next \in Seq(Calls)
  BY <1>1, FollowingTyped
<1>3. todo' = next /\ rows' = <<>> /\ Current' = Head(next)
  BY DEF EndWalk, Current
<1>4. ASSUME NEW l \in Lists PROVE ToSet(got'[l]) \subseteq Ids(l)
  <2>1. got' = IF Current.list \in Lists
               THEN [got EXCEPT ![Current.list] = got[Current.list] \o read] ELSE got
    BY DEF EndWalk
  <2>2. CASE l # Current.list
    BY <1>1, <2>1, <2>2 DEF Origin
  <2>3. CASE l = Current.list
    <3>1. got'[l] = got[l] \o read
      BY <1>1, <2>1, <2>3
    <3>2. ToSet(got[l] \o read) = ToSet(got[l]) \cup ToSet(read)
      BY <1>1, ToSetOfConcat
    <3> QED
      BY <2>3, <3>1, <3>2 DEF Origin
  <2> QED
    BY <2>2, <2>3
<1>5. ASSUME next # <<>>, Head(next).list \in Lists
      PROVE  ToSet(view') \subseteq Ids(Head(next).list)
  <2>1. Head(next) \in Calls
    BY <1>2, <1>5, HeadTailProperties
  <2>2. view' = Entries(Head(next))
    BY <1>5 DEF EndWalk
  <2> HIDE DEF next
  <2> QED
    BY <1>1, <1>5, <2>1, <2>2, EntriesOrigin DEF Origin
<1>6. ToSet(<<>>) = {}
  BY DEF ToSet
<1> HIDE DEF next
<1>7. \A l \in Lists : ToSet(world'[l]) \subseteq Ids(l)
  BY DEF Origin
<1> QED
  BY <1>3, <1>4, <1>5, <1>6, <1>7 DEF Origin

\* A fetch starts with lists of their own entries.
LEMMA OriginInit == FetchAssumption /\ Init => Origin
<1> SUFFICES ASSUME FetchAssumption, Init PROVE Origin
  OBVIOUS
<1>1. Types /\ todo # <<>>
  BY InitEstablishesInv, ProgramTyped DEF FetchInv, Init
<1>2. world \in [Lists -> Seq(AllIds)] /\ Current \in Calls /\ ToSet(<<>>) = {}
  BY <1>1, HeadTailProperties DEF Types, Current, ToSet
<1>3. ASSUME NEW l \in Lists PROVE ToSet(world[l]) \subseteq Ids(l)
  <2>1. PICK w : /\ \A k \in Read(job) : w[k] \in Initial(k)
                 /\ world = [k \in Lists |-> IF k \in Read(job) THEN w[k] ELSE <<>>]
    BY DEF Init
  <2>2. world[l] \in Initial(l) \/ world[l] = <<>>
    BY <2>1
  <2> QED
    BY <1>2, <2>2 DEF Ids
<1>4. Current.list \in Lists => ToSet(view) \subseteq Ids(Current.list)
  <2>1. view = Entries(Current)
    BY DEF Init, Current
  <2> QED
    BY <1>2, <1>3, <2>1, EntriesOrigin
<1>5. rows = <<>> /\ \A l \in Lists : got[l] = <<>>
  BY DEF Init
<1> QED
  BY <1>2, <1>3, <1>4, <1>5 DEF Origin

\* No step mixes the entries of two lists.
LEMMA OriginStep == FetchAssumption /\ FetchInv /\ Origin /\ [Next]_vars => Origin'
<1> SUFFICES ASSUME FetchAssumption, FetchInv, Origin, [Next]_vars PROVE Origin'
  OBVIOUS
<1>1. /\ Types /\ view \in Seq(AllIds) /\ rows \in Seq(AllIds)
      /\ DOMAIN view = 1 .. Len(view) /\ Len(view) \in Nat
  BY LenProperties DEF FetchInv, Types
<1>2. ASSUME Fetching(Paged \cup {"one"}) \/ Failing \/ Changing PROVE todo # <<>> /\ Current \in Calls
  BY <1>1, <1>2, HeadTailProperties DEF Fetching, Failing, Changing, Types, TypeOK, Current
<1>3. ASSUME todo' = todo, view' = view, got' = got, world' = world,
             rows' = rows \/ rows' = <<>>
      PROVE  Origin'
  <2>1. Current' = Current /\ ToSet(<<>>) = {}
    BY <1>3 DEF Current, ToSet
  <2>2. \A l \in Lists : ToSet(world'[l]) \subseteq Ids(l) /\ ToSet(got'[l]) \subseteq Ids(l)
    BY <1>3 DEF Origin
  <2>3. ASSUME todo' # <<>>, Current'.list \in Lists
        PROVE  ToSet(view') \subseteq Ids(Current'.list) /\ ToSet(rows') \subseteq Ids(Current'.list)
    <3>1. ToSet(view) \subseteq Ids(Current.list) /\ ToSet(rows) \subseteq Ids(Current.list)
      BY <1>3, <2>1, <2>3 DEF Origin
    <3> QED
      BY <1>3, <2>1, <3>1
  <2> QED
    BY <2>2, <2>3 DEF Origin
<1>4. CASE Page
  <2>1. todo # <<>> /\ Current.pager \in Paged /\ world' = world /\ Current \in Calls
    BY <1>2, <1>4 DEF Page, Fetching
  <2>2. Accounts(view, Offset, rows, walk)
    BY <2>1 DEF FetchInv, WalkInv
  <2>3. Items \in Seq(AllIds) /\ rows \o Items \in Seq(AllIds) /\ Offset \in Nat
    BY <1>1, <2>2, PageRead
  <2>4. ToSet(Items) \subseteq ToSet(view)
    <3> DEFINE e == IF Offset + Limit < Len(view) THEN Offset + Limit ELSE Len(view)
    <3>1. Limit \in Nat /\ e \in Nat /\ e <= Len(view)
      BY <1>1, <2>3 DEF FetchAssumption
    <3>2. Items = SubSeq(view, Offset + 1, e)
      BY DEF Items
    <3> HIDE DEF e
    <3> SUFFICES ASSUME NEW x \in ToSet(Items) PROVE x \in ToSet(view)
      OBVIOUS
    <3>3. PICK j \in 1 .. Len(Items) : x = Items[j]
      BY <2>3, ToSetIs
    <3>4. j \in Nat /\ j >= 1 /\ Offset + j <= e /\ x = view[Offset + j]
      <4>1. /\ Len(Items) = IF Offset + 1 <= e THEN e - (Offset + 1) + 1 ELSE 0
            /\ \A k \in 1 .. e - (Offset + 1) + 1 : Items[k] = view[Offset + 1 + k - 1]
        <5>1. \A k \in Offset + 1 .. e : view[k] \in AllIds
          BY <1>1, <2>3, <3>1, ElementOfSeq
        <5>2. Offset + 1 \in Int /\ e \in Int
          BY <2>3, <3>1
        <5> QED
          BY <3>2, <5>1, <5>2, SubSeqProperties
      <4>2. Offset + 1 + j - 1 = Offset + j
        BY <2>3, <3>3
      <4> QED
        BY <2>3, <3>1, <3>3, <4>1, <4>2
    <3>5. Offset + j \in 1 .. Len(view)
      BY <1>1, <2>3, <3>1, <3>4
    <3> QED
      BY <1>1, <3>4, <3>5, EntryOf
  <2>5. ToSet(rows \o Items) \subseteq ToSet(rows) \cup ToSet(view)
    BY <1>1, <2>3, <2>4, ToSetOfConcat
  <2> DEFINE read == rows \o Items
  <2>6. Current.list \in Lists => ToSet(read) \subseteq Ids(Current.list)
    BY <2>1, <2>5 DEF Origin
  <2> HIDE DEF read
  <2>7. CASE Ends
    <3>1. EndWalk(read, "ran") /\ read \in Seq(AllIds)
      BY <1>4, <2>3, <2>7 DEF Page, read
    <3> QED
      BY <2>1, <2>6, <3>1, OriginEnds
  <2>8. CASE ~Ends
    <3>1. rows' = read /\ UNCHANGED <<todo, view, got>>
      BY <1>4, <2>8 DEF Page, read
    <3>2. Current' = Current
      BY <3>1 DEF Current
    <3>3. \A l \in Lists : ToSet(world'[l]) \subseteq Ids(l) /\ ToSet(got'[l]) \subseteq Ids(l)
      BY <2>1, <3>1 DEF Origin
    <3>4. Current'.list \in Lists => ToSet(view') \subseteq Ids(Current'.list)
                                       /\ ToSet(rows') \subseteq Ids(Current'.list)
      <4>1. Current.list \in Lists => ToSet(view) \subseteq Ids(Current.list)
                                       /\ ToSet(read) \subseteq Ids(Current.list)
        BY <2>1, <2>6 DEF Origin
      <4> QED
        BY <3>1, <3>2, <4>1
    <3> QED
      BY <3>3, <3>4 DEF Origin
  <2> QED
    BY <2>7, <2>8
<1>5. CASE Object
  <2>1. todo # <<>> /\ EndWalk(<<>>, "ran") /\ world' = world /\ Current \in Calls
    BY <1>2, <1>5 DEF Object, Fetching
  <2>2. ToSet(<<>>) = {}
    BY DEF ToSet
  <2> QED
    BY <2>1, <2>2, EmptySeq, OriginEnds
<1>6. CASE Retry
  BY <1>3, <1>6 DEF Retry
<1>7. CASE Fail
  <2>1. todo # <<>> /\ world' = world /\ Current \in Calls
    BY <1>2, <1>7 DEF Fail
  <2>2. CASE Current.onError = "keep"
    <3>1. EndWalk(rows, "cut")
      BY <1>7, <2>2 DEF Fail
    <3> QED
      BY <1>1, <2>1, <3>1, OriginEnds DEF Origin
  <2>3. CASE Current.onError = "drop"
    <3>1. EndWalk(<<>>, "dropped") /\ ToSet(<<>>) = {}
      BY <1>7, <2>3 DEF Fail, ToSet
    <3> QED
      BY <2>1, <3>1, EmptySeq, OriginEnds
  <2>4. CASE Current.onError = "raise"
    BY <1>3, <1>7, <2>1, <2>4 DEF Fail
  <2> QED
    BY <2>1, <2>2, <2>3, <2>4 DEF Calls
<1>8. ASSUME Changing, ToSet(view') \subseteq Ids(Current.list) PROVE Origin'
  <2>1. UNCHANGED <<world, todo, rows, got>> /\ Current' = Current
    BY <1>8 DEF Changing, Current
  <2>2. \A l \in Lists : ToSet(world'[l]) \subseteq Ids(l) /\ ToSet(got'[l]) \subseteq Ids(l)
    BY <2>1 DEF Origin
  <2>3. todo # <<>> /\ Current.list \in Lists => ToSet(rows) \subseteq Ids(Current.list)
    BY DEF Origin
  <2> QED
    BY <1>8, <2>1, <2>2, <2>3 DEF Origin
<1>9. CASE Join
  <2>1. Changing /\ todo # <<>> /\ Current.list \in Lists /\ Current \in Calls
    BY <1>2, <1>9 DEF Join, Changing
  <2>2. PICK i \in Ids(Current.list) \ ToSet(view) : \E at \in 1 .. Len(view) + 1 : view' = InsertAt(view, at, i)
    BY <1>9 DEF Join
  <2>3. PICK at \in 1 .. Len(view) + 1 : view' = InsertAt(view, at, i)
    BY <2>2
  <2>4. ToSet(view') \subseteq ToSet(view) \cup {i}
    <3> SUFFICES ASSUME NEW x \in ToSet(view') PROVE x \in ToSet(view) \cup {i}
      OBVIOUS
    <3>1. i \in AllIds
      <4>1. PICK s \in Initial(Current.list) : i \in ToSet(s)
        BY DEF Ids
      <4> QED
        BY <2>1, <4>1 DEF AllIds
    <3>2. /\ view' \in Seq(AllIds) /\ Len(view') = Len(view) + 1
          /\ \A j \in 1 .. Len(view) + 1 :
                view'[j] = IF j < at THEN view[j] ELSE IF j = at THEN i ELSE view[j - 1]
      <4> DEFINE u == InsertAt(view, at, i)
      <4>1. /\ u \in Seq(AllIds) /\ Len(u) = Len(view) + 1
            /\ \A j \in 1 .. Len(view) + 1 :
                  u[j] = IF j < at THEN view[j] ELSE IF j = at THEN i ELSE view[j - 1]
        BY <1>1, <3>1, InsertAtIs
      <4>2. view' = u
        BY <2>3
      <4> HIDE DEF u
      <4> QED
        BY <4>1, <4>2
    <3>3. PICK j \in 1 .. Len(view') : x = view'[j]
      BY <3>2, ToSetIs
    <3>4. x = i \/ \E k \in 1 .. Len(view) : x = view[k]
      <4>1. j < at => j \in 1 .. Len(view)
        BY <1>1, <3>2, <3>3
      <4>2. j > at => j - 1 \in 1 .. Len(view)
        BY <1>1, <3>2, <3>3
      <4> QED
        BY <1>1, <3>2, <3>3, <4>1, <4>2
    <3> QED
      BY <1>1, <3>4, EntryOf
  <2> QED
    BY <1>8, <2>1, <2>4 DEF Origin
<1>10. CASE Leave
  <2>1. Changing /\ todo # <<>> /\ Current.list \in Lists /\ Current \in Calls
    BY <1>2, <1>10 DEF Leave, Changing
  <2>2. PICK at \in DOMAIN view : view' = RemoveAt(view, at)
    BY <1>10 DEF Leave
  <2>3. ToSet(view') \subseteq ToSet(view)
    <3> SUFFICES ASSUME NEW x \in ToSet(view') PROVE x \in ToSet(view)
      OBVIOUS
    <3>1. /\ view' \in Seq(AllIds) /\ Len(view') = Len(view) - 1
          /\ \A j \in 1 .. Len(view) - 1 : view'[j] = IF j < at THEN view[j] ELSE view[j + 1]
      <4>1. view \in Seq(AllIds) /\ at \in 1 .. Len(view)
        BY <1>1
      <4> QED
        BY <2>2, <4>1, RemoveAtIs
    <3>2. PICK j \in 1 .. Len(view') : x = view'[j]
      BY <3>1, ToSetIs
    <3>3. \E k \in 1 .. Len(view) : x = view[k]
      <4>1. j \in 1 .. Len(view) /\ j + 1 \in 1 .. Len(view)
        BY <1>1, <3>1, <3>2
      <4> QED
        BY <1>1, <3>1, <3>2, <4>1
    <3> QED
      BY <1>1, <3>3, EntryOf
  <2> QED
    BY <1>8, <2>1, <2>3 DEF Origin
<1>11. CASE UNCHANGED vars
  BY <1>3, <1>11 DEF vars
<1> QED
  BY <1>4, <1>5, <1>6, <1>7, <1>9, <1>10, <1>11 DEF Next, Request, Done

\* The rows a fetch has read are rows of their lists.
LEMMA RowsOrigin ==
    ASSUME FetchInv, Origin
    PROVE  /\ GotTyped
           /\ \A i \in DOMAIN Rows("client") : Rows("client")[i].rssi \in Int
           /\ \A i \in DOMAIN Rows("alarm") : Rows("alarm")[i].count \in Nat
           /\ \A i \in DOMAIN Rows("vlan") : Rows("vlan")[i].ports \in Nat
           /\ \A i \in DOMAIN Rows("switch") : /\ Rows("switch")[i].watts \in Nat
                                               /\ Rows("switch")[i].free \in Nat
<1>1. GotTyped
  BY DEF GotTyped, FetchInv, Types
<1>2. ASSUME NEW l \in Lists, NEW i \in DOMAIN Rows(l)
      PROVE  \E k \in Ids(l) : Rows(l)[i] = Row(l, k)
  BY <1>1, RowsIs DEF Origin
<1>3. {"client", "alarm", "vlan", "switch"} \subseteq Lists
  BY DEF Lists
<1>4. \A i \in DOMAIN Rows("client") : Rows("client")[i].rssi \in Int
  BY <1>2, <1>3, RowAssumption
<1>5. \A i \in DOMAIN Rows("alarm") : Rows("alarm")[i].count \in Nat
  BY <1>2, <1>3, RowAssumption
<1>6. \A i \in DOMAIN Rows("vlan") : Rows("vlan")[i].ports \in Nat
  BY <1>2, <1>3, RowAssumption
<1>7. \A i \in DOMAIN Rows("switch") : /\ Rows("switch")[i].watts \in Nat
                                       /\ Rows("switch")[i].free \in Nat
  BY <1>2, <1>3, RowAssumption
<1> QED
  BY <1>1, <1>4, <1>5, <1>6, <1>7

-----------------------------------------------------------------------------
(* What a fetch shows that has read the lists as they are.                 *)

\* The lists of the controller, each with entries of its own, and each once.
World == /\ world \in [Lists -> Seq(AllIds)]
         /\ \A l \in Lists : IsInjective(world[l]) /\ ToSet(world[l]) \subseteq Ids(l)

\* What is counted by position is counted by entry, as every entry is listed
\* once.
LEMMA OnceEach ==
    ASSUME NEW S, NEW s \in Seq(S), IsInjective(s),
           NEW A \in SUBSET (1 .. Len(s)), NEW B \in SUBSET ToSet(s),
           \A i \in 1 .. Len(s) : i \in A <=> s[i] \in B
    PROVE  Cardinality(A) = Cardinality(B) /\ IsFiniteSet(A) /\ IsFiniteSet(B)
<1> DEFINE f == [i \in A |-> s[i]]
<1>1. DOMAIN s = 1 .. Len(s) /\ Len(s) \in Nat /\ ToSet(s) = {s[j] : j \in 1 .. Len(s)}
      /\ IsFiniteSet(ToSet(s))
  BY LenProperties, ToSetIs
<1>2. f \in Bijection(A, B)
  <2>1. f \in [A -> B]
    OBVIOUS
  <2>2. \A i, j \in A : f[i] = f[j] => i = j
    BY <1>1 DEF IsInjective
  <2>3. \A x \in B : \E i \in A : f[i] = x
    BY <1>1
  <2> HIDE DEF f
  <2> QED
    BY <2>1, <2>2, <2>3 DEF Bijection, Injection, Surjection, IsInjective
<1>3. IsFiniteSet(A) /\ IsFiniteSet(B)
  <2>1. IsFiniteSet(1 .. Len(s))
    BY <1>1, FS_Interval
  <2> QED
    BY <1>1, <2>1, FS_Subset
<1> QED
  BY <1>2, <1>3, FS_Bijection DEF ExistsBijection

\* The same of the rows of a list that has been read.
LEMMA CountsOfWorld ==
    ASSUME World, got = world, NEW l \in Lists, NEW A \in SUBSET DOMAIN Rows(l),
           NEW B \in SUBSET ToSet(world[l]),
           \A i \in DOMAIN Rows(l) : i \in A <=> world[l][i] \in B
    PROVE  Cardinality(A) = Cardinality(B) /\ IsFiniteSet(A) /\ IsFiniteSet(B)
<1>1. world[l] \in Seq(AllIds) /\ IsInjective(world[l])
  BY DEF World
<1>2. DOMAIN Rows(l) = 1 .. Len(world[l])
  BY RowsIs DEF GotTyped, World
<1> QED
  BY <1>1, <1>2, OnceEach

\* The rows of such a list by their positions.
LEMMA RowsOfWorld ==
    ASSUME World, got = world, NEW l \in Lists
    PROVE  /\ GotTyped /\ IsFiniteSet(DOMAIN Rows(l)) /\ IsFiniteSet(ToSet(world[l]))
           /\ DOMAIN Rows(l) = 1 .. Len(world[l]) /\ DOMAIN world[l] = 1 .. Len(world[l])
           /\ Len(world[l]) \in Nat /\ Len(Rows(l)) = Len(world[l])
           /\ \A i \in DOMAIN Rows(l) : /\ world[l][i] \in ToSet(world[l])
                                        /\ world[l][i] \in Ids(l)
                                        /\ Rows(l)[i] = Row(l, world[l][i])
           /\ \A x \in ToSet(world[l]) : \E i \in DOMAIN Rows(l) : world[l][i] = x
           /\ \A i, j \in DOMAIN Rows(l) : world[l][i] = world[l][j] => i = j
<1>1. GotTyped /\ world[l] \in Seq(AllIds) /\ IsInjective(world[l])
  BY DEF GotTyped, World
<1>2. /\ DOMAIN world[l] = 1 .. Len(world[l]) /\ Len(world[l]) \in Nat
      /\ ToSet(world[l]) = {world[l][j] : j \in 1 .. Len(world[l])}
      /\ IsFiniteSet(ToSet(world[l]))
  BY <1>1, LenProperties, ToSetIs
<1>3. /\ DOMAIN Rows(l) = 1 .. Len(world[l]) /\ IsFiniteSet(DOMAIN Rows(l))
      /\ \A i \in DOMAIN Rows(l) : Rows(l)[i] = Row(l, world[l][i])
  BY <1>1, RowsIs
<1>4. Len(Rows(l)) = Len(world[l])
  BY <1>2, <1>3
<1>5. \A i, j \in 1 .. Len(world[l]) : world[l][i] = world[l][j] => i = j
  BY <1>1, <1>2 DEF IsInjective
<1>6. \A i \in 1 .. Len(world[l]) : world[l][i] \in ToSet(world[l]) /\ world[l][i] \in Ids(l)
  BY <1>2 DEF World
<1> QED
  BY <1>1, <1>2, <1>3, <1>4, <1>5, <1>6

\* The totals count the APs and switches that are there.
LEMMA TotalsOfWorld == ASSUME World, got = world PROVE ExactTotals
<1> DEFINE aps == Rows("ap")
           switches == Rows("switch")
           S == DOMAIN aps
           U == DOMAIN switches
           up == {i \in S : aps[i].raw \in {"online", "connect"}}
           odd == {i \in S : aps[i].raw = "flagged"}
           down == {i \in S : aps[i].raw \in {"offline", "disconnect"}}
           on == {i \in U : SwitchStatus(switches[i].raw) = "online"}
           Up == {i \in ToSet(world["ap"]) : Row("ap", i).raw \in {"online", "connect", "flagged"}}
           Down == {i \in ToSet(world["ap"]) : Row("ap", i).raw \in {"offline", "disconnect"}}
           On == {i \in ToSet(world["switch"]) : Row("switch", i).raw \in {"online", "approved"}}
<1>0. "ap" \in Lists /\ "switch" \in Lists
  BY DEF Lists
<1>1. /\ ApStats(aps).total = Len(aps) /\ ApStats(aps).online_up = Cardinality(up) + Cardinality(odd)
      /\ ApStats(aps).offline = Cardinality(down)
  BY DEF ApStats, Many, Size, RestrictValues, Restrict
<1>2. SwitchStats(switches).total = Len(switches) /\ SwitchStats(switches).online = Cardinality(on)
  BY DEF SwitchStats, Many, Size, RestrictValues, Restrict
<1>3. /\ IsFiniteSet(S) /\ Len(aps) = Len(world["ap"]) /\ Len(switches) = Len(world["switch"])
      /\ \A i \in S : world["ap"][i] \in ToSet(world["ap"]) /\ aps[i] = Row("ap", world["ap"][i])
      /\ \A i \in U : /\ world["switch"][i] \in ToSet(world["switch"])
                      /\ switches[i] = Row("switch", world["switch"][i])
  BY <1>0, RowsOfWorld
<1>4. Cardinality(up) + Cardinality(odd) = Cardinality(up \cup odd)
  <2>1. up \in SUBSET S /\ odd \in SUBSET S /\ up \cap odd = {}
    OBVIOUS
  <2>2. IsFiniteSet(S)
    BY <1>3
  <2> HIDE DEF up, odd, S
  <2> QED
    BY <2>1, <2>2, Disjoint
<1>5. Cardinality(up \cup odd) = Cardinality(Up)
  <2> DEFINE A == up \cup odd
  <2>1. A \in SUBSET S /\ Up \in SUBSET ToSet(world["ap"])
        /\ \A i \in S : i \in A <=> world["ap"][i] \in Up
    BY <1>3
  <2> HIDE DEF A, Up
  <2> QED
    BY <1>0, <2>1, CountsOfWorld DEF A
<1>6. Cardinality(down) = Cardinality(Down)
  <2>1. down \in SUBSET S /\ Down \in SUBSET ToSet(world["ap"])
        /\ \A i \in S : i \in down <=> world["ap"][i] \in Down
    BY <1>3
  <2> HIDE DEF down, Down
  <2> QED
    BY <1>0, <2>1, CountsOfWorld
<1>7. Cardinality(on) = Cardinality(On)
  <2>1. on \in SUBSET U /\ On \in SUBSET ToSet(world["switch"])
        /\ \A i \in U : i \in on <=> world["switch"][i] \in On
    BY <1>3 DEF SwitchStatus, PageStatus
  <2> HIDE DEF on, On
  <2> QED
    BY <1>0, <2>1, CountsOfWorld
<1>8. /\ Has("ap", LAMBDA r : r.raw \in {"online", "connect", "flagged"}) = Cardinality(Up)
      /\ Has("ap", LAMBDA r : r.raw \in {"offline", "disconnect"}) = Cardinality(Down)
      /\ Has("switch", LAMBDA r : r.raw \in {"online", "approved"}) = Cardinality(On)
  BY DEF Has
<1> HIDE DEF up, odd, down, on, Up, Down, On
<1> QED
  BY <1>1, <1>2, <1>3, <1>4, <1>5, <1>6, <1>7, <1>8 DEF ExactTotals

\* The drill-in of a switch shows the others of its group.
LEMMA SwitchesOfWorld == ASSUME World, got = world PROVE ExactSwitches
<1> DEFINE list == Rows("switch")
           S == DOMAIN list
           near(g) == {j \in S : list[j].group = g}
<1>0. "switch" \in Lists
  BY DEF Lists
<1>1. /\ IsFiniteSet(S) /\ DOMAIN world["switch"] = S
      /\ \A i \in S : /\ world["switch"][i] \in Ids("switch")
                      /\ list[i] = Row("switch", world["switch"][i])
      /\ \A i, j \in S : world["switch"][i] = world["switch"][j] => i = j
  BY <1>0, RowsOfWorld
<1> HIDE DEF list
<1>2. ASSUME NEW g \in GroupItems(list) PROVE g.switches = Cardinality(near(g.id))
  <2>1. \E i \in S : g = [id |-> list[i].group, switches |-> Cardinality(near(list[i].group))]
    BY DEF GroupItems, Values, Many, Size, RestrictValues, Restrict
  <2> HIDE DEF near
  <2> QED
    BY <2>1
<1>3. ASSUME NEW g, g # None, NEW i \in S, list[i].group = g
      PROVE  Size(Connected(list[i], list)) = Cardinality(near(g)) - 1
  <2> DEFINE others == {j \in S : /\ GroupOf(list[i]) # None /\ GroupOf(list[j]) = GroupOf(list[i])
                                  /\ list[j].id # list[i].id}
  <2>1. Size(Connected(list[i], list)) = Cardinality(others)
    BY DEF Connected, Size, RestrictValues, Restrict
  <2>2. GroupOf(list[i]) = g
    BY <1>3 DEF GroupOf, Or
  <2>3. ASSUME NEW j \in S PROVE GroupOf(list[j]) = g <=> list[j].group = g
    <3>1. list[i].group # list[j].stack
      BY <1>1, <1>3, RowAssumption
    <3> QED
      BY <1>3, <3>1 DEF GroupOf, Or
  <2>4. ASSUME NEW j \in S PROVE list[j].id = list[i].id <=> j = i
    <3>1. list[j].id = world["switch"][j] /\ list[i].id = world["switch"][i]
      BY <1>1, RowAssumption
    <3> QED
      BY <1>1, <3>1
  <2>5. others = near(g) \ {i} /\ i \in near(g)
    BY <1>3, <2>2, <2>3, <2>4
  <2>6. IsFiniteSet(near(g))
    <3>1. near(g) \in SUBSET S
      OBVIOUS
    <3> HIDE DEF near, S
    <3> QED
      BY <1>1, <3>1, FS_Subset
  <2> HIDE DEF others, near
  <2> QED
    BY <2>1, <2>5, <2>6, FS_RemoveElement
<1>4. \A i \in S : Row("switch", world["switch"][i]) = list[i]
  BY <1>1
<1> HIDE DEF near, S
<1> QED
  BY <1>1, <1>2, <1>3, <1>4 DEF ExactSwitches, S, list

\* The graph paints zones, groups and switches as they are.
LEMMA GraphOfWorld == ASSUME World, got = world PROVE ExactGraph
<1> DEFINE zones == Rows("rkszones")
           aps == Rows("ap")
           switches == Rows("switch")
<1>0. {"ap", "switch", "rkszones"} \subseteq Lists
  BY DEF Lists
<1>1. /\ IsFiniteSet(DOMAIN switches)
      /\ \A i \in DOMAIN aps : world["ap"][i] \in ToSet(world["ap"]) /\ aps[i] = Row("ap", world["ap"][i])
      /\ \A x \in ToSet(world["switch"]) : \E i \in DOMAIN switches : world["switch"][i] = x
      /\ \A i \in DOMAIN switches : switches[i] = Row("switch", world["switch"][i])
  BY <1>0, RowsOfWorld
<1>2. GotTyped
  BY <1>0, RowsOfWorld
<1> SUFFICES ASSUME NEW n \in ToSet(Nodes)
             PROVE  /\ n.type = "zone" => n.down = Has("ap", LAMBDA r : r.zone = n.id /\ r.raw = "offline")
                    /\ n.type = "group" /\ n.status = "offline" =>
                           Has("switch", LAMBDA r : GroupOf(r) = n.id /\ ~(r.raw = "offline")) = 0
                    /\ n.type = "switch" /\ n.status = "online" => n.id \notin Alarmed
  <2>1. \A i \in DOMAIN Nodes : Nodes[i] \in ToSet(Nodes)
    BY DEF ToSet
  <2> QED
    BY <2>1 DEF ExactGraph
<1>3. /\ \A r : NodeStatus(r.raw) = "offline" <=> r.raw = "offline"
  BY DEF NodeStatus
<1>4. CASE n = Top(<<"cluster", None>> \in seen)
  BY <1>4 DEF Top, Node
<1>5. ASSUME NEW z, n = ZoneNode(z, aps, Alarmed)
      PROVE  /\ n.type = "zone"
             /\ n.down = Has("ap", LAMBDA r : r.zone = n.id /\ r.raw = "offline")
  <2> DEFINE A == {i \in DOMAIN aps : aps[i].zone = z /\ NodeStatus(aps[i].raw) = "offline"}
             B == {i \in ToSet(world["ap"]) : Row("ap", i).zone = z /\ Row("ap", i).raw = "offline"}
             own == [i \in {j \in DOMAIN aps : aps[j].zone = z} |-> aps[i]]
  <2>1. n.type = "zone" /\ n.id = z
    BY <1>5 DEF ZoneNode
  <2>2. n.down = Cardinality({i \in DOMAIN own : NodeStatus(own[i].raw) = "offline"})
    BY <1>5 DEF ZoneNode, Many, Size, RestrictValues, Restrict
  <2>3. {i \in DOMAIN own : NodeStatus(own[i].raw) = "offline"} = A
    OBVIOUS
  <2>4. Cardinality(A) = Cardinality(B)
    <3>1. A \in SUBSET DOMAIN aps /\ B \in SUBSET ToSet(world["ap"])
          /\ \A i \in DOMAIN aps : i \in A <=> world["ap"][i] \in B
      BY <1>1, <1>3
    <3> HIDE DEF A, B
    <3> QED
      BY <1>0, <3>1, CountsOfWorld
  <2>5. Has("ap", LAMBDA r : r.zone = z /\ r.raw = "offline") = Cardinality(B)
    BY DEF Has
  <2> HIDE DEF A, B, own
  <2> QED
    BY <2>1, <2>2, <2>3, <2>4, <2>5
<1>6. ASSUME NEW g, n = GroupNode(g, switches)
      PROVE  /\ n.type = "group"
             /\ n.status = "offline" =>
                    Has("switch", LAMBDA r : GroupOf(r) = n.id /\ ~(r.raw = "offline")) = 0
  <2> DEFINE statuses == {NodeStatus(switches[i].raw) : i \in {j \in DOMAIN switches : GroupOf(switches[j]) = g}}
             B == {i \in ToSet(world["switch"]) :
                      GroupOf(Row("switch", i)) = g /\ ~(Row("switch", i).raw = "offline")}
             own == [i \in {j \in DOMAIN switches : GroupOf(switches[j]) = g} |-> switches[i]]
  <2>1. n.type = "group" /\ n.id = g
    BY <1>6 DEF GroupNode, Node
  <2>2. n.status = Overall(statuses)
    <3>1. n.status = Overall({NodeStatus(own[i].raw) : i \in DOMAIN own})
      BY <1>6 DEF GroupNode, Node, Values, RestrictValues, Restrict
    <3>2. {NodeStatus(own[i].raw) : i \in DOMAIN own} = statuses
      OBVIOUS
    <3> QED
      BY <3>1, <3>2
  <2>3. Has("switch", LAMBDA r : GroupOf(r) = g /\ ~(r.raw = "offline")) = Cardinality(B)
    BY DEF Has
  <2>4. ASSUME n.status = "offline" PROVE B = {}
    <3>1. statuses = {"offline"}
      <4> HIDE DEF statuses
      <4> QED
        BY <2>2, <2>4 DEF Overall
    <3> SUFFICES ASSUME NEW x \in B PROVE FALSE
      OBVIOUS
    <3>2. PICK i \in DOMAIN switches : switches[i] = Row("switch", x)
      BY <1>1
    <3>3. NodeStatus(switches[i].raw) \in statuses
      BY <3>2
    <3> QED
      BY <1>3, <3>1, <3>2, <3>3
  <2> HIDE DEF B
  <2> QED
    BY <2>1, <2>3, <2>4, FS_EmptySet
<1>7. ASSUME NEW i \in DOMAIN switches, n = SwitchNode(switches[i], Alarmed)
      PROVE  n.type = "switch" /\ (n.status = "online" => n.id \notin Alarmed)
  BY <1>7 DEF SwitchNode, Node, Escalated
<1>8. \/ n = Top(<<"cluster", None>> \in seen)
      \/ \E i \in DOMAIN zones : n = ZoneNode(zones[i].id, aps, Alarmed)
      \/ \E i \in DOMAIN switches : n = GroupNode(GroupOf(switches[i]), switches)
      \/ \E i \in DOMAIN switches : n = SwitchNode(switches[i], Alarmed)
  BY <1>2, NodesOf
<1>9. CASE \E i \in DOMAIN zones : n = ZoneNode(zones[i].id, aps, Alarmed)
  <2>1. PICK i \in DOMAIN zones : n = ZoneNode(zones[i].id, aps, Alarmed)
    BY <1>9
  <2> QED
    BY <2>1, <1>5
<1>10. CASE \E i \in DOMAIN switches : n = GroupNode(GroupOf(switches[i]), switches)
  <2>1. PICK i \in DOMAIN switches : n = GroupNode(GroupOf(switches[i]), switches)
    BY <1>10
  <2> QED
    BY <2>1, <1>6
<1>11. CASE \E i \in DOMAIN switches : n = SwitchNode(switches[i], Alarmed)
  <2>1. PICK i \in DOMAIN switches : n = SwitchNode(switches[i], Alarmed)
    BY <1>11
  <2> QED
    BY <2>1, <1>7
<1> QED
  BY <1>4, <1>8, <1>9, <1>10, <1>11

\* The sites count the WLANs that are there, and no client too few.
LEMMA SitesOfWorld == ASSUME World, got = world PROVE ExactSites
<1> DEFINE wlans == Rows("wlan")
           clients == Rows("client")
           S == DOMAIN wlans
           C == DOMAIN clients
           own(s) == {i \in S : Site(wlans[i]) = s}
           of(s) == [i \in own(s) |-> wlans[i]]
           met(s) == Cardinality({i \in C : Home(clients[i], wlans) = s})
           listed(s) == SumFunction([i \in DOMAIN of(s) |-> of(s)[i].clients])
           entry(s) == [id |-> s, wlans |-> Cardinality(DOMAIN of(s)),
                        clients |-> IF met(s) > listed(s) THEN met(s) ELSE listed(s)]
<1>0. "wlan" \in Lists /\ "client" \in Lists
  BY DEF Lists
<1>1. /\ IsFiniteSet(S) /\ IsFiniteSet(C)
      /\ \A i \in S : /\ world["wlan"][i] \in ToSet(world["wlan"]) /\ world["wlan"][i] \in Ids("wlan")
                      /\ wlans[i] = Row("wlan", world["wlan"][i])
      /\ \A i \in C : world["client"][i] \in ToSet(world["client"]) /\ clients[i] = Row("client", world["client"][i])
  BY <1>0, RowsOfWorld
<1> SUFFICES ASSUME NEW item \in SiteItems(wlans, clients)
             PROVE  /\ item.wlans = Has("wlan", LAMBDA w : Or(w.zone, "unknown") = item.id)
                    /\ item.clients >= Has("client", LAMBDA c : c.zone = item.id)
                    /\ item.id # "unknown" => Size(SiteDrill(wlans, item.id)) = item.wlans
  BY DEF ExactSites
<1> HIDE DEF wlans, clients
<1>2. PICK k \in S : item = entry(Site(wlans[k]))
  <2>1. \E s \in {Site(wlans[i]) : i \in S} : item = entry(s)
    BY Zenon DEF SiteItems, Values, Many, Size, RestrictValues, Restrict, Sum
  <2> HIDE DEF entry, S
  <2> QED
    BY <2>1
<1> DEFINE s == Site(wlans[k])
           B == {i \in ToSet(world["wlan"]) : Or(Row("wlan", i).zone, "unknown") = s}
           D == {i \in ToSet(world["client"]) : Row("client", i).zone = s}
           N == {i \in C : clients[i].zone = s}
           H == {i \in C : Home(clients[i], wlans) = s}
<1>3. s # None
  BY RowAssumption DEF Site, Or
<1>4. item.id = s /\ item.wlans = Cardinality(own(s))
      /\ item.clients = (IF met(s) > listed(s) THEN met(s) ELSE listed(s))
  BY <1>2
<1> HIDE DEF entry, s
<1>5. item.wlans = Has("wlan", LAMBDA w : Or(w.zone, "unknown") = item.id)
  <2>1. own(s) \in SUBSET S /\ B \in SUBSET ToSet(world["wlan"])
        /\ \A i \in S : i \in own(s) <=> world["wlan"][i] \in B
    BY <1>1 DEF Site
  <2>2. Cardinality(own(s)) = Cardinality(B)
    <3> HIDE DEF own, B
    <3> QED
      BY <1>0, <2>1, CountsOfWorld DEF wlans
  <2>3. Has("wlan", LAMBDA w : Or(w.zone, "unknown") = s) = Cardinality(B)
    BY DEF Has
  <2> QED
    BY <1>4, <2>2, <2>3
<1>6. item.clients >= Has("client", LAMBDA c : c.zone = item.id)
  <2>1. N \in SUBSET C /\ D \in SUBSET ToSet(world["client"])
        /\ \A i \in C : i \in N <=> world["client"][i] \in D
    BY <1>1
  <2>2. Cardinality(N) = Cardinality(D)
    <3> HIDE DEF N, D
    <3> QED
      BY <1>0, <2>1, CountsOfWorld DEF clients
  <2>3. Has("client", LAMBDA c : c.zone = s) = Cardinality(D)
    BY DEF Has
  <2>4. N \in SUBSET H /\ H \in SUBSET C
    BY <1>3 DEF Home
  <2>5. Cardinality(N) <= Cardinality(H) /\ Cardinality(N) \in Nat /\ Cardinality(H) \in Nat
    <3> HIDE DEF N, H, C
    <3>1. IsFiniteSet(H) /\ IsFiniteSet(N)
      BY <1>1, <2>1, <2>4, FS_Subset
    <3> QED
      BY <2>4, <3>1, FS_Subset, FS_CardinalityType
  <2>6. listed(s) \in Int
    <3> DEFINE f == [i \in DOMAIN of(s) |-> of(s)[i].clients]
    <3>1. IsFiniteSet(DOMAIN f)
      <4>1. DOMAIN f \in SUBSET S
        OBVIOUS
      <4> HIDE DEF f
      <4> QED
        BY <1>1, <4>1, FS_Subset
    <3>2. \A i \in DOMAIN f : f[i] \in Int
      BY <1>1, RowAssumption
    <3> HIDE DEF f
    <3>3. SumFunctionOnSet(f, DOMAIN f) \in Int
      BY <3>1, <3>2, SumIs
    <3> QED
      BY <3>3 DEF SumFunction, f
  <2>7. met(s) = Cardinality(H)
    OBVIOUS
  <2> HIDE DEF listed, met, N, H, D
  <2> QED
    BY <1>4, <2>2, <2>3, <2>5, <2>6, <2>7
<1>7. ASSUME s # "unknown" PROVE Size(SiteDrill(wlans, s)) = Cardinality(own(s))
  <2>1. Size(SiteDrill(wlans, s)) = Cardinality({i \in S : wlans[i].zone = s})
    BY DEF SiteDrill, Size, RestrictValues, Restrict
  <2>2. \A i \in S : wlans[i].zone = s <=> Site(wlans[i]) = s
    BY <1>3, <1>7 DEF Site, Or
  <2> QED
    BY <2>1, <2>2
<1> HIDE DEF own
<1> QED
  BY <1>4, <1>5, <1>6, <1>7

\* A rounded mean lies between the least and the greatest of what it is the
\* mean of.
LEMMA Mean ==
    ASSUME NEW S, IsFiniteSet(S), S # {}, NEW f, \A x \in S : f[x] \in Int,
           NEW m, m = Rounded(SumFunctionOnSet(f, S), Cardinality(S))
    PROVE  m \in Int /\ (\E x \in S : f[x] <= m) /\ (\E x \in S : f[x] >= m)
<1> DEFINE n == SumFunctionOnSet(f, S)
           d == Cardinality(S)
           q == n \div d
           r == n % d
<1>1. n \in Int /\ d \in Nat \ {0}
  BY SumIs, FS_CardinalityType, FS_EmptySet
<1>2. /\ m = IF 2 * r < d \/ (2 * r = d /\ q % 2 = 0) THEN q ELSE q + 1
  BY DEF Rounded
<1> HIDE DEF n, d
<1>3. q \in Int /\ r \in 0 .. d - 1 /\ n = d * q + r
  BY <1>1, Division
<1> HIDE DEF q, r
<1>4. m \in Int /\ (m = q \/ (m = q + 1 /\ r > 0))
  BY <1>1, <1>2, <1>3
<1>5. ASSUME \A x \in S : f[x] > m PROVE FALSE
  <2> DEFINE g == [x \in S |-> m + 1]
  <2>1. \A x \in S : g[x] \in Int /\ g[x] <= f[x] /\ g[x] = m + 1
    BY <1>4, <1>5
  <2> HIDE DEF g
  <2>2. SumFunctionOnSet(g, S) <= n
    BY <2>1, SumGrows DEF n
  <2>3. SumFunctionOnSet(g, S) = d * (m + 1)
    BY <1>4, <2>1, SumOfSame DEF d
  <2>4. d * (q + 1) <= d * (m + 1)
    BY <1>1, <1>3, <1>4, TimesGrows
  <2>5. d * (q + 1) = d * q + d /\ d * q \in Int
    BY <1>1, <1>3, TimesNext
  <2>6. d * (m + 1) \in Int
    BY <1>1, <1>4
  <2> QED
    BY <1>1, <1>3, <2>2, <2>3, <2>4, <2>5, <2>6
<1>6. ASSUME \A x \in S : f[x] < m PROVE FALSE
  <2> DEFINE g == [x \in S |-> m - 1]
  <2>1. \A x \in S : g[x] \in Int /\ f[x] <= g[x] /\ g[x] = m - 1
    BY <1>4, <1>6
  <2> HIDE DEF g
  <2>2. n <= SumFunctionOnSet(g, S)
    BY <2>1, SumGrows DEF n
  <2>3. SumFunctionOnSet(g, S) = d * (m - 1)
    BY <1>4, <2>1, SumOfSame DEF d
  <2>4. d * (m - 1) \in Int /\ d * q \in Int /\ d * ((m - 1) + 1) = d * (m - 1) + d
    BY <1>1, <1>3, <1>4, TimesNext
  <2>5. CASE m = q
    <3>1. d * q = d * (m - 1) + d
      BY <2>4, <2>5, <1>3
    <3> QED
      BY <1>1, <1>3, <2>2, <2>3, <2>4, <3>1
  <2>6. CASE m = q + 1 /\ r > 0
    <3>1. m - 1 = q
      BY <2>6, <1>3
    <3> QED
      BY <1>1, <1>3, <2>2, <2>3, <2>4, <2>6, <3>1
  <2> QED
    BY <1>4, <2>5, <2>6
<1> QED
  BY <1>4, <1>5, <1>6

\* The clients that report a signal to an AP.
Heard(clients, a) ==
    {i \in DOMAIN clients : clients[i].rssi # 0 /\ clients[i].ap # None /\ clients[i].ap = a}

\* Which APs have a signal, and that it is the mean of what its clients report.
LEMMA SignalIs ==
    ASSUME NEW clients
    PROVE  /\ \A a : a \in DOMAIN Signal(clients) <=> Heard(clients, a) # {}
           /\ \A a \in DOMAIN Signal(clients) :
                 Signal(clients)[a] =
                    Rounded(SumFunctionOnSet([i \in Heard(clients, a) |-> clients[i].rssi], Heard(clients, a)),
                            Cardinality(Heard(clients, a)))
<1> DEFINE H == {i \in DOMAIN clients : clients[i].rssi # 0 /\ clients[i].ap # None}
           heard == [i \in H |-> clients[i]]
           near(a) == {i \in H : heard[i].ap = a}
           mine(a) == [i \in near(a) |-> heard[i]]
           signal == [a \in {heard[i].ap : i \in H} |->
                        Rounded(SumFunction([i \in near(a) |-> mine(a)[i].rssi]), Cardinality(near(a)))]
<1>1. Signal(clients) = signal
  BY Zenon DEF Signal, Values, Sum, Size, RestrictValues, Restrict
<1>2. ASSUME NEW a PROVE near(a) = Heard(clients, a)
  BY DEF Heard
<1>3. ASSUME NEW a
      PROVE  SumFunction([i \in near(a) |-> mine(a)[i].rssi]) =
                SumFunctionOnSet([i \in Heard(clients, a) |-> clients[i].rssi], Heard(clients, a))
  <2>1. [i \in near(a) |-> mine(a)[i].rssi] = [i \in Heard(clients, a) |-> clients[i].rssi]
    BY <1>2
  <2> DEFINE f == [i \in Heard(clients, a) |-> clients[i].rssi]
  <2>2. DOMAIN f = Heard(clients, a)
    OBVIOUS
  <2> HIDE DEF f
  <2>3. SumFunction(f) = SumFunctionOnSet(f, DOMAIN f)
    BY DEF SumFunction
  <2> QED
    BY <2>1, <2>2, <2>3 DEF f
<1>4. \A a : a \in {heard[i].ap : i \in H} <=> near(a) # {}
  OBVIOUS
<1> HIDE DEF near, mine, heard, H
<1> QED
  BY <1>1, <1>2, <1>3, <1>4

\* An AP is shown with a signal between the least and the greatest its
\* clients report, one without such clients with none.
LEMMA ApsOfWorld == ASSUME World, got = world PROVE ExactAps
<1> DEFINE aps == Rows("ap")
           clients == Rows("client")
           S == DOMAIN aps
           C == DOMAIN clients
           listed == ToSet(world["client"])
           items == ApItems(aps, clients)
           all(i) == {x \in listed : Row("client", x).ap = items[i].id /\ Row("client", x).rssi # 0 /\ TRUE}
           low(i) == {x \in listed : /\ Row("client", x).ap = items[i].id /\ Row("client", x).rssi # 0
                                     /\ Row("client", x).rssi <= items[i].signal}
           high(i) == {x \in listed : /\ Row("client", x).ap = items[i].id /\ Row("client", x).rssi # 0
                                      /\ Row("client", x).rssi >= items[i].signal}
<1>0. "ap" \in Lists /\ "client" \in Lists
  BY DEF Lists
<1>1. /\ IsFiniteSet(C) /\ DOMAIN world["ap"] = S /\ IsFiniteSet(listed)
      /\ \A i \in S : /\ world["ap"][i] \in ToSet(world["ap"]) /\ world["ap"][i] \in Ids("ap")
                      /\ aps[i] = Row("ap", world["ap"][i])
      /\ \A i \in C : /\ world["client"][i] \in listed /\ world["client"][i] \in Ids("client")
                      /\ clients[i] = Row("client", world["client"][i])
      /\ \A x \in listed : \E i \in C : world["client"][i] = x
  BY <1>0, RowsOfWorld
<1>2. \A i \in S : aps[i].id = world["ap"][i] /\ world["ap"][i] # None
  BY <1>0, <1>1, RowAssumption
<1>3. \A i \in C : clients[i].rssi \in Int
  BY <1>1, RowAssumption
<1> HIDE DEF aps, clients, listed
<1>4. /\ DOMAIN items = S
      /\ \A i \in S : /\ items[i].id = world["ap"][i]
                      /\ items[i].signal = IF world["ap"][i] \in DOMAIN Signal(clients)
                                           THEN Signal(clients)[world["ap"][i]] ELSE 0
  BY <1>2 DEF ApItems
<1> HIDE DEF items
<1>5. [i \in DOMAIN items |-> items[i].id] = world["ap"]
  <2>1. world["ap"] = [i \in S |-> world["ap"][i]]
    BY <1>0, <1>1, LenProperties DEF World
  <2> QED
    BY <1>4, <2>1
<1>6. ASSUME NEW i \in S
      PROVE  IF Cardinality(all(i)) = 0 THEN items[i].signal = 0
             ELSE Cardinality(low(i)) > 0 /\ Cardinality(high(i)) > 0
  <2> DEFINE a == world["ap"][i]
             H == Heard(clients, a)
             f == [j \in H |-> clients[j].rssi]
  <2>0. a # None /\ items[i].id = a
    BY <1>2, <1>4
  <2>1. \A j \in C : j \in H <=> clients[j].rssi # 0 /\ clients[j].ap = a
    BY <2>0 DEF Heard
  <2>2. H \in SUBSET C
    BY DEF Heard
  <2>3. /\ IsFiniteSet(all(i)) /\ IsFiniteSet(low(i)) /\ IsFiniteSet(high(i))
    BY <1>1, FS_Subset
  <2>4. ASSUME H = {} PROVE Cardinality(all(i)) = 0 /\ items[i].signal = 0
    <3>1. all(i) = {}
      <4> SUFFICES ASSUME NEW x \in all(i) PROVE FALSE
        OBVIOUS
      <4>1. PICK j \in C : world["client"][j] = x
        BY <1>1
      <4> QED
        BY <1>1, <2>0, <2>1, <2>4, <4>1
    <3>2. a \notin DOMAIN Signal(clients)
      BY <2>4, SignalIs
    <3> QED
      BY <1>4, <3>1, <3>2, FS_EmptySet
  <2>5. ASSUME H # {}
        PROVE  /\ Cardinality(all(i)) # 0
               /\ Cardinality(low(i)) > 0 /\ Cardinality(high(i)) > 0
    <3>1. a \in DOMAIN Signal(clients)
      BY <2>5, SignalIs
    <3>2. items[i].signal = Rounded(SumFunctionOnSet(f, H), Cardinality(H))
      BY <1>4, <3>1, SignalIs
    <3>3. IsFiniteSet(H)
      BY <1>1, <2>2, FS_Subset
    <3>4. \A j \in H : f[j] = clients[j].rssi /\ f[j] \in Int
      BY <1>3, <2>2
    <3> HIDE DEF f, H
    <3>5. (\E j \in H : f[j] <= items[i].signal) /\ (\E j \in H : f[j] >= items[i].signal)
      BY <2>5, <3>2, <3>3, <3>4, Mean
    <3>6. PICK j \in H : f[j] <= items[i].signal
      BY <3>5
    <3>7. PICK k \in H : f[k] >= items[i].signal
      BY <3>5
    <3>8. /\ world["client"][j] \in low(i) /\ world["client"][j] \in all(i)
          /\ world["client"][k] \in high(i)
      BY <1>1, <2>0, <2>1, <2>2, <3>4, <3>6, <3>7
    <3> HIDE DEF all, low, high
    <3> QED
      BY <2>3, <3>8, FS_EmptySet, FS_CardinalityType
  <2> QED
    BY <2>4, <2>5
<1>7. ApTiles(aps).online = Has("ap", LAMBDA r : r.raw = "online")
  <2> DEFINE A == {i \in S : ApStatus(aps[i].raw) = "online"}
             B == {x \in ToSet(world["ap"]) : Row("ap", x).raw = "online"}
  <2>1. ApTiles(aps).online = Cardinality(A)
    BY DEF ApTiles, Many, Size, RestrictValues, Restrict
  <2>2. Has("ap", LAMBDA r : r.raw = "online") = Cardinality(B)
    BY DEF Has
  <2>3. A \in SUBSET DOMAIN Rows("ap") /\ B \in SUBSET ToSet(world["ap"])
        /\ \A i \in DOMAIN Rows("ap") : i \in A <=> world["ap"][i] \in B
    BY <1>1 DEF ApStatus, PageStatus, aps
  <2> HIDE DEF A, B
  <2> QED
    BY <1>0, <2>1, <2>2, <2>3, CountsOfWorld
<1>8. \A i \in S :
        /\ Has("client", LAMBDA c : c.ap = items[i].id /\ c.rssi # 0 /\ TRUE) = Cardinality(all(i))
        /\ Has("client", LAMBDA c : c.ap = items[i].id /\ c.rssi # 0 /\ c.rssi <= items[i].signal) = Cardinality(low(i))
        /\ Has("client", LAMBDA c : c.ap = items[i].id /\ c.rssi # 0 /\ c.rssi >= items[i].signal) = Cardinality(high(i))
  BY DEF Has, listed
<1>9. \A i \in S : IF Has("client", LAMBDA c : c.ap = items[i].id /\ c.rssi # 0 /\ TRUE) = 0
                   THEN items[i].signal = 0
                   ELSE /\ Has("client", LAMBDA c : c.ap = items[i].id /\ c.rssi # 0 /\ c.rssi <= items[i].signal) > 0
                        /\ Has("client", LAMBDA c : c.ap = items[i].id /\ c.rssi # 0 /\ c.rssi >= items[i].signal) > 0
  BY <1>6, <1>8 DEF Has, listed
<1> QED
  BY <1>4, <1>5, <1>7, <1>9 DEF ExactAps, Has, items, aps, clients

\* The zones page counts the APs of each zone, and its tile those of all zones.
LEMMA ZonesOfWorld ==
    ASSUME World, got = world, Detailed = ToSet(world["rkszones"])
    PROVE  ExactZones
<1> DEFINE zones == Rows("rkszones")
           aps == Rows("ap")
           S == DOMAIN zones
           zone == world["rkszones"]
           items == ZoneItems(zones, aps, Detailed)
           near(z) == {x \in ToSet(world["ap"]) : Row("ap", x).zone = z}
           known == {x \in ToSet(world["ap"]) : Row("ap", x).zone \in ToSet(zone)}
           v == [i \in S |-> items[i].ap_count]
           place == [x \in known |-> CHOOSE i \in S : zone[i] = Row("ap", x).zone]
<1>0. "ap" \in Lists /\ "rkszones" \in Lists
  BY DEF Lists
<1>1. /\ IsFiniteSet(S) /\ DOMAIN zone = S
      /\ \A i \in S : /\ zone[i] \in ToSet(zone) /\ zone[i] \in Ids("rkszones")
                      /\ zones[i] = Row("rkszones", zone[i])
      /\ \A z \in ToSet(zone) : \E i \in S : zone[i] = z
      /\ \A i, j \in S : zone[i] = zone[j] => i = j
      /\ S = 1 .. Len(zone) /\ Len(zone) \in Nat
  BY <1>0, RowsOfWorld
<1>2. /\ IsFiniteSet(ToSet(world["ap"]))
      /\ \A i \in DOMAIN aps : world["ap"][i] \in ToSet(world["ap"]) /\ aps[i] = Row("ap", world["ap"][i])
  BY <1>0, RowsOfWorld
<1>3. \A i \in S : zones[i].id = zone[i]
  BY <1>1, RowAssumption
<1>4. ASSUME NEW z PROVE InZone(aps, z) = Cardinality(near(z))
  <2> DEFINE A == {i \in DOMAIN aps : aps[i].zone = z}
             B == near(z)
  <2>1. InZone(aps, z) = Cardinality(A)
    BY DEF InZone, Many, Size, RestrictValues, Restrict
  <2>2. A \in SUBSET DOMAIN aps /\ B \in SUBSET ToSet(world["ap"])
        /\ \A i \in DOMAIN aps : i \in A <=> world["ap"][i] \in B
    BY <1>2
  <2> HIDE DEF A, B
  <2>3. Cardinality(A) = Cardinality(B)
    BY <1>0, <2>2, CountsOfWorld
  <2> QED
    BY <2>1, <2>3 DEF B
<1>5. /\ DOMAIN items = S
      /\ \A i \in S : items[i] = [id |-> zone[i], ap_count |-> Cardinality(near(zone[i])), detail |-> TRUE]
  <2>1. DOMAIN items = S /\ \A i \in S : items[i] = ZoneItem(zones[i].id, aps, Detailed)
    BY DEF ZoneItems
  <2> HIDE DEF items, near, zones
  <2>2. ASSUME NEW i \in S
        PROVE  items[i] = [id |-> zone[i], ap_count |-> Cardinality(near(zone[i])), detail |-> TRUE]
    <3>1. zone[i] \in Detailed
      BY <1>1
    <3> QED
      BY <1>3, <1>4, <2>1, <3>1 DEF ZoneItem
  <2> QED
    BY <2>1, <2>2
<1>6. items = [i \in DOMAIN zone |->
                 [id |-> zone[i], ap_count |-> Has("ap", LAMBDA r : r.zone = zone[i]), detail |-> TRUE]]
  <2>1. items = [i \in S |-> items[i]]
    BY DEF ZoneItems
  <2>2. \A i \in S : Has("ap", LAMBDA r : r.zone = zone[i]) = Cardinality(near(zone[i]))
    BY DEF Has
  <2>3. \A i \in S : items[i] = [id |-> zone[i], ap_count |-> Has("ap", LAMBDA r : r.zone = zone[i]),
                               detail |-> TRUE]
    <3> SUFFICES ASSUME NEW i \in S
                 PROVE  items[i] = [id |-> zone[i], ap_count |-> Has("ap", LAMBDA r : r.zone = zone[i]),
                                    detail |-> TRUE]
      OBVIOUS
    <3>1. Has("ap", LAMBDA r : r.zone = zone[i]) = Cardinality(near(zone[i]))
      BY DEF Has
    <3>2. items[i] = [id |-> zone[i], ap_count |-> Cardinality(near(zone[i])), detail |-> TRUE]
      BY <1>5
    <3> HIDE DEF items, near
    <3> QED
      BY <3>1, <3>2
  <2>4. S = DOMAIN zone
    BY <1>1
  <2> DEFINE told(i) ==
        [id |-> zone[i], ap_count |-> Has("ap", LAMBDA r : r.zone = zone[i]), detail |-> TRUE]
  <2>5. \A i \in S : items[i] = told(i)
    BY Zenon, <2>3
  <2> HIDE DEF told, items, S, zone
  <2>6. items = [i \in DOMAIN zone |-> told(i)]
    BY Zenon, <2>1, <2>4, <2>5
  <2> QED
    BY Zenon, <2>6 DEF told
<1>7. ZoneTiles(items) = [total |-> Len(items), aps |-> SumFunctionOnSet(v, S)]
  <2>1. ZoneTiles(items) = [total |-> Len(items), aps |-> SumFunction([i \in DOMAIN items |-> items[i].ap_count])]
    BY DEF ZoneTiles, Sum
  <2>2. [i \in DOMAIN items |-> items[i].ap_count] = v /\ DOMAIN v = S
    BY <1>5
  <2> HIDE DEF v, items, S
  <2> QED
    BY <2>1, <2>2 DEF SumFunction
<1>8. SumFunctionOnSet(v, S) = Cardinality(known)
  <2>1. IsFiniteSet(known)
    BY <1>2, FS_Subset
  <2>2. ASSUME NEW x \in known PROVE place[x] \in S /\ zone[place[x]] = Row("ap", x).zone
    BY <1>1
  <2>3. ASSUME NEW i \in S PROVE Fibre(place, known, i) = near(zone[i])
    <3> HIDE DEF place
    <3>1. \A x \in known : place[x] = i <=> Row("ap", x).zone = zone[i]
      BY <1>1, <2>2
    <3>2. near(zone[i]) \subseteq known
      BY <1>1
    <3> QED
      BY <3>1, <3>2 DEF Fibre
  <2>4. ASSUME NEW i \in S PROVE v[i] = Cardinality(near(zone[i]))
    <3>1. v[i] = items[i].ap_count
      OBVIOUS
    <3> HIDE DEF v, items, near
    <3> QED
      BY <1>5, <3>1
  <2>5. ASSUME NEW i \in S PROVE v[i] = Cardinality(Fibre(place, known, i))
    <3> HIDE DEF place, known, v, near
    <3> QED
      BY <2>3, <2>4
  <2>6. IsFiniteSet(S) /\ \A x \in known : place[x] \in S
    BY <1>1, <2>2
  <2> HIDE DEF place, known, v, near, S
  <2> QED
    BY <2>1, <2>5, <2>6, CountOfFibres
<1>9. Has("ap", LAMBDA r : r.zone \in ToSet(zone)) = Cardinality(known)
  BY DEF Has
<1>10. Len(items) = Len(zone)
  BY <1>1, <1>5
<1> HIDE DEF items, v, known, S
<1> QED
  BY <1>6, <1>7, <1>8, <1>9, <1>10 DEF ExactZones, items

\* The firmware page shows the newest version that is supported.
LEMMA FirmwareOfWorld ==
    ASSUME World, got = world, Detailed = ToSet(world["rkszones"])
    PROVE  ExactFirmware
<1> DEFINE zone == world["rkszones"]
<1>0. "rkszones" \in Lists
  BY DEF Lists
<1>1. /\ DOMAIN zone = 1 .. Len(zone)
      /\ \A i \in DOMAIN zone : zone[i] \in ToSet(zone) /\ zone[i] \in Ids("rkszones")
  BY <1>0, RowsOfWorld
<1> SUFFICES ASSUME NEW item \in ToSet(FirmwareItems)
             PROVE  LET supported == {e.version : e \in {c \in ToSet(Row("rkszones", item.id).catalog) : c.supported}}
                    IN  IF supported = {} THEN item.latest = 0
                        ELSE item.latest \in supported /\ \A v \in supported : v <= item.latest
  BY DEF ExactFirmware
<1>2. PICK i \in DOMAIN zone : /\ item.id = zone[i]
                               /\ item.latest = Latest(IF zone[i] \in Detailed THEN Row("rkszones", zone[i]).catalog
                                                       ELSE <<>>)
  <2>1. DOMAIN FirmwareItems = DOMAIN zone
    BY DEF FirmwareItems
  <2>2. PICK i \in DOMAIN FirmwareItems : item = FirmwareItems[i]
    BY DEF ToSet
  <2>3. FirmwareItems[i] =
          [id |-> zone[i],
           latest |-> Latest(IF zone[i] \in Detailed THEN Row("rkszones", zone[i]).catalog ELSE <<>>)]
    BY <2>1, <2>2 DEF FirmwareItems
  <2> QED
    BY <2>1, <2>2, <2>3
<1> DEFINE catalog == Row("rkszones", zone[i]).catalog
           C == DOMAIN catalog
           sold == [j \in {k \in C : catalog[k].supported} |-> catalog[j]]
           versions == {sold[j].version : j \in {k \in C : catalog[k].supported}}
           supported == {e.version : e \in {c \in ToSet(catalog) : c.supported}}
<1>3. catalog \in Seq([version : Nat, supported : BOOLEAN])
  BY <1>1, RowAssumption
<1>4. /\ item.latest = Latest(catalog) /\ Row("rkszones", item.id).catalog = catalog
  BY <1>1, <1>2
<1> HIDE DEF catalog
<1>5. /\ C = 1 .. Len(catalog) /\ Len(catalog) \in Nat /\ ToSet(catalog) = {catalog[j] : j \in C}
      /\ \A j \in C : catalog[j] \in [version : Nat, supported : BOOLEAN]
  <2>1. DOMAIN catalog = 1 .. Len(catalog) /\ Len(catalog) \in Nat
    BY <1>3, LenProperties
  <2>2. \A j \in 1 .. Len(catalog) : catalog[j] \in [version : Nat, supported : BOOLEAN]
    BY <1>3, ElementOfSeq
  <2> QED
    BY <2>1, <2>2 DEF ToSet
<1>6. Latest(catalog) = IF versions = {} THEN 0 ELSE Max(versions)
  BY Zenon DEF Latest, Values, RestrictValues, Restrict
<1>7. versions = supported
  <2>1. \A j \in {k \in C : catalog[k].supported} : sold[j] = catalog[j]
    OBVIOUS
  <2>2. ToSet(catalog) = {catalog[j] : j \in C}
    BY <1>5
  <2>3. ASSUME NEW x \in versions PROVE x \in supported
    <3>1. PICK j \in {k \in C : catalog[k].supported} : x = sold[j].version
      OBVIOUS
    <3>2. x = catalog[j].version /\ catalog[j] \in ToSet(catalog) /\ catalog[j].supported
      BY <2>1, <2>2, <3>1
    <3> QED
      BY <3>2
  <2>4. ASSUME NEW x \in supported PROVE x \in versions
    <3>1. PICK e \in ToSet(catalog) : e.supported /\ x = e.version
      OBVIOUS
    <3>2. PICK j \in C : e = catalog[j]
      BY <2>2
    <3>3. j \in {k \in C : catalog[k].supported} /\ x = sold[j].version
      BY <2>1, <3>1, <3>2
    <3> QED
      BY <3>3
  <2> QED
    BY <2>3, <2>4
<1>8. supported \in SUBSET Nat
  BY <1>5
<1>9. IsFiniteSet(versions)
  <2> DEFINE f == [j \in {k \in C : catalog[k].supported} |-> catalog[j].version]
  <2>1. versions = Range(f)
    BY DEF Range
  <2>2. IsFiniteSet(DOMAIN f)
    <3>1. IsFiniteSet(C)
      BY <1>5, FS_Interval
    <3>2. DOMAIN f \subseteq C
      OBVIOUS
    <3> HIDE DEF C, f
    <3> QED
      BY <3>1, <3>2, FS_Subset
  <2> HIDE DEF f, versions
  <2> QED
    BY <2>1, <2>2, ImageOf
<1> HIDE DEF versions, supported
<1>10. IF supported = {} THEN item.latest = 0
       ELSE item.latest \in supported /\ \A v \in supported : v <= item.latest
  BY <1>4, <1>6, <1>7, <1>8, <1>9, Greatest
<1> QED
  BY <1>4, <1>10 DEF supported

\* The usage page of a controller whose lists have been read names the
\* switches that are there.
LEMMA TrafficOfWorld ==
    ASSUME world \in [Lists -> Seq(AllIds)], got = world
    PROVE  ExactTraffic
<1> DEFINE traffic == Rows("traffic")
           switches == Rows("switch")
           items == TrafficItems(traffic, switches)
<1>1. /\ world["traffic"] \in Seq(AllIds) /\ world["switch"] \in Seq(AllIds)
      /\ got["traffic"] = world["traffic"] /\ got["switch"] = world["switch"]
  BY DEF Lists
<1>2. /\ Len(world["traffic"]) \in Nat /\ DOMAIN world["traffic"] = 1 .. Len(world["traffic"])
      /\ DOMAIN world["switch"] = 1 .. Len(world["switch"])
  BY <1>1, LenProperties
<1>3. /\ DOMAIN traffic = 1 .. Len(world["traffic"])
      /\ DOMAIN switches = 1 .. Len(world["switch"])
      /\ \A j \in 1 .. Len(world["switch"]) : switches[j] = Row("switch", world["switch"][j])
  BY <1>1, <1>2 DEF Rows, RowsOf
<1> HIDE DEF traffic, switches
<1>4. /\ items = [i \in 1 .. Len(world["traffic"]) |-> items[i]]
      /\ DOMAIN items = 1 .. Len(world["traffic"])
      /\ \A i \in DOMAIN items :
            items[i].named = (\E j \in DOMAIN switches : switches[j].id = items[i].id)
  BY <1>3 DEF TrafficItems
<1> HIDE DEF items
<1>5. Len(items) = Len(world["traffic"])
  BY <1>2, <1>4
<1>6. ASSUME NEW x
      PROVE  (\E j \in DOMAIN switches : switches[j].id = x)
                 <=> Cardinality({i \in ToSet(world["switch"]) : Row("switch", i).id = x}) > 0
  <2> DEFINE called == {i \in ToSet(world["switch"]) : Row("switch", i).id = x}
  <2>1. IsFiniteSet(called)
    BY <1>1, ToSetIs, FS_Subset
  <2>2. (\E j \in DOMAIN switches : switches[j].id = x) <=> called # {}
    BY <1>2, <1>3 DEF ToSet
  <2> HIDE DEF called
  <2>3. called # {} <=> Cardinality(called) > 0
    <3>1. Cardinality(called) \in Nat /\ (Cardinality(called) = 0 <=> called = {})
      BY <2>1, FS_CardinalityType, FS_EmptySet
    <3> QED
      BY <3>1
  <2>4. (\E j \in DOMAIN switches : switches[j].id = x) <=> Cardinality(called) > 0
    BY <2>2, <2>3
  <2> QED
    BY <2>4 DEF called
<1>7. ASSUME NEW i \in DOMAIN items
      PROVE  items[i].named = (Has("switch", LAMBDA r : r.id = items[i].id) > 0)
  <2>1. Has("switch", LAMBDA r : r.id = items[i].id)
          = Cardinality({k \in ToSet(world["switch"]) : Row("switch", k).id = items[i].id})
    BY DEF Has
  <2>2. (\E j \in DOMAIN switches : switches[j].id = items[i].id)
          <=> Has("switch", LAMBDA r : r.id = items[i].id) > 0
    BY <1>6, <2>1
  <2>3. items[i].named = (\E j \in DOMAIN switches : switches[j].id = items[i].id)
    BY <1>4
  <2> DEFINE named == \E j \in DOMAIN switches : switches[j].id = items[i].id
             there == Has("switch", LAMBDA r : r.id = items[i].id) > 0
  <2>4. /\ named \in BOOLEAN /\ there \in BOOLEAN /\ (named <=> there)
        /\ items[i].named = named
    BY <2>2, <2>3
  <2> HIDE DEF named, there
  <2>5. items[i].named = there
    BY <2>4
  <2> QED
    BY <2>5 DEF there
<1> QED
  BY <1>1, <1>5, <1>7 DEF ExactTraffic, traffic, switches, items

-----------------------------------------------------------------------------
(* The details of the zones.                                               *)

\* A call for the details of a zone is in the queue.
Asks(q, z) == \E k \in DOMAIN q : q[k].list = "detail" /\ q[k].zone = z

\* The details of every zone read so far have come or are still to be asked for.
Detailing == job \in {"zones", "firmware"} /\ lost = {} =>
    \A z \in ToSet(got["rkszones"]) : <<"detail", z>> \in seen \/ Asks(todo, z)

\* It is still there behind the first call ...
LEMMA AsksTail ==
    ASSUME NEW q \in Seq(Calls), q # <<>>, NEW z, Asks(q, z)
    PROVE  Asks(Tail(q), z) \/ (Head(q).list = "detail" /\ Head(q).zone = z)
<1> DEFINE t == Tail(q)
           n == Len(q)
<1>1. /\ n \in Nat \ {0} /\ DOMAIN q = 1 .. n /\ Head(q) = q[1]
      /\ t \in Seq(Calls) /\ Len(t) = n - 1
  BY EmptySeq, LenProperties, HeadTailProperties
<1>2. DOMAIN t = 1 .. n - 1 /\ \A k \in 1 .. n - 1 : t[k] = q[k + 1]
  BY <1>1, LenProperties
<1> HIDE DEF t, n
<1>3. PICK k \in 1 .. n : q[k].list = "detail" /\ q[k].zone = z
  BY <1>1 DEF Asks
<1>4. CASE k = 1
  BY <1>1, <1>3, <1>4
<1>5. CASE k # 1
  <2>1. k - 1 \in 1 .. n - 1 /\ k - 1 + 1 = k
    BY <1>1, <1>5
  <2>2. t[k - 1] = q[k] /\ k - 1 \in DOMAIN t
    BY <1>2, <2>1
  <2> QED
    BY <1>3, <2>2 DEF Asks, t
<1> QED
  BY <1>4, <1>5

\* ... and with other calls behind it; and the zones just listed have one.
LEMMA AsksConcat ==
    ASSUME NEW q \in Seq(Calls), NEW read \in Seq(AllIds), NEW z
    PROVE  /\ Asks(q, z) => Asks(q \o Details(read), z)
           /\ z \in ToSet(read) => Asks(q \o Details(read), z)
<1> DEFINE d == Details(read)
           n == Len(q)
           m == Len(read)
           s == q \o d
<1>1. m \in Nat /\ DOMAIN read = 1 .. m /\ ToSet(read) = {read[j] : j \in 1 .. m}
  BY LenProperties, ToSetIs
<1>2. d \in Seq(Calls) /\ DOMAIN d = 1 .. m /\ \A k \in 1 .. m : d[k] = OfZone(One("detail"), read[k])
  BY <1>1, DetailCalls DEF Details
<1>3. Len(d) = m
  BY <1>1, <1>2
<1> HIDE DEF d, m
<1>4. /\ n \in Nat /\ DOMAIN q = 1 .. n /\ s \in Seq(Calls) /\ Len(s) = n + m
      /\ \A k \in 1 .. n + m : s[k] = IF k <= n THEN q[k] ELSE d[k - n]
  BY <1>2, <1>3, LenProperties, ConcatProperties
<1>5. DOMAIN s = 1 .. n + m
  BY <1>4, LenProperties
<1> HIDE DEF n, s
<1>6. ASSUME NEW k \in DOMAIN q PROVE k \in DOMAIN s /\ s[k] = q[k]
  BY <1>1, <1>4, <1>5
<1>7. ASSUME NEW k \in 1 .. m PROVE n + k \in DOMAIN s /\ s[n + k] = d[k]
  <2>1. n + k \in 1 .. n + m /\ ~(n + k <= n) /\ n + k - n = k
    BY <1>1, <1>4
  <2> QED
    BY <1>4, <1>5, <2>1
<1>8. \A k \in 1 .. m : d[k].list = "detail" /\ d[k].zone = read[k]
  BY <1>2 DEF OfZone, One, Call
<1>9. Asks(q, z) => Asks(s, z)
  BY <1>6 DEF Asks
<1>10. ASSUME z \in ToSet(read) PROVE Asks(s, z)
  <2>1. PICK k \in 1 .. m : read[k] = z
    BY <1>1, <1>10
  <2> QED
    BY <1>7, <1>8, <2>1 DEF Asks
<1> QED
  BY <1>9, <1>10 DEF s, d

\* A walk that ends leaves no zone without its details.
LEMMA DetailingEnds ==
    ASSUME FetchAssumption, FetchInv, Detailing, todo # <<>>, NEW read \in Seq(AllIds), NEW how,
           EndWalk(read, how), job' = job,
           how = "ran" => /\ seen \subseteq seen'
                          /\ Current.list = "detail" => <<"detail", Current.zone>> \in seen'
    PROVE  Detailing'
<1> SUFFICES ASSUME job \in {"zones", "firmware"}, lost' = {}, NEW z \in ToSet(got'["rkszones"])
             PROVE  <<"detail", z>> \in seen' \/ Asks(todo', z)
  BY DEF Detailing
<1> DEFINE t == Tail(todo)
<1>1. /\ todo \in Seq(Calls) /\ t \in Seq(Calls) /\ Current = Head(todo)
      /\ got \in [Lists -> Seq(AllIds)] /\ "rkszones" \in Lists
  BY HeadTailProperties DEF FetchInv, Types, Current, Lists
<1>2. ~FallsBack(Current, read)
  BY DEF FallsBack
<1>3. how = "ran" /\ lost = {}
  BY <1>2 DEF EndWalk
<1>4. todo' = Following(Current, read)
  BY DEF EndWalk
<1>5. got'["rkszones"] = IF Current.list = "rkszones" THEN got["rkszones"] \o read ELSE got["rkszones"]
  BY <1>1 DEF EndWalk
<1>6. ASSUME z \in ToSet(got["rkszones"]) PROVE <<"detail", z>> \in seen' \/ Asks(t, z)
  <2>1. <<"detail", z>> \in seen \/ Asks(todo, z)
    BY <1>3, <1>6 DEF Detailing
  <2>2. Asks(todo, z) => Asks(t, z) \/ (Current.list = "detail" /\ Current.zone = z)
    <3> HIDE DEF Current
    <3> QED
      BY <1>1, AsksTail
  <2>3. CASE <<"detail", z>> \in seen
    BY <1>3, <2>3
  <2>4. CASE Current.list = "detail" /\ Current.zone = z
    <3>1. <<"detail", Current.zone>> \in seen'
      BY <1>3, <2>4
    <3> QED
      BY <2>4, <3>1
  <2> HIDE DEF t
  <2> QED
    BY <2>1, <2>2, <2>3, <2>4
<1>7. CASE Current.list = "rkszones"
  <2>1. todo' = t \o Details(read)
    <3>1. Following(Current, read) = AfterZones(job, read, t)
      BY <1>2, <1>7 DEF Following
    <3> HIDE DEF t
    <3>2. AfterZones(job, read, t) = t \o Details(read)
      BY DEF AfterZones
    <3> QED
      BY <1>4, <3>1, <3>2
  <2>2. z \in ToSet(got["rkszones"]) \/ z \in ToSet(read)
    <3>1. ToSet(got["rkszones"] \o read) = ToSet(got["rkszones"]) \cup ToSet(read)
      BY <1>1, ToSetOfConcat
    <3> QED
      BY <1>5, <1>7, <3>1
  <2> HIDE DEF t
  <2> QED
    BY <1>1, <1>6, <2>1, <2>2, AsksConcat
<1>8. CASE Current.list # "rkszones"
  <2>1. todo' = t
    BY <1>2, <1>4, <1>8 DEF Following
  <2> QED
    BY <1>5, <1>6, <1>8, <2>1
<1> QED
  BY <1>7, <1>8

\* As long as what it is about stays the same, so does that account.
LEMMA SameDetailing ==
    ASSUME Detailing, UNCHANGED <<job, todo, got, lost, seen>>
    PROVE  Detailing'
BY DEF Detailing

\* No step of a fetch forgets the details of a zone.
LEMMA DetailingStep == FetchAssumption /\ FetchInv /\ Detailing /\ [Next]_vars => Detailing'
<1> SUFFICES ASSUME FetchAssumption, FetchInv, Detailing, [Next]_vars PROVE Detailing'
  OBVIOUS
<1>1. Types
  BY DEF FetchInv
<1>2. ASSUME Fetching(Paged \cup {"one"}) \/ Failing PROVE todo # <<>> /\ Current \in Calls
  BY <1>1, <1>2, HeadTailProperties DEF Fetching, Failing, Types, TypeOK, Current
<1>3. CASE Page
  <2>1. /\ todo # <<>> /\ Current \in Calls /\ Current.pager \in Paged
        /\ UNCHANGED <<job, seen>>
    BY <1>2, <1>3 DEF Page, Fetching
  <2>2. Current.list # "detail"
    BY <2>1 DEF Calls, Objects, Paged
  <2>3. CASE ~Ends
    <3>1. UNCHANGED <<todo, got, lost>>
      BY <1>3, <2>3 DEF Page
    <3> QED
      BY <2>1, <3>1, SameDetailing
  <2>4. CASE Ends
    <3>1. EndWalk(rows \o Items, "ran")
      BY <1>3, <2>4 DEF Page
    <3>2. rows \o Items \in Seq(AllIds)
      <4>1. Accounts(view, Offset, rows, walk)
        BY <2>1 DEF FetchInv, WalkInv
      <4> QED
        BY <1>1, <4>1, PageRead
    <3> QED
      BY <2>1, <2>2, <3>1, <3>2, DetailingEnds
  <2> QED
    BY <2>3, <2>4
<1>4. CASE Object
  <2>1. /\ todo # <<>> /\ EndWalk(<<>>, "ran") /\ job' = job
        /\ seen' = seen \cup {<<Current.list, Current.zone>>}
    BY <1>2, <1>4 DEF Object, Fetching
  <2> QED
    BY <2>1, EmptySeq, DetailingEnds
<1>5. CASE Retry
  BY <1>5, SameDetailing DEF Retry
<1>6. CASE Fail
  <2>1. /\ todo # <<>> /\ Current \in Calls /\ job' = job
    BY <1>2, <1>6 DEF Fail
  <2>2. CASE Current.onError = "keep"
    <3>1. EndWalk(rows, "cut") /\ rows \in Seq(AllIds)
      BY <1>1, <1>6, <2>2 DEF Fail, Types
    <3> QED
      BY <2>1, <3>1, DetailingEnds
  <2>3. CASE Current.onError = "drop"
    <3>1. EndWalk(<<>>, "dropped") /\ <<>> \in Seq(AllIds)
      BY <1>6, <2>3 DEF Fail
    <3> QED
      BY <2>1, <3>1, DetailingEnds
  <2>4. CASE Current.onError = "raise"
    <3>1. UNCHANGED <<todo, got, lost, seen>>
      BY <1>6, <2>4 DEF Fail
    <3> QED
      BY <2>1, <3>1, SameDetailing
  <2> QED
    BY <2>1, <2>2, <2>3, <2>4 DEF Calls
<1>7. CASE Join \/ Leave
  <2>1. Changing
    BY <1>7 DEF Join, Leave
  <2> QED
    BY <2>1, SameDetailing DEF Changing
<1>8. CASE UNCHANGED vars
  BY <1>8, SameDetailing DEF vars
<1> QED
  BY <1>3, <1>4, <1>5, <1>6, <1>7, <1>8 DEF Next, Request, Done

\* A fetch starts with no zone read.
LEMMA DetailingInit == Init => Detailing
<1> SUFFICES ASSUME Init PROVE Detailing
  OBVIOUS
<1>1. got["rkszones"] = <<>>
  BY DEF Init, Lists
<1>2. ToSet(<<>>) = {}
  BY DEF ToSet
<1> QED
  BY <1>1, <1>2 DEF Detailing

\* In the answer every zone has its details.
LEMMA AllDetailed ==
    FetchInv /\ Detailing /\ phase = "answered" /\ lost = {} /\ job \in {"zones", "firmware"}
        => Detailed = ToSet(got["rkszones"])
<1> SUFFICES ASSUME FetchInv, Detailing, phase = "answered", lost = {}, job \in {"zones", "firmware"}
             PROVE  Detailed = ToSet(got["rkszones"])
  OBVIOUS
<1>1. todo = <<>>
  BY DEF FetchInv, Types, TypeOK
<1>2. \A z : ~Asks(todo, z)
  BY <1>1 DEF Asks
<1> QED
  BY <1>2 DEF Detailing, Detailed

-----------------------------------------------------------------------------
(* The inventory.                                                          *)

\* Behind the details of the zones stands the query for the APs ...
AwaitsQuery(q) ==
    /\ q # <<>> /\ q[Len(q)] = Query("ap")
    /\ \A k \in 1 .. Len(q) - 1 : q[k].list = "detail"

\* ... and behind one that brought nothing the lists of the zones, one each.
ByZone(q) ==
    /\ \A k \in DOMAIN q : q[k].list = "ap" /\ q[k].pager = "get" /\ q[k].zone # None
    /\ \A i, k \in DOMAIN q : q[i].zone = q[k].zone => i = k

\* The zones the queue still asks for, and the APs of the others.
Pending(q) == {q[k].zone : k \in DOMAIN q}
Covered(q) ==
    {i \in ToSet(world["ap"]) : Row("ap", i).zone \in ToSet(world["rkszones"]) \ Pending(q)}

\* The APs have all been read, or those of the zones no longer asked for.
Collected(q, read) ==
    \/ q = <<>> /\ read = world["ap"]
    \/ /\ IsInjective(read) /\ ToSet(read) = Covered(q)
       /\ Pending(q) \subseteq ToSet(world["rkszones"])

\* What the inventory has read so far.
Inventory == job = "inventory" =>
    \/ /\ todo = <<Get("drop"), Query("ap")>>
       /\ Undisturbed => got["rkszones"] = <<>> /\ got["ap"] = <<>>
    \/ /\ AwaitsQuery(todo)
       /\ Undisturbed => got["rkszones"] = world["rkszones"] /\ got["ap"] = <<>>
    \/ /\ ByZone(todo)
       /\ Undisturbed => got["rkszones"] = world["rkszones"] /\ Collected(todo, got["ap"])

\* A queue without its first call.
LEMMA SequenceTail ==
    ASSUME NEW q \in Seq(Calls), q # <<>>
    PROVE  /\ Len(q) \in Nat \ {0} /\ DOMAIN q = 1 .. Len(q) /\ Head(q) = q[1]
           /\ Tail(q) \in Seq(Calls) /\ Len(Tail(q)) = Len(q) - 1
           /\ DOMAIN Tail(q) = 1 .. Len(q) - 1
           /\ \A k \in 1 .. Len(q) - 1 : Tail(q)[k] = q[k + 1] /\ k + 1 \in 1 .. Len(q)
           /\ \A k \in 1 .. Len(q) : k # 1 => k - 1 \in 1 .. Len(q) - 1 /\ Tail(q)[k - 1] = q[k]
<1> DEFINE t == Tail(q)
           n == Len(q)
<1>1. /\ n \in Nat \ {0} /\ DOMAIN q = 1 .. n /\ Head(q) = q[1]
      /\ t \in Seq(Calls) /\ Len(t) = n - 1
  BY EmptySeq, LenProperties, HeadTailProperties
<1>2. DOMAIN t = 1 .. n - 1 /\ \A k \in 1 .. n - 1 : t[k] = q[k + 1]
  BY <1>1, LenProperties
<1> HIDE DEF t, n
<1>3. \A k \in 1 .. n - 1 : k + 1 \in 1 .. n
  BY <1>1
<1>4. ASSUME NEW k \in 1 .. n, k # 1 PROVE k - 1 \in 1 .. n - 1 /\ t[k - 1] = q[k]
  <2>1. k - 1 \in 1 .. n - 1 /\ k - 1 + 1 = k
    BY <1>1, <1>4
  <2> QED
    BY <1>2, <2>1
<1> QED
  BY <1>1, <1>2, <1>3, <1>4 DEF t, n

\* The queue without its first call.
LEMMA AwaitsTail ==
    ASSUME NEW q \in Seq(Calls), AwaitsQuery(q)
    PROVE  \/ Head(q).list = "detail" /\ AwaitsQuery(Tail(q))
           \/ Head(q) = Query("ap") /\ Tail(q) = <<>>
<1> DEFINE t == Tail(q)
           n == Len(q)
<1>1. /\ n \in Nat \ {0} /\ DOMAIN q = 1 .. n /\ Head(q) = q[1]
      /\ t \in Seq(Calls) /\ Len(t) = n - 1
      /\ \A k \in 1 .. n - 1 : t[k] = q[k + 1]
  BY SequenceTail DEF AwaitsQuery
<1>2. q[n] = Query("ap") /\ \A k \in 1 .. n - 1 : q[k].list = "detail"
  BY DEF AwaitsQuery
<1> HIDE DEF t, n
<1>3. CASE n = 1
  <2>1. Len(t) = 0
    BY <1>1, <1>3
  <2>2. t = <<>>
    BY <1>1, <2>1, EmptySeq
  <2> QED
    BY <1>1, <1>2, <1>3, <2>2 DEF t
<1>4. CASE n # 1
  <2>1. 1 \in 1 .. n - 1 /\ n - 1 \in 1 .. n - 1 /\ n - 1 + 1 = n
    BY <1>1, <1>4
  <2>2. t[n - 1] = Query("ap") /\ t # <<>>
    <3>1. Len(t) # 0
      BY <1>1, <1>4
    <3> QED
      BY <1>1, <1>2, <2>1, <3>1
  <2>3. \A k \in 1 .. n - 1 - 1 : t[k].list = "detail"
    <3>1. \A k \in 1 .. n - 1 - 1 : k \in 1 .. n - 1 /\ k + 1 \in 1 .. n - 1
      BY <1>1
    <3> QED
      BY <1>1, <1>2, <3>1
  <2>4. AwaitsQuery(t)
    BY <1>1, <2>2, <2>3 DEF AwaitsQuery
  <2> QED
    BY <1>1, <1>2, <2>1, <2>4 DEF t
<1> QED
  BY <1>3, <1>4

\* The same of the lists of the zones.
LEMMA ByZoneTail ==
    ASSUME NEW q \in Seq(Calls), q # <<>>, ByZone(q)
    PROVE  ByZone(Tail(q)) /\ Pending(q) = Pending(Tail(q)) \cup {Head(q).zone}
           /\ Head(q).zone \notin Pending(Tail(q))
           /\ Head(q).list = "ap" /\ Head(q).pager = "get" /\ Head(q).zone # None
<1> DEFINE t == Tail(q)
           n == Len(q)
<1>1. /\ n \in Nat \ {0} /\ DOMAIN q = 1 .. n /\ Head(q) = q[1]
      /\ DOMAIN t = 1 .. n - 1
      /\ \A k \in 1 .. n - 1 : t[k] = q[k + 1] /\ k + 1 \in 1 .. n
      /\ \A k \in 1 .. n : k # 1 => k - 1 \in 1 .. n - 1 /\ t[k - 1] = q[k]
  BY SequenceTail
<1> HIDE DEF t, n
<1>2. /\ \A k \in 1 .. n : q[k].list = "ap" /\ q[k].pager = "get" /\ q[k].zone # None
      /\ \A i, k \in 1 .. n : q[i].zone = q[k].zone => i = k
  BY <1>1 DEF ByZone
<1>3. \A i, k \in 1 .. n - 1 : t[i].zone = t[k].zone => i = k
  <2> SUFFICES ASSUME NEW i \in 1 .. n - 1, NEW k \in 1 .. n - 1, t[i].zone = t[k].zone
               PROVE  i = k
    OBVIOUS
  <2>1. i + 1 = k + 1
    BY <1>1, <1>2
  <2> QED
    BY <2>1
<1>4. ByZone(t)
  BY <1>1, <1>2, <1>3 DEF ByZone
<1>5. Head(q).zone \notin Pending(t)
  <2> SUFFICES ASSUME NEW k \in 1 .. n - 1, t[k].zone = q[1].zone PROVE FALSE
    BY <1>1 DEF Pending
  <2>1. k + 1 = 1
    BY <1>1, <1>2
  <2> QED
    BY <2>1
<1>6. Pending(q) = Pending(t) \cup {q[1].zone}
  <2>1. 1 \in 1 .. n
    BY <1>1
  <2>2. ASSUME NEW k \in 1 .. n PROVE q[k].zone \in Pending(t) \cup {q[1].zone}
    <3>1. CASE k = 1
      BY <3>1
    <3>2. CASE k # 1
      BY <1>1, <3>2 DEF Pending
    <3> QED
      BY <3>1, <3>2
  <2>3. ASSUME NEW k \in 1 .. n - 1 PROVE t[k].zone \in Pending(q)
    BY <1>1 DEF Pending
  <2>4. \A z \in Pending(q) : z \in Pending(t) \cup {q[1].zone}
    BY <1>1, <2>2 DEF Pending
  <2>5. \A z \in Pending(t) : z \in Pending(q)
    BY <1>1, <2>3 DEF Pending
  <2>6. q[1].zone \in Pending(q)
    BY <1>1, <2>1 DEF Pending
  <2> QED
    BY <2>4, <2>5, <2>6
<1> QED
  BY <1>1, <1>2, <1>4, <1>5, <1>6 DEF t

\* The calls a query that brought nothing is made up for with.
Listings(zones) ==
    LET known == SetToSeq(ToSet(zones))
    IN  [i \in DOMAIN known |-> OfZone(Listing, known[i])]
LEMMA ZoneCalls ==
    ASSUME NEW zones \in Seq(AllIds), None \notin ToSet(zones)
    PROVE  /\ Listings(zones) \in Seq(Calls) /\ ByZone(Listings(zones))
           /\ Pending(Listings(zones)) = ToSet(zones)
<1> DEFINE known == SetToSeq(ToSet(zones))
           q == Listings(zones)
<1>1. IsFiniteSet(ToSet(zones)) /\ ToSet(zones) \subseteq AllIds
  BY ToSetIs
<1>2. known \in Seq(ToSet(zones)) /\ IsInjective(known) /\ ToSet(known) = ToSet(zones)
  BY <1>1, SetToSeqIs
<1>3. q = [i \in DOMAIN known |-> OfZone(Listing, known[i])]
  BY DEF Listings
<1> HIDE DEF known, q
<1>4. /\ Len(known) \in Nat /\ DOMAIN known = 1 .. Len(known)
      /\ \A i \in 1 .. Len(known) : known[i] \in ToSet(zones)
      /\ ToSet(zones) = {known[i] : i \in 1 .. Len(known)}
  BY <1>2, LenProperties, ElementOfSeq, ToSetIs
<1>5. Listing \in Calls /\ Listing.list = "ap" /\ Listing.pager = "get"
  BY ListCall DEF Listing, Lists, Paged, Call
<1>6. ASSUME NEW i \in 1 .. Len(known)
      PROVE  /\ OfZone(Listing, known[i]) \in Calls
             /\ OfZone(Listing, known[i]).list = "ap" /\ OfZone(Listing, known[i]).pager = "get"
             /\ OfZone(Listing, known[i]).zone = known[i] /\ known[i] # None
  BY <1>1, <1>4, <1>5, OfZoneTyped DEF OfZone, Listing, Call
<1>7. DOMAIN q = 1 .. Len(known) /\ \A i \in 1 .. Len(known) : q[i] = OfZone(Listing, known[i])
  BY <1>3, <1>4
<1>8. q \in Seq(Calls)
  <2>1. q = [i \in 1 .. Len(known) |-> q[i]] /\ \A i \in 1 .. Len(known) : q[i] \in Calls
    BY <1>3, <1>4, <1>6, <1>7
  <2>2. q \in [1 .. Len(known) -> Calls]
    BY <2>1
  <2>3. Len(known) \in Nat
    BY <1>4
  <2> QED
    BY <2>2, <2>3
<1>12. \A i \in 1 .. Len(known) : /\ q[i].list = "ap" /\ q[i].pager = "get" /\ q[i].zone # None
                                  /\ q[i].zone = known[i]
  BY <1>6, <1>7
<1>9. \A i, k \in 1 .. Len(known) : q[i].zone = q[k].zone => i = k
  <2>1. \A i, k \in 1 .. Len(known) : known[i] = known[k] => i = k
    BY <1>2, <1>4 DEF IsInjective
  <2> QED
    BY <1>12, <2>1
<1>10. ByZone(q)
  BY <1>7, <1>9, <1>12 DEF ByZone
<1>11. Pending(q) = ToSet(zones)
  <2>1. Pending(q) = {q[i].zone : i \in 1 .. Len(known)}
    BY <1>7 DEF Pending
  <2>2. {q[i].zone : i \in 1 .. Len(known)} = {known[i] : i \in 1 .. Len(known)}
    BY <1>12
  <2> QED
    BY <1>4, <2>1, <2>2
<1> QED
  BY <1>8, <1>10, <1>11 DEF q

\* What is read of the next zone.
LEMMA ZoneEntries ==
    ASSUME FetchInv, todo # <<>>, ByZone(todo)
    PROVE  /\ Entries(Current) \in Seq(AllIds) /\ IsInjective(Entries(Current))
           /\ ToSet(Entries(Current)) = {i \in ToSet(world["ap"]) : Row("ap", i).zone = Current.zone}
           /\ Len(Entries(Current)) \in Nat /\ Len(Entries(Current)) <= Len(world["ap"])
           /\ Len(world["ap"]) \in Nat
<1> DEFINE here == {i \in ToSet(world["ap"]) : Row("ap", i).zone = Current.zone}
           entries == Entries(Current)
<1>1. /\ Types /\ todo \in Seq(Calls) /\ world["ap"] \in Seq(AllIds) /\ IsInjective(world["ap"])
  BY DEF FetchInv, Types, Lists
<1>2. Current \in Calls /\ Current.list = "ap" /\ Current.zone # None
  BY <1>1, HeadTailProperties, ByZoneTail DEF Current
<1>3. entries = SetToSeq(here)
  BY <1>2 DEF Entries, Lists
<1>4. IsFiniteSet(here) /\ here \subseteq ToSet(world["ap"]) /\ IsFiniteSet(ToSet(world["ap"]))
  BY <1>1, ToSetIs, FS_Subset
<1> HIDE DEF here, entries
<1>5. ToSet(entries) = here /\ IsInjective(entries)
  BY <1>3, <1>4, SetToSeqIs
<1>6. entries \in Seq(AllIds)
  BY <1>1, <1>2, EntriesTyped DEF entries
<1>7. Cardinality(here) <= Cardinality(ToSet(world["ap"]))
  BY <1>4, FS_Subset
<1>8. Cardinality(ToSet(world["ap"])) = Len(world["ap"]) /\ Len(world["ap"]) \in Nat
  BY <1>1, ToSetIs, LenProperties
<1>9. Cardinality(ToSet(entries)) = Len(entries) /\ Len(entries) \in Nat
  BY <1>5, <1>6, ToSetIs, LenProperties
<1> QED
  BY <1>5, <1>6, <1>7, <1>8, <1>9 DEF here, entries

\* A walk of a zone gets to its end if one of all APs does.
LEMMA ZoneComplete ==
    ASSUME FetchAssumption, FetchInv, todo # <<>>, ByZone(todo), Undisturbed
    PROVE  Complete(Current, Len(Entries(Current)))
<1>1. Complete(Listing, Len(world["ap"]))
  BY DEF Undisturbed, Reaches, Sources, Listing, Call, Lists
<1>2. style.more \/ Len(world["ap"]) <= Limit
  BY <1>1 DEF Complete, Listing, Call
<1>3. Current.pager = "get"
  BY ByZoneTail DEF Current, FetchInv, Types
<1>4. Limit \in Nat
  BY DEF FetchAssumption
<1>5. style.more \/ Len(Entries(Current)) <= Limit
  BY <1>2, <1>4, ZoneEntries
<1> QED
  BY <1>3, <1>5 DEF Complete

\* With it, the APs of one zone more have been read.
LEMMA ZoneCollected ==
    ASSUME FetchInv, todo # <<>>, ByZone(todo), Collected(todo, got["ap"])
    PROVE  Collected(Tail(todo), got["ap"] \o Entries(Current))
<1> DEFINE t == Tail(todo)
           read == got["ap"]
           entries == Entries(Current)
           zone == Current.zone
<1>1. /\ todo \in Seq(Calls) /\ read \in Seq(AllIds)
  BY DEF FetchInv, Types, Lists
<1>2. Pending(todo) = Pending(t) \cup {zone} /\ zone \notin Pending(t)
  BY <1>1, ByZoneTail DEF Current
<1>3. /\ IsInjective(read) /\ ToSet(read) = Covered(todo)
      /\ Pending(todo) \subseteq ToSet(world["rkszones"])
  BY DEF Collected
<1>4. /\ entries \in Seq(AllIds) /\ IsInjective(entries)
      /\ ToSet(entries) = {i \in ToSet(world["ap"]) : Row("ap", i).zone = zone}
  BY ZoneEntries
<1> HIDE DEF t, read, entries, zone
<1>5. ToSet(read) \cap ToSet(entries) = {}
  BY <1>2, <1>3, <1>4 DEF Covered
<1>6. ToSet(read) \cup ToSet(entries) = Covered(t)
  BY <1>2, <1>3, <1>4 DEF Covered
<1>7. ToSet(read \o entries) = Covered(t) /\ IsInjective(read \o entries)
  <2>1. ToSet(read \o entries) = ToSet(read) \cup ToSet(entries)
    BY <1>1, <1>4, ToSetOfConcat
  <2>2. IsInjective(read \o entries)
    BY <1>1, <1>3, <1>4, <1>5, InjectiveConcat
  <2> QED
    BY <1>6, <2>1, <2>2
<1>8. Collected(t, read \o entries)
  BY <1>2, <1>3, <1>7 DEF Collected
<1> QED
  BY <1>8 DEF t, read, entries

\* The queue behind the list of the zones.
LEMMA AwaitsDetails ==
    ASSUME NEW read \in Seq(AllIds)
    PROVE  AwaitsQuery(Details(read) \o <<Query("ap")>>)
<1> DEFINE d == Details(read)
           n == Len(d)
           call == Query("ap")
           q == d \o <<call>>
<1>1. d \in Seq(Calls) /\ \A k \in DOMAIN d : d[k].list = "detail"
  BY DetailCalls DEF Details, OfZone, One, Call
<1>2. call \in Calls
  BY ListCall DEF Query, Lists, Paged
<1> HIDE DEF d, call
<1>3. <<call>> \in Seq(Calls) /\ Len(<<call>>) = 1
  BY <1>2
<1>4. /\ n \in Nat /\ DOMAIN d = 1 .. n /\ q \in Seq(Calls) /\ Len(q) = n + 1
      /\ \A k \in 1 .. n + 1 : q[k] = IF k <= n THEN d[k] ELSE <<call>>[k - n]
  BY <1>1, <1>3, LenProperties, ConcatProperties
<1> HIDE DEF n, q
<1>5. q[n + 1] = call
  <2>1. n + 1 \in 1 .. n + 1 /\ ~(n + 1 <= n) /\ n + 1 - n = 1
    BY <1>4
  <2> QED
    BY <1>4, <2>1
<1>6. \A k \in 1 .. n + 1 - 1 : q[k].list = "detail"
  <2>1. \A k \in 1 .. n + 1 - 1 : k \in 1 .. n /\ k \in 1 .. n + 1 /\ k <= n
    BY <1>4
  <2> QED
    BY <1>1, <1>4, <2>1
<1>7. q # <<>>
  BY <1>4, EmptySeq
<1> QED
  BY <1>4, <1>5, <1>6, <1>7 DEF AwaitsQuery, q, d, call

\* A walk of the inventory that ends leaves the account in order.
LEMMA InventoryEnds ==
    ASSUME FetchAssumption, FetchInv, Origin, Inventory, job = "inventory", todo # <<>>,
           NEW read \in Seq(AllIds), NEW how, EndWalk(read, how),
           UNCHANGED <<world, style, job, changes>>,
           how = "ran" /\ Undisturbed /\ Current.list \in Lists
             /\ Complete(Current, Len(Entries(Current))) => read = Entries(Current)
    PROVE  Inventory'
<1> DEFINE t == Tail(todo)
<1>1. /\ todo \in Seq(Calls) /\ t \in Seq(Calls) /\ Current = Head(todo) /\ Current \in Calls
      /\ got \in [Lists -> Seq(AllIds)] /\ "ap" \in Lists /\ "rkszones" \in Lists
  BY HeadTailProperties DEF FetchInv, Types, Current, Lists
<1>2. /\ todo' = Following(Current, read)
      /\ \A l \in Lists : got'[l] = IF l = Current.list THEN got[l] \o read ELSE got[l]
      /\ lost' = IF how = "ran" \/ FallsBack(Current, read) THEN lost ELSE lost \cup {Current.list}
  BY <1>1 DEF EndWalk
<1>3. Reaches' => Reaches
  BY DEF Reaches, Complete
<1>4. Undisturbed' => Undisturbed /\ (how = "ran" \/ FallsBack(Current, read))
  BY <1>2, <1>3 DEF Undisturbed
<1>5. <<>> \o read = read
  OBVIOUS
<1> HIDE DEF t
<1>6. CASE /\ todo = <<Get("drop"), Query("ap")>>
           /\ Undisturbed => got["rkszones"] = <<>> /\ got["ap"] = <<>>
  <2>1. Current = Get("drop") /\ t = <<Query("ap")>>
    BY <1>1, <1>6 DEF t
  <2>2. Current.list = "rkszones" /\ Current.zone = None /\ ~FallsBack(Current, read)
    BY <2>1 DEF Get, Call, FallsBack
  <2>3. todo' = Details(read) \o <<Query("ap")>>
    <3>1. Following(Current, read) = AfterZones(job, read, t)
      BY <2>2 DEF Following, t
    <3>2. AfterZones(job, read, t) = Details(read) \o t
      BY DEF AfterZones
    <3> QED
      BY <1>2, <2>1, <3>1, <3>2
  <2>4. AwaitsQuery(todo')
    BY <2>3, AwaitsDetails
  <2>5. ASSUME Undisturbed' PROVE got'["rkszones"] = world["rkszones"] /\ got'["ap"] = <<>>
    <3>1. Undisturbed /\ how = "ran"
      BY <1>4, <2>2, <2>5
    <3>2. Entries(Current) = world["rkszones"]
      BY <1>1, <2>2 DEF Entries
    <3>3. Current \in Sources("inventory")
      BY <2>1 DEF Sources, Program, ToSet
    <3>4. Complete(Current, Len(Entries(Current)))
      BY <1>1, <2>2, <3>1, <3>2, <3>3 DEF Undisturbed, Reaches
    <3>5. read = world["rkszones"]
      BY <1>1, <2>2, <3>1, <3>2, <3>4
    <3>6. got["rkszones"] = <<>> /\ got["ap"] = <<>>
      BY <1>6, <3>1
    <3> QED
      BY <1>1, <1>2, <1>5, <2>2, <3>5, <3>6
  <2> QED
    BY <2>4, <2>5 DEF Inventory
<1>7. CASE /\ AwaitsQuery(todo)
           /\ Undisturbed => got["rkszones"] = world["rkszones"] /\ got["ap"] = <<>>
  <2>1. CASE Current.list = "detail" /\ AwaitsQuery(t)
    <3>1. "detail" \notin Lists /\ ~FallsBack(Current, read)
      BY <2>1 DEF Lists, FallsBack
    <3>2. todo' = t
      BY <1>2, <2>1, <3>1 DEF Following, t
    <3>3. Undisturbed' => got'["rkszones"] = world["rkszones"] /\ got'["ap"] = <<>>
      BY <1>1, <1>2, <1>4, <1>7, <2>1, <3>1
    <3> QED
      BY <2>1, <3>2, <3>3 DEF Inventory
  <2>2. CASE Current = Query("ap") /\ t = <<>>
    <3>1. Current.list = "ap" /\ Current.pager = "query" /\ Current.zone = None
      BY <2>2 DEF Query, Call
    <3>2. got'["rkszones"] = got["rkszones"] /\ got'["ap"] = got["ap"] \o read
      BY <1>1, <1>2, <3>1
    <3>3. CASE read = <<>>
      <4>1. FallsBack(Current, read)
        BY <3>1, <3>3 DEF FallsBack
      <4> DEFINE zones == got["rkszones"]
      <4>2. todo' = Listings(zones)
        <5>1. Following(Current, read) = AfterAps(job, zones, t)
          BY <3>1, <4>1 DEF Following, t
        <5>2. AfterAps(job, zones, t) = Listings(zones) \o t
          BY DEF AfterAps, Listings
        <5>3. Listings(zones) \o <<>> = Listings(zones)
          <6>1. Listings(zones) \in Seq(Calls)
            <7>1. zones \in Seq(AllIds) /\ None \notin ToSet(zones)
              BY <1>1, RowAssumption DEF Origin
            <7> HIDE DEF zones
            <7> QED
              BY <7>1, ZoneCalls
          <6> QED
            BY <6>1
        <5> QED
          BY <1>2, <2>2, <5>1, <5>2, <5>3
      <4>3. zones \in Seq(AllIds) /\ None \notin ToSet(zones)
        BY <1>1, RowAssumption DEF Origin
      <4>4. ByZone(todo') /\ Pending(todo') = ToSet(zones)
        <5> HIDE DEF zones
        <5> QED
          BY <4>2, <4>3, ZoneCalls
      <4>5. ASSUME Undisturbed'
            PROVE  got'["rkszones"] = world["rkszones"] /\ Collected(todo, got["ap"])'
        <5>1. got["rkszones"] = world["rkszones"] /\ got["ap"] = <<>>
          BY <1>4, <1>7, <4>5
        <5>2. got'["ap"] = <<>> /\ got'["rkszones"] = world["rkszones"]
          BY <1>5, <3>2, <3>3, <5>1
        <5>3. IsInjective(<<>>) /\ ToSet(<<>>) = {}
          BY DEF IsInjective, ToSet
        <5>4. Pending(todo') = ToSet(world["rkszones"])
          BY <4>4, <5>1
        <5>5. {i \in ToSet(world["ap"]) : Row("ap", i).zone \in ToSet(world["rkszones"]) \ Pending(todo')} = {}
          BY <5>4
        <5> QED
          BY <5>2, <5>3, <5>4, <5>5 DEF Collected, Covered
      <4> QED
        BY <4>4, <4>5 DEF Inventory
    <3>4. CASE read # <<>>
      <4>1. ~FallsBack(Current, read)
        BY <3>4 DEF FallsBack
      <4>2. todo' = <<>>
        BY <1>2, <2>2, <3>1, <4>1 DEF Following, t
      <4>3. ByZone(todo')
        BY <4>2 DEF ByZone
      <4>4. ASSUME Undisturbed'
            PROVE  got'["rkszones"] = world["rkszones"] /\ got'["ap"] = world["ap"]
        <5>1. Undisturbed /\ how = "ran"
          BY <1>4, <4>1, <4>4
        <5>2. Entries(Current) = world["ap"] /\ Complete(Current, Len(Entries(Current)))
          BY <1>1, <3>1 DEF Entries, Complete
        <5>3. read = world["ap"]
          BY <1>1, <3>1, <5>1, <5>2
        <5> QED
          BY <1>5, <1>7, <3>2, <5>1, <5>3
      <4> QED
        BY <4>2, <4>3, <4>4 DEF Inventory, Collected
    <3> QED
      BY <3>3, <3>4
  <2> QED
    BY <1>1, <1>7, <2>1, <2>2, AwaitsTail DEF t
<1>8. CASE /\ ByZone(todo)
           /\ Undisturbed => got["rkszones"] = world["rkszones"] /\ Collected(todo, got["ap"])
  <2>1. ByZone(t) /\ Current.list = "ap" /\ Current.pager = "get"
    BY <1>1, <1>8, ByZoneTail DEF t
  <2>2. ~FallsBack(Current, read)
    BY <2>1 DEF FallsBack
  <2>3. todo' = t
    BY <1>2, <2>1, <2>2 DEF Following, t
  <2>4. ASSUME Undisturbed'
        PROVE  got'["rkszones"] = world["rkszones"] /\ Collected(t, got'["ap"])
    <3>1. Undisturbed /\ how = "ran"
      BY <1>4, <2>2, <2>4
    <3>2. read = Entries(Current)
      BY <1>1, <1>8, <2>1, <3>1, ZoneComplete
    <3>3. Collected(t, got["ap"] \o read)
      BY <1>8, <3>1, <3>2, ZoneCollected DEF t
    <3>4. got'["ap"] = got["ap"] \o read /\ got'["rkszones"] = got["rkszones"]
      BY <1>1, <1>2, <2>1
    <3> QED
      BY <1>8, <3>1, <3>3, <3>4
  <2>5. Undisturbed' => got'["rkszones"] = world["rkszones"] /\ Collected(todo, got["ap"])'
    BY <2>3, <2>4 DEF Collected, Covered
  <2> QED
    BY <2>1, <2>3, <2>5 DEF Inventory
<1> QED
  BY <1>6, <1>7, <1>8 DEF Inventory

\* As long as what it is about stays the same, so does the account.
LEMMA SameInventory ==
    ASSUME Inventory, UNCHANGED <<world, style, job, todo, got, lost>>, changes' = 0 => changes = 0
    PROVE  Inventory'
BY DEF Inventory, Undisturbed, Reaches, Complete, Collected, Covered

\* No step of an inventory reads an AP twice or leaves a zone out.
LEMMA InventoryStep ==
    FetchAssumption /\ FetchInv /\ QuietInv /\ Origin /\ Inventory /\ [Next]_vars => Inventory'
<1> SUFFICES ASSUME FetchAssumption, FetchInv, Prefix, Origin, Inventory, [Next]_vars PROVE Inventory'
  BY DEF QuietInv
<1>1. Types /\ changes \in Nat
  BY DEF FetchInv, Types, TypeOK
<1>0. CASE job # "inventory"
  <2>1. job' = job
    BY DEF Next, Request, Page, Object, Retry, Fail, Join, Leave, Changing, Done, vars
  <2> QED
    BY <1>0, <2>1 DEF Inventory
<1>2. ASSUME Fetching(Paged \cup {"one"}) \/ Failing PROVE todo # <<>> /\ Current \in Calls
  BY <1>1, <1>2, HeadTailProperties DEF Fetching, Failing, Types, TypeOK, Current
<1>3. CASE Page /\ job = "inventory"
  <2>0. job = "inventory"
    BY <1>3
  <2>1. /\ todo # <<>> /\ Current \in Calls /\ Current.pager \in Paged
        /\ UNCHANGED <<world, style, job, changes>>
    BY <1>2, <1>3 DEF Page, Fetching
  <2>2. CASE ~Ends
    <3>1. UNCHANGED <<todo, got, lost>>
      BY <1>3, <2>2 DEF Page
    <3> QED
      BY <2>1, <3>1, SameInventory
  <2>3. CASE Ends
    <3> DEFINE read == rows \o Items
    <3>1. EndWalk(read, "ran")
      BY <1>3, <2>3 DEF Page
    <3>2. read \in Seq(AllIds)
      <4>1. Accounts(view, Offset, rows, walk)
        BY <2>1 DEF FetchInv, WalkInv
      <4> QED
        BY <1>1, <4>1, PageRead
    <3>3. ASSUME Undisturbed, Complete(Current, Len(Entries(Current)))
          PROVE  read = Entries(Current)
      BY <2>1, <2>3, <3>3, QuietPage DEF Undisturbed
    <3> HIDE DEF read
    <3> QED
      BY <2>0, <2>1, <3>1, <3>2, <3>3, InventoryEnds
  <2> QED
    BY <2>2, <2>3
<1>4. CASE Object /\ job = "inventory"
  <2>1. /\ todo # <<>> /\ EndWalk(<<>>, "ran") /\ UNCHANGED <<world, style, job, changes>>
        /\ Current.list \notin Lists
    BY <1>2, <1>4 DEF Object, Fetching, Calls, Lists, Objects
  <2> QED
    BY <1>4, <2>1, EmptySeq, InventoryEnds
<1>5. CASE Retry
  BY <1>5, SameInventory DEF Retry
<1>6. CASE Fail /\ job = "inventory"
  <2>1. /\ todo # <<>> /\ Current \in Calls /\ UNCHANGED <<world, style, job, changes>>
    BY <1>2, <1>6 DEF Fail
  <2>2. CASE Current.onError = "keep"
    <3>1. EndWalk(rows, "cut") /\ rows \in Seq(AllIds)
      BY <1>1, <1>6, <2>2 DEF Fail, Types
    <3> QED
      BY <1>6, <2>1, <3>1, InventoryEnds
  <2>3. CASE Current.onError = "drop"
    <3>1. EndWalk(<<>>, "dropped") /\ <<>> \in Seq(AllIds)
      BY <1>6, <2>3 DEF Fail
    <3> QED
      BY <1>6, <2>1, <3>1, InventoryEnds
  <2>4. CASE Current.onError = "raise"
    <3>1. UNCHANGED <<todo, got, lost>>
      BY <1>6, <2>4 DEF Fail
    <3> QED
      BY <2>1, <3>1, SameInventory
  <2> QED
    BY <2>1, <2>2, <2>3, <2>4 DEF Calls
<1>7. CASE Join \/ Leave
  <2>1. Changing
    BY <1>7 DEF Join, Leave
  <2>2. changes' # 0 /\ UNCHANGED <<world, style, job, todo, got, lost>>
    BY <1>1, <2>1 DEF Changing
  <2> QED
    BY <2>2, SameInventory
<1>8. CASE UNCHANGED vars
  BY <1>8, SameInventory DEF vars
<1> QED
  BY <1>0, <1>3, <1>4, <1>5, <1>6, <1>7, <1>8 DEF Next, Request, Done

\* It starts with nothing read.
LEMMA InventoryInit == Init => Inventory
<1> SUFFICES ASSUME Init, job = "inventory" PROVE Inventory
  BY DEF Inventory
<1>1. todo = <<Get("drop"), Query("ap")>>
  BY DEF Init, Program
<1>2. got["rkszones"] = <<>> /\ got["ap"] = <<>>
  BY DEF Init, Lists
<1> QED
  BY <1>1, <1>2 DEF Inventory

\* An inventory that nothing disturbed has every AP once.
LEMMA InventoryReads ==
    ASSUME FetchInv, Inventory, job = "inventory", phase = "answered", Undisturbed
    PROVE  /\ got["rkszones"] = world["rkszones"] /\ IsInjective(got["ap"])
           /\ ToSet(got["ap"]) \subseteq ToSet(world["ap"])
           /\ \A i \in ToSet(world["ap"]) :
                 Row("ap", i).zone \in ToSet(world["rkszones"]) => i \in ToSet(got["ap"])
<1>1. todo = <<>> /\ IsInjective(world["ap"])
  BY DEF FetchInv, Types, TypeOK, Lists
<1>2. got["rkszones"] = world["rkszones"] /\ Collected(<<>>, got["ap"])
  <2>1. <<Get("drop"), Query("ap")>> # <<>>
    OBVIOUS
  <2> QED
    BY <1>1, <2>1 DEF Inventory, AwaitsQuery
<1>3. Pending(<<>>) = {}
  BY DEF Pending
<1> QED
  BY <1>1, <1>2, <1>3 DEF Collected, Covered

\* So it shows every AP of a known zone at its site.
LEMMA InventoryOfWorld ==
    ASSUME FetchInv, Origin, Inventory, job = "inventory", phase = "answered", Undisturbed
    PROVE  ExactInventory
<1> DEFINE read == got["ap"]
           aps == Rows("ap")
           listed == ToSet(world["ap"])
           known == ToSet(world["rkszones"])
<1>0. "ap" \in Lists /\ "rkszones" \in Lists
  BY DEF Lists
<1>1. /\ got["rkszones"] = world["rkszones"] /\ IsInjective(read) /\ ToSet(read) \subseteq listed
      /\ \A i \in listed : Row("ap", i).zone \in known => i \in ToSet(read)
  BY InventoryReads
<1>2. read \in Seq(AllIds) /\ world["ap"] \in Seq(AllIds) /\ GotTyped
  BY <1>0 DEF FetchInv, Types, GotTyped
<1>3. /\ DOMAIN read = 1 .. Len(read) /\ DOMAIN world["ap"] = 1 .. Len(world["ap"])
      /\ ToSet(read) = {read[j] : j \in 1 .. Len(read)}
      /\ \A i \in 1 .. Len(world["ap"]) : world["ap"][i] \in listed
  BY <1>2, LenProperties, ToSetIs
<1>4. /\ DOMAIN aps = 1 .. Len(read)
      /\ \A i \in DOMAIN aps : read[i] \in ToSet(read) /\ aps[i] = Row("ap", read[i])
  BY <1>0, <1>2, RowsIs
<1>5. \A i \in listed : Row("ap", i).id = i
  BY <1>0, RowAssumption DEF Origin
<1>6. ASSUME NEW i \in DOMAIN world["ap"], Row("ap", world["ap"][i]).zone \in known
      PROVE  [id |-> Row("ap", world["ap"][i]).id, site |-> Row("ap", world["ap"][i]).zone] \in ToSet(Assets)
  <2> DEFINE x == world["ap"][i]
  <2>1. x \in listed /\ x \in ToSet(read)
    BY <1>1, <1>3, <1>6
  <2>2. PICK j \in DOMAIN read : read[j] = x
    BY <1>3, <2>1
  <2>3. Assets[j] = [id |-> Row("ap", x).id, site |-> Row("ap", x).zone] /\ j \in DOMAIN Assets
    BY <1>1, <1>6, <2>2 DEF Assets
  <2> QED
    BY <2>3 DEF ToSet
<1>7. ASSUME NEW z \in known
      PROVE  InZone(aps, z) = Has("ap", LAMBDA r : r.zone = z)
  <2> DEFINE A == {i \in DOMAIN aps : aps[i].zone = z}
             B == {i \in listed : Row("ap", i).zone = z}
  <2>1. InZone(aps, z) = Cardinality(A)
    BY DEF InZone, Many, Size, RestrictValues, Restrict
  <2>2. Has("ap", LAMBDA r : r.zone = z) = Cardinality(B)
    BY DEF Has
  <2>3. /\ A \in SUBSET (1 .. Len(read)) /\ B \in SUBSET ToSet(read)
        /\ \A i \in 1 .. Len(read) : i \in A <=> read[i] \in B
    BY <1>1, <1>4
  <2> HIDE DEF A, B, read
  <2>4. Cardinality(A) = Cardinality(B)
    BY <1>1, <1>2, <2>3, OnceEach
  <2> QED
    BY <2>1, <2>2, <2>4
<1>8. \A i \in DOMAIN world["ap"] :
          Row("ap", world["ap"][i]).zone \in ToSet(got["rkszones"]) =>
              [id |-> Row("ap", world["ap"][i]).id, site |-> Row("ap", world["ap"][i]).zone] \in ToSet(Assets)
  BY <1>1, <1>6
<1>9. \A z \in ToSet(got["rkszones"]) : InZone(aps, z) = Has("ap", LAMBDA r : r.zone = z)
  <2> SUFFICES ASSUME NEW z \in ToSet(got["rkszones"]) PROVE InZone(aps, z) = Has("ap", LAMBDA r : r.zone = z)
    OBVIOUS
  <2>1. z \in known
    BY <1>1
  <2> QED
    BY <1>7, <2>1, Zenon
<1> HIDE DEF aps
<1>10. ToSet(got["rkszones"]) = ToSet(world["rkszones"])
  BY <1>1
<1> QED
  BY <1>1, <1>8, <1>9, <1>10, Zenon DEF ExactInventory, aps

\* The invariants say so of the lists of the controller.
LEMMA WorldOf == FetchInv /\ Origin => World
BY DEF FetchInv, Types, Origin, World

-----------------------------------------------------------------------------
(* The theorems.                                                           *)

\* The invariant holds in every state of every fetch.
LEMMA AlwaysFetchInv == Spec => []FetchInv
<1>1. Init => FetchInv
  BY FetchAssumption, InitEstablishesInv
<1>2. FetchInv /\ [Next]_vars => FetchInv'
  BY FetchAssumption, NextPreservesInv
<1> QED
  BY <1>1, <1>2, PTL DEF Spec

\* A fetch is in one of its phases, out of calls exactly when it has
\* answered, and no version is tried past the last one; however a list
\* changes under a walk, no entry is on it twice (fetch_switches,
\* smartzone_query_paged, smartzone_paged_get, vlans.fetch).
THEOREM TypeCorrect == Spec => []TypeOK
<1>1. FetchInv => TypeOK
  BY DEF FetchInv, Types
<1> QED
  BY <1>1, AlwaysFetchInv, PTL

\* Whatever the page size and the record and page limits, and however often
\* entries join, leave and requests fail: a walk that ended has read an entry
\* twice only for one that joined, and one that ran to its end has missed an
\* entry that was always there only for one that left.
THEOREM WalksAccount == Spec => []WalkAccounts
<1>1. FetchInv => WalkAccounts
  BY DEF FetchInv
<1> QED
  BY <1>1, AlwaysFetchInv, PTL

\* While the controller does not change, a walk that ran to its end has read
\* its list, every entry once and in order, whatever its pager, the page size,
\* the fields the answers carry and the failures and retries on the way: the
\* limits of the pager are all that can keep it from that
\* (smartzone_paged_get, smartzone_query_paged, fetch_switches, vlans.fetch).
THEOREM QuietWalksExact == Spec => []QuietWalk
<1>1. Init => FetchInv /\ QuietInv
  BY FetchAssumption, InitEstablishesInv, QuietInit
<1>2. FetchInv /\ QuietInv /\ [Next]_vars => FetchInv' /\ QuietInv'
  BY FetchAssumption, NextPreservesInv, QuietStep
<1>3. FetchInv /\ QuietInv => QuietWalk
  BY DEF QuietInv
<1> QED
  BY <1>1, <1>2, <1>3, PTL DEF Spec

\* A fetch from a controller that does not change, and none of whose rows a
\* failure took away, has read every list it asked for, once, in order and to
\* the end: no list is skipped, read twice or mixed with another on the way
\* from one call to the next, also when a query for the APs that brought
\* nothing is made up for.  The inventory is left out: it may read the APs
\* zone by zone, in an order of its own (modules/*/fetch.py, reports/collect.py).
THEOREM QuietFetchReads == Spec => []QuietReads
<1>1. Init => FetchInv /\ QuietInv /\ Queue
  BY FetchAssumption, InitEstablishesInv, QuietInit, QueueInit
<1>2. FetchInv /\ QuietInv /\ Queue /\ [Next]_vars => FetchInv' /\ QuietInv' /\ Queue'
  BY FetchAssumption, NextPreservesInv, QuietStep, QueueStep
<1>3. FetchInv /\ QuietInv /\ Queue => QuietReads
  BY QuietAnswer
<1> QED
  BY <1>1, <1>2, <1>3, PTL DEF Spec

\* So every page answers with what one look at the controller would have
\* given, its counts, sums, means and statuses included; also the zones page and
\* the firmware page, which ask for the details of each zone, and the inventory,
\* which after a query that brought nothing reads the APs zone by zone
\* (modules/*/fetch.py, reports/collect.py).
THEOREM QuietPagesExact == Spec => []QuietFetchIsExact
<1>1. Init => FetchInv /\ QuietInv /\ Queue /\ Origin /\ Detailing /\ Inventory
  BY FetchAssumption, InitEstablishesInv, QuietInit, QueueInit, OriginInit, DetailingInit, InventoryInit
<1>2. /\ FetchInv /\ QuietInv /\ Queue /\ Origin /\ Detailing /\ Inventory
      /\ [Next]_vars
      => (FetchInv /\ QuietInv /\ Queue /\ Origin /\ Detailing /\ Inventory)'
  BY FetchAssumption, NextPreservesInv, QuietStep, QueueStep, OriginStep, DetailingStep, InventoryStep
<1>3. FetchInv /\ QuietInv /\ Queue /\ Origin /\ Detailing /\ Inventory => QuietFetchIsExact
  <2> SUFFICES ASSUME FetchInv, Queue, Origin, Detailing, Inventory, phase = "answered", changes = 0, lost = {},
                      \A l \in Lists : \A c \in ToSet(Program(job)) \cup {Listing} :
                          c.list = l => Complete(c, Len(world[l]))
               PROVE  Exact
    BY DEF QuietFetchIsExact
  <2>1. Undisturbed
    BY DEF Undisturbed, Reaches, Sources
  <2>2. World
    BY WorldOf
  <2>3. job # "inventory" => got = world
    BY <2>1, QuietAnswer DEF QuietReads
  <2>4. job = "inventory" => ExactInventory
    BY <2>1, InventoryOfWorld
  <2>5. job \in {"zones", "firmware"} => ExactZones /\ ExactFirmware
    <3>1. job \in {"zones", "firmware"} => Detailed = ToSet(got["rkszones"])
      BY AllDetailed
    <3> QED
      BY <2>2, <2>3, <3>1, ZonesOfWorld, FirmwareOfWorld
  <2>6. job # "inventory" =>
          /\ ExactAps /\ ExactSites /\ ExactSwitches /\ ExactTraffic /\ ExactTotals /\ ExactGraph
          /\ \A l \in Lists : got[l] = world[l]
    BY <2>2, <2>3, ApsOfWorld, SitesOfWorld, SwitchesOfWorld, TrafficOfWorld, TotalsOfWorld, GraphOfWorld DEF World
  <2> QED
    BY <2>4, <2>5, <2>6 DEF Exact
<1> QED
  BY <1>1, <1>2, <1>3, PTL DEF Spec

\* The tallies of every page account for every row it has read, whatever failed,
\* changed or was read twice: groups, sites, VLANs and stacks count each row
\* once, severities and classes none twice, no switch uses more power than it
\* has, no leaf of a zone is lost and no page calls a switch offline that
\* another calls online (modules/*/fetch.py, modules/topology.py).
THEOREM TalliesAreRight == Spec => []TalliesAddUp
<1>1. Init => FetchInv /\ Origin
  BY FetchAssumption, InitEstablishesInv, OriginInit
<1>2. FetchInv /\ Origin /\ [Next]_vars => FetchInv' /\ Origin'
  BY FetchAssumption, NextPreservesInv, OriginStep
<1>3. FetchInv /\ Origin => TalliesAddUp
  <2> SUFFICES ASSUME FetchInv, Origin PROVE TalliesAddUp
    OBVIOUS
  <2>1. GroupsAddUp /\ SitesAddUp /\ StacksAddUp /\ ClassesAddUp /\ LeavesAddUp
    BY RowsOrigin, GroupsTally, SitesTally, StacksTally, ClassesTally, LeavesTally
  <2>2. VlansAddUp
    BY RowsOrigin, VlansTally
  <2>3. SeveritiesAddUp
    BY RowsOrigin, SeveritiesTally
  <2>4. PowerAddsUp
    BY RowsOrigin, PowerTally
  <2>5. SignalsAddUp
    BY RowsOrigin, SignalsTally
  <2>6. StatusesAgree
    BY RowsOrigin, TotalsTally, GraphTally, SwitchesTally DEF StatusesAgree
  <2> QED
    BY <2>1, <2>2, <2>3, <2>4, <2>5, <2>6 DEF TalliesAddUp
<1> QED
  BY <1>1, <1>2, <1>3, PTL DEF Spec
=============================================================================
