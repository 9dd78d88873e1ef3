CONSTANTS
    Threads = {"t1", "t2", "t3"}
    Keys = {"k1", "k2"}
    Slots = {"s1", "s2", "s3"}
    None = None
SPECIFICATION Spec
INVARIANTS
    OneFlight
    LateCallsRunAfresh
PROPERTIES
    IsSingleFlight
    AnsweredCallsReturn
