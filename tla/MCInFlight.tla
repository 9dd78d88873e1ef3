----------------------------- MODULE MCInFlight -----------------------------
(***************************************************************************)
(* Three threads, so that two can wait for the third, and two keys; with   *)
(* as many slots as threads a thread always finds a free one.              *)
(***************************************************************************)
EXTENDS InFlight
=============================================================================
