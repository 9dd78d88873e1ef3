------------------------------ MODULE MCWarmup ------------------------------
(***************************************************************************)
(* Three modules on one worker, so that a hung fetcher keeps others from   *)
(* starting, and one client: clients only read, so they do not meet.  The  *)
(* summary of the third module raises.  What is decided about each module  *)
(* is any combination.                                                     *)
(***************************************************************************)
EXTENDS Warmup
=============================================================================
