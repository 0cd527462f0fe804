---------------------------- MODULE MCSessionLocks ----------------------------
(***************************************************************************)
(* Instances of SessionLocks: the API calls on each session, the operations *)
(* they may be, who has a deadline and how long the channels are.           *)
(***************************************************************************)
EXTENDS SessionLocks, TLC
=============================================================================
