--------------------------- MODULE SessionLifecycle ---------------------------
(***************************************************************************)
(* What two connected sessions promise about their end: each one closes at  *)
(* most once, the error it keeps is fixed at that moment, it reports an     *)
(* abort only if the other side really was closed by its own application,   *)
(* and its message loop ends some time after.                               *)
(***************************************************************************)
VARIABLES closed, closeErr, stopped

vars == <<closed, closeErr, stopped>>

Peer == {"A", "B"}
Other(p) == IF p = "A" THEN "B" ELSE "A"

Init ==
  /\ closed = [p \in Peer |-> FALSE]
  /\ closeErr = [p \in Peer |-> "nil"]
  /\ stopped = [p \in Peer |-> FALSE]

\* The application closes the session.
CloseLocally(p) ==
  /\ ~closed[p]
  /\ closed' = [closed EXCEPT ![p] = TRUE]
  /\ UNCHANGED <<closeErr, stopped>>

\* The other side closed its session and said so.
CloseOnAbort(p) ==
  /\ ~closed[p]
  /\ closed[Other(p)]
  /\ closeErr[Other(p)] = "nil"
  /\ closed' = [closed EXCEPT ![p] = TRUE]
  /\ closeErr' = [closeErr EXCEPT ![p] = "aborted"]
  /\ UNCHANGED stopped

Stop(p) ==
  /\ closed[p]
  /\ ~stopped[p]
  /\ stopped' = [stopped EXCEPT ![p] = TRUE]
  /\ UNCHANGED <<closed, closeErr>>

Next == \E p \in Peer : CloseLocally(p) \/ CloseOnAbort(p) \/ Stop(p)

Spec == Init /\ [][Next]_vars /\ \A p \in Peer : WF_vars(Stop(p))
=============================================================================
