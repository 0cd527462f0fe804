-------------------------------- MODULE Future --------------------------------
(***************************************************************************)
(* What a promise is: a cell that is settled at most once, and readers that *)
(* return either what it was settled with or an error of their own.         *)
(***************************************************************************)
CONSTANTS Promises, Awaiters, Outcomes, Pending, Failed

VARIABLES outcome, target, returned

vars == <<outcome, target, returned>>

Init ==
  /\ outcome = [p \in Promises |-> Pending]
  /\ target \in [Awaiters -> Promises]
  /\ returned = [a \in Awaiters |-> Pending]

Settle(p, o) ==
  /\ outcome[p] = Pending
  /\ outcome' = [outcome EXCEPT ![p] = o]
  /\ UNCHANGED <<target, returned>>

Return(a) ==
  /\ returned[a] = Pending
  /\ outcome[target[a]] # Pending
  /\ returned' = [returned EXCEPT ![a] = outcome[target[a]]]
  /\ UNCHANGED <<outcome, target>>

Fail(a) ==
  /\ returned[a] = Pending
  /\ returned' = [returned EXCEPT ![a] = Failed]
  /\ UNCHANGED <<outcome, target>>

Next ==
  \/ \E p \in Promises, o \in Outcomes : Settle(p, o)
  \/ \E a \in Awaiters : Return(a) \/ Fail(a)

Spec == Init /\ [][Next]_vars
=============================================================================
