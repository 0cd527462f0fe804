---------------------------- MODULE Peers_proofs -----------------------------
(***************************************************************************)
(* Proofs about what a session's user works with: promises and the table   *)
(* that resolves them, the two halves of a BidirectionalSession, streams   *)
(* and the metrics, for any values of their constants.                     *)
(***************************************************************************)
EXTENDS PromiseResolver, Subscriptions, Callbacks, StreamReader, StreamWriter, Metrics,
        FiniteSetTheorems, SequenceTheorems, TLAPS

-----------------------------------------------------------------------------
(***************************************************************************)
(* Promise.  The inductive invariant: where a done channel can be.          *)
(***************************************************************************)

\* A channel that has not been made is nowhere.
NotYetMade ==
  \A a \in Awaiters : apc[a] \in {"idle", "register"} =>
     /\ a \notin done
     /\ \A s \in Settlers : a \notin closing[s]
     /\ \A p \in Promises : a \notin waiters[p]

\* A registered channel is open and belongs to that promise.
WaitersOpen ==
  \A p \in Promises : \A a \in waiters[p] : target[a] = p /\ a \notin done

\* Waiters are taken, and their channels closed, only after the promise settled.
SettledFirst ==
  /\ \A s \in Settlers : \A p \in current[s] : outcome[p] # Pending
  /\ \A s \in Settlers : \A a \in closing[s] : outcome[target[a]] # Pending
  /\ \A a \in done : outcome[target[a]] # Pending

ReturnedOnce ==
  \A a \in Awaiters : apc[a] = "returned" <=> returned[a] # Pending

IInv ==
  /\ TypeOK
  /\ NotYetMade
  /\ WaitersOpen
  /\ ClosedOnce
  /\ SettledFirst
  /\ ReturnedOnce

-----------------------------------------------------------------------------
\* The invariant holds initially: no channel exists and nothing is settled.
LEMMA InvInit == Init => IInv
BY DEF Init, IInv, TypeOK, NotYetMade, WaitersOpen, ClosedOnce, SettledFirst, ReturnedOnce

\* Every step of an awaiter or a settler keeps the types.
LEMMA TypeNext == TypeOK /\ [Next]_vars => TypeOK'
<1> SUFFICES ASSUME TypeOK, [Next]_vars PROVE TypeOK'
  OBVIOUS
<1>1. ASSUME NEW a \in Awaiters, Await(a) PROVE TypeOK'
  BY <1>1 DEF TypeOK, Await, Return, settleVars
<1>2. ASSUME NEW a \in Awaiters, AwaitStep(a) PROVE TypeOK'
  <2>1. CASE Register(a)
    BY <2>1 DEF TypeOK, Register, settleVars
  <2>2. CASE Pull(a)
    BY <2>2 DEF TypeOK, Pull, Return, settleVars
  <2>3. CASE Wake(a)
    BY <2>3 DEF TypeOK, Wake, Return, settleVars
  <2>4. CASE GiveUp(a)
    BY <2>4 DEF TypeOK, GiveUp, Return, settleVars
  <2>5. QED
    BY <1>2, <2>1, <2>2, <2>3, <2>4 DEF AwaitStep
<1>3. ASSUME NEW s \in Settlers, SettleOne(s) PROVE TypeOK'
  BY <1>3 DEF TypeOK, SettleOne, Start, awaitVars
<1>4. ASSUME NEW s \in Settlers, SettleStep(s) PROVE TypeOK'
  <2>1. ASSUME NEW p \in Promises, Settle(s, p) PROVE TypeOK'
    <3>1. CASE outcome[p] = Pending
      BY <2>1, <3>1 DEF TypeOK, Settle, awaitVars
    <3>2. CASE outcome[p] # Pending
      BY <2>1, <3>2 DEF TypeOK, Settle, awaitVars
    <3>3. QED
      BY <3>1, <3>2
  <2>2. CASE TakeWaiters(s)
    <3>1. PICK p \in Promises : /\ closing' = [closing EXCEPT ![s] = waiters[p]]
                                /\ waiters' = [waiters EXCEPT ![p] = {}]
      BY <2>2 DEF TypeOK, TakeWaiters
    <3>2. QED
      BY <2>2, <3>1 DEF TypeOK, TakeWaiters, awaitVars
  <2>3. ASSUME NEW a \in Awaiters, CloseChannel(s, a) PROVE TypeOK'
    BY <2>3 DEF TypeOK, CloseChannel, awaitVars
  <2>4. CASE AllNotified(s) \/ Finish(s)
    BY <2>4 DEF TypeOK, AllNotified, Finish, awaitVars
  <2>5. QED
    BY <1>4, <2>1, <2>2, <2>3, <2>4 DEF SettleStep
<1>5. CASE UNCHANGED vars
  BY <1>5 DEF TypeOK, vars
<1>6. QED
  BY <1>1, <1>2, <1>3, <1>4, <1>5 DEF Next

\* Every step of an awaiter or a settler keeps the invariant.
LEMMA InvNext == IInv /\ [Next]_vars => IInv'
<1> SUFFICES ASSUME IInv, [Next]_vars PROVE IInv'
  OBVIOUS
<1>0. /\ TypeOK /\ TypeOK'
      /\ NotYetMade /\ WaitersOpen /\ ClosedOnce /\ SettledFirst /\ ReturnedOnce
  BY TypeNext DEF IInv
<1>1. ASSUME NEW a \in Awaiters, NEW r, Return(a, r), r # Pending,
             apc[a] \notin {"returned"},
             UNCHANGED <<outcome, waiters, target, done, settleVars>>
      PROVE  IInv'
  <2>1. NotYetMade'
    BY <1>0, <1>1 DEF NotYetMade, TypeOK, Return, settleVars
  <2>2. WaitersOpen' /\ ClosedOnce' /\ SettledFirst'
    BY <1>0, <1>1 DEF WaitersOpen, ClosedOnce, SettledFirst, settleVars
  <2>3. ReturnedOnce'
    BY <1>0, <1>1 DEF ReturnedOnce, TypeOK, Return
  <2>4. QED
    BY <1>0, <2>1, <2>2, <2>3 DEF IInv
<1>2. ASSUME NEW a \in Awaiters, Await(a) PROVE IInv'
  <2>1. CASE outcome[target[a]] # Pending
    BY <1>1, <1>2, <2>1 DEF Await
  <2>2. CASE outcome[target[a]] = Pending
    <3>1. /\ apc[a] = "idle" /\ apc' = [apc EXCEPT ![a] = "register"]
          /\ UNCHANGED <<outcome, waiters, target, returned, done, settleVars>>
      BY <1>2, <2>2 DEF Await
    <3>2. NotYetMade'
      BY <1>0, <3>1 DEF NotYetMade, TypeOK, settleVars
    <3>3. WaitersOpen' /\ ClosedOnce' /\ SettledFirst'
      BY <1>0, <3>1 DEF WaitersOpen, ClosedOnce, SettledFirst, settleVars
    <3>4. ReturnedOnce'
      BY <1>0, <3>1 DEF ReturnedOnce, TypeOK
    <3>5. QED
      BY <1>0, <3>2, <3>3, <3>4 DEF IInv
  <2>3. QED
    BY <2>1, <2>2
<1>3. ASSUME NEW a \in Awaiters, Register(a) PROVE IInv'
  <2>1. /\ apc[a] = "register" /\ apc' = [apc EXCEPT ![a] = "pull"]
        /\ waiters' = [waiters EXCEPT ![target[a]] = @ \cup {a}]
        /\ UNCHANGED <<outcome, target, returned, done, settleVars>>
        /\ target[a] \in Promises
    BY <1>0, <1>3 DEF Register, TypeOK
  <2>2. a \notin done /\ \A s \in Settlers : a \notin closing[s]
    BY <1>0, <2>1 DEF NotYetMade
  <2>3. NotYetMade'
    BY <1>0, <2>1 DEF NotYetMade, TypeOK, settleVars
  <2>4. WaitersOpen'
    BY <1>0, <2>1, <2>2 DEF WaitersOpen, TypeOK
  <2>5. ClosedOnce'
    <3>1. \A p \in Promises : waiters'[p] \subseteq waiters[p] \cup {a}
      BY <1>0, <2>1 DEF TypeOK
    <3>2. QED
      BY <1>0, <2>1, <2>2, <3>1 DEF ClosedOnce, settleVars
  <2>6. SettledFirst'
    BY <1>0, <2>1 DEF SettledFirst, settleVars
  <2>7. ReturnedOnce'
    BY <1>0, <2>1 DEF ReturnedOnce, TypeOK
  <2>8. QED
    BY <1>0, <2>3, <2>4, <2>5, <2>6, <2>7 DEF IInv
<1>4. ASSUME NEW a \in Awaiters, Pull(a) PROVE IInv'
  <2>1. CASE Return(a, Failed)
    BY <1>1, <1>4, <2>1, OutcomeAssumption DEF Pull
  <2>2. CASE apc' = [apc EXCEPT ![a] = "wait"] /\ UNCHANGED returned
    <3>1. apc[a] = "pull" /\ UNCHANGED <<outcome, waiters, target, returned, done, settleVars>>
      BY <1>4, <2>2 DEF Pull
    <3>2. NotYetMade'
      BY <1>0, <2>2, <3>1 DEF NotYetMade, TypeOK, settleVars
    <3>3. WaitersOpen' /\ ClosedOnce' /\ SettledFirst'
      BY <1>0, <3>1 DEF WaitersOpen, ClosedOnce, SettledFirst, settleVars
    <3>4. ReturnedOnce'
      BY <1>0, <2>2, <3>1 DEF ReturnedOnce, TypeOK
    <3>5. QED
      BY <1>0, <3>2, <3>3, <3>4 DEF IInv
  <2>3. QED
    BY <1>4, <2>1, <2>2 DEF Pull
<1>5. ASSUME NEW a \in Awaiters, Wake(a) PROVE IInv'
  <2>1. outcome[target[a]] # Pending
    BY <1>0, <1>5 DEF Wake, SettledFirst
  <2>2. QED
    BY <1>1, <1>5, <2>1 DEF Wake
<1>6. ASSUME NEW a \in Awaiters, GiveUp(a) PROVE IInv'
  BY <1>1, <1>6, OutcomeAssumption DEF GiveUp
<1>7. ASSUME UNCHANGED <<outcome, waiters, awaitVars, done, closing>>,
             \A s \in Settlers : current'[s] \subseteq current[s]
      PROVE  IInv'
  <2>1. NotYetMade' /\ WaitersOpen' /\ ClosedOnce' /\ ReturnedOnce'
    BY <1>0, <1>7 DEF NotYetMade, WaitersOpen, ClosedOnce, ReturnedOnce, awaitVars
  <2>2. SettledFirst'
    BY <1>0, <1>7 DEF SettledFirst, awaitVars
  <2>3. QED
    BY <1>0, <2>1, <2>2 DEF IInv
<1>8. ASSUME NEW s \in Settlers, SettleOne(s) PROVE IInv'
  BY <1>7, <1>8 DEF SettleOne, Start
<1>9. ASSUME NEW s \in Settlers, NEW p \in Promises, Settle(s, p) PROVE IInv'
  <2>1. CASE outcome[p] # Pending
    BY <1>7, <1>9, <2>1 DEF Settle
  <2>2. CASE outcome[p] = Pending
    <3>1. /\ outcome' = [outcome EXCEPT ![p] = brings[s]]
          /\ current' = [current EXCEPT ![s] = {p}]
          /\ brings[s] # Pending
          /\ UNCHANGED <<waiters, awaitVars, done, closing>>
      BY <1>0, <1>9, <2>2, OutcomeAssumption DEF Settle, TypeOK
    <3>2. \A q \in Promises : outcome[q] # Pending \/ q = p => outcome'[q] # Pending
      BY <1>0, <3>1 DEF TypeOK
    <3>3. NotYetMade' /\ WaitersOpen' /\ ClosedOnce' /\ ReturnedOnce'
      BY <1>0, <3>1 DEF NotYetMade, WaitersOpen, ClosedOnce, ReturnedOnce, awaitVars
    <3>4. SettledFirst'
      BY <1>0, <3>1, <3>2 DEF SettledFirst, awaitVars, TypeOK
    <3>5. QED
      BY <1>0, <3>3, <3>4 DEF IInv
  <2>3. QED
    BY <2>1, <2>2
<1>10. ASSUME NEW s \in Settlers, TakeWaiters(s) PROVE IInv'
  <2>1. PICK p \in current[s] : /\ closing' = [closing EXCEPT ![s] = waiters[p]]
                                /\ waiters' = [waiters EXCEPT ![p] = {}]
    BY <1>10 DEF TakeWaiters
  <2>2. /\ p \in Promises /\ outcome[p] # Pending
        /\ current' = [current EXCEPT ![s] = {}]
        /\ UNCHANGED <<outcome, awaitVars, done>>
    BY <1>0, <1>10, <2>1 DEF TakeWaiters, TypeOK, SettledFirst
  <2>3. /\ \A q \in Promises : waiters'[q] \subseteq waiters[q] /\ (q = p => waiters'[q] = {})
        /\ closing'[s] = waiters[p]
        /\ \A r \in Settlers \ {s} : closing'[r] = closing[r] /\ current'[r] = current[r]
        /\ current'[s] = {}
    BY <1>0, <2>1, <2>2 DEF TypeOK
  <2>4. NotYetMade'
    BY <1>0, <2>2, <2>3 DEF NotYetMade, awaitVars
  <2>5. WaitersOpen'
    BY <1>0, <2>2, <2>3 DEF WaitersOpen, awaitVars
  <2>6. ClosedOnce'
    <3>1. closing'[s] \cap done' = {}
      BY <1>0, <2>2, <2>3 DEF WaitersOpen
    <3>2. \A r \in Settlers \ {s} : closing'[r] \cap done' = {} /\ closing'[s] \cap closing'[r] = {}
      BY <1>0, <2>2, <2>3 DEF ClosedOnce
    <3>3. \A q \in Promises : closing'[s] \cap waiters'[q] = {}
      <4>1. \A q \in Promises \ {p} : waiters[p] \cap waiters[q] = {}
        BY <1>0, <2>2 DEF WaitersOpen
      <4>2. QED
        BY <2>3, <4>1
    <3>4. \A r \in Settlers \ {s} :
             /\ \A x \in Settlers \ {r} : closing'[r] \cap closing'[x] = {}
             /\ \A q \in Promises : closing'[r] \cap waiters'[q] = {}
      BY <1>0, <2>3, <3>2 DEF ClosedOnce
    <3>5. QED
      BY <3>1, <3>2, <3>3, <3>4 DEF ClosedOnce
  <2>7. SettledFirst'
    BY <1>0, <2>2, <2>3 DEF SettledFirst, WaitersOpen, awaitVars
  <2>8. ReturnedOnce'
    BY <1>0, <2>2 DEF ReturnedOnce, awaitVars
  <2>9. QED
    BY <1>0, <2>4, <2>5, <2>6, <2>7, <2>8 DEF IInv
<1>11. ASSUME NEW s \in Settlers, NEW a \in Awaiters, CloseChannel(s, a) PROVE IInv'
  <2>1. /\ a \in closing[s] /\ done' = done \cup {a}
        /\ closing' = [closing EXCEPT ![s] = @ \ {a}]
        /\ UNCHANGED <<outcome, waiters, awaitVars, current>>
    BY <1>11 DEF CloseChannel
  <2>2. /\ closing'[s] = closing[s] \ {a}
        /\ \A r \in Settlers \ {s} : closing'[r] = closing[r] /\ a \notin closing[r]
        /\ \A p \in Promises : a \notin waiters[p]
    BY <1>0, <2>1 DEF TypeOK, ClosedOnce
  <2>3. NotYetMade'
    BY <1>0, <2>1, <2>2 DEF NotYetMade, awaitVars
  <2>4. WaitersOpen'
    BY <1>0, <2>1, <2>2 DEF WaitersOpen, awaitVars
  <2>5. ClosedOnce'
    BY <1>0, <2>1, <2>2 DEF ClosedOnce
  <2>6. SettledFirst'
    BY <1>0, <2>1, <2>2 DEF SettledFirst, awaitVars
  <2>7. ReturnedOnce'
    BY <1>0, <2>1 DEF ReturnedOnce, awaitVars
  <2>8. QED
    BY <1>0, <2>3, <2>4, <2>5, <2>6, <2>7 DEF IInv
<1>12. ASSUME NEW s \in Settlers, AllNotified(s) \/ Finish(s) PROVE IInv'
  BY <1>7, <1>12 DEF AllNotified, Finish
<1>13. CASE UNCHANGED vars
  BY <1>7, <1>13 DEF vars, awaitVars
<1>14. QED
  BY <1>2, <1>3, <1>4, <1>5, <1>6, <1>8, <1>9, <1>10, <1>11, <1>12, <1>13
  DEF Next, AwaitStep, SettleStep

\* The invariant holds throughout every behaviour.
LEMMA Invariant == Safe => []IInv
BY InvInit, InvNext, PTL DEF Safe

(***************************************************************************)
(* Type correctness of promises, their waiters and the calls that settle    *)
(* them (promise.go:12-61, 124-255).                                        *)
(***************************************************************************)
THEOREM PromiseTypeCorrect == Safe => []TypeOK
<1>1. IInv => TypeOK
  BY DEF IInv
<1>2. QED
  BY <1>1, Invariant, PTL

(***************************************************************************)
(* No channel is closed twice: what a settling call is about to close is    *)
(* open and in nobody else's hands (promise.go:206-255).                    *)
(***************************************************************************)
THEOREM ChannelsClosedOnce == Safe => []ClosedOnce
<1>1. IInv => ClosedOnce
  BY DEF IInv
<1>2. QED
  BY <1>1, Invariant, PTL

-----------------------------------------------------------------------------
\* Every step of Await, resolve or reject is a step of the write-once cell or
\* leaves it alone.
LEMMA StepRefines == IInv /\ [Next]_vars => [Cell!Next]_(Cell!vars)
<1> SUFFICES ASSUME IInv, [Next]_vars PROVE Cell!Next \/ UNCHANGED Cell!vars
  BY DEF Cell!Next, Cell!vars
<1>0. TypeOK /\ SettledFirst /\ ReturnedOnce
  BY DEF IInv
<1>1. ASSUME NEW a \in Awaiters, Return(a, Failed), apc[a] # "returned", UNCHANGED <<outcome, target>>
      PROVE  Cell!Next
  BY <1>0, <1>1 DEF Return, ReturnedOnce, Cell!Fail, Cell!Next
<1>2. ASSUME NEW a \in Awaiters, Return(a, outcome[target[a]]), apc[a] # "returned",
             outcome[target[a]] # Pending, UNCHANGED <<outcome, target>>
      PROVE  Cell!Next
  BY <1>0, <1>2 DEF Return, ReturnedOnce, Cell!Return, Cell!Next
<1>3. ASSUME NEW a \in Awaiters, Await(a) PROVE Cell!Next \/ UNCHANGED Cell!vars
  BY <1>2, <1>3 DEF Await, Cell!vars
<1>4. ASSUME NEW a \in Awaiters, AwaitStep(a) PROVE Cell!Next \/ UNCHANGED Cell!vars
  <2>1. CASE Register(a)
    BY <2>1 DEF Register, Cell!vars
  <2>2. CASE Pull(a)
    BY <1>1, <2>2 DEF Pull, Cell!vars
  <2>3. CASE Wake(a)
    BY <1>0, <1>2, <2>3 DEF Wake, SettledFirst
  <2>4. CASE GiveUp(a)
    BY <1>1, <2>4 DEF GiveUp
  <2>5. QED
    BY <1>4, <2>1, <2>2, <2>3, <2>4 DEF AwaitStep
<1>5. ASSUME NEW s \in Settlers, NEW p \in Promises, Settle(s, p) PROVE Cell!Next \/ UNCHANGED Cell!vars
  <2>1. CASE outcome[p] # Pending
    BY <1>5, <2>1 DEF Settle, Cell!vars, awaitVars
  <2>2. CASE outcome[p] = Pending
    <3>1. Cell!Settle(p, brings[s]) /\ brings[s] \in Outcomes
      BY <1>0, <1>5, <2>2 DEF Settle, Cell!Settle, awaitVars, TypeOK
    <3>2. QED
      BY <3>1 DEF Cell!Next
  <2>3. QED
    BY <2>1, <2>2
<1>6. ASSUME NEW s \in Settlers, SettleOne(s) \/ TakeWaiters(s) \/ AllNotified(s) \/ Finish(s)
      PROVE  UNCHANGED Cell!vars
  BY <1>6 DEF SettleOne, Start, TakeWaiters, AllNotified, Finish, Cell!vars, awaitVars
<1>7. ASSUME NEW s \in Settlers, NEW a \in Awaiters, CloseChannel(s, a) PROVE UNCHANGED Cell!vars
  BY <1>7 DEF CloseChannel, Cell!vars, awaitVars
<1>8. CASE UNCHANGED vars
  BY <1>8 DEF vars, Cell!vars
<1>9. QED
  BY <1>3, <1>4, <1>5, <1>6, <1>7, <1>8 DEF Next, SettleStep

(***************************************************************************)
(* Promise implements Future: a promise is settled at most once, and an     *)
(* Await that does not fail returns what it was settled with, although it   *)
(* reads the state and registers its channel in separate critical sections  *)
(* (promise.go:124-175, 206-255).                                           *)
(***************************************************************************)
THEOREM PromiseIsFuture == Safe => IsFuture
<1>1. Init => Cell!Init
  BY DEF Init, Cell!Init
<1>2. QED
  BY <1>1, Invariant, StepRefines, PTL DEF Safe, IsFuture, Cell!Spec

-----------------------------------------------------------------------------
(***************************************************************************)
(* PromiseResolver. The inductive invariant of the table; what holds of    *)
(* the promises themselves is carried over from Promise.                   *)
(***************************************************************************)

\* An ID has no entry or one.
AtMostOne == \A i \in ExportIDs : promises[i] = {} \/ \E p \in Promises : promises[i] = {p}

\* What is in the table or about to be settled was registered.
Known ==
  /\ \A i \in ExportIDs : promises[i] \subseteq registered
  /\ \A s \in Settlers : todo[s] \subseteq registered

\* A promise is registered under one ID.
OneEntry == \A i, j \in ExportIDs : i # j => promises[i] \cap promises[j] = {}

\* Nothing is settled before it has left the table.
UnsettledBefore ==
  /\ \A p \in Promises \ registered : outcome[p] = Pending
  /\ \A i \in ExportIDs : \A p \in promises[i] : outcome[p] = Pending

\* A settling call has nothing to do before it starts.
NothingTodo == \A s \in Settlers : spc[s] = "idle" => todo[s] = {}

TableTypes ==
  /\ promises \in [ExportIDs -> SUBSET Promises]
  /\ registered \subseteq Promises
  /\ displaced \subseteq registered

Table ==
  /\ TableTypes /\ AtMostOne /\ Known /\ OneEntry
  /\ UnsettledBefore /\ NothingTodo /\ TakenOnce /\ NotForgotten

RInv == IInv /\ Table

-----------------------------------------------------------------------------
(* The promises.                                                           *)

\* A settling call may be given any set of promises: the invariant of Promise
\* does not depend on which.
LEMMA StartKeeps ==
  ASSUME IInv, NEW s \in Settlers, NEW ps \in SUBSET Promises, Start(s, ps)
  PROVE  IInv'
<1>1. TypeOK'
  BY DEF IInv, TypeOK, Start, awaitVars
<1>2. NotYetMade' /\ WaitersOpen' /\ ClosedOnce' /\ SettledFirst' /\ ReturnedOnce'
  BY DEF IInv, Start, awaitVars, NotYetMade, WaitersOpen, ClosedOnce, SettledFirst, ReturnedOnce
<1>3. QED
  BY <1>1, <1>2 DEF IInv

\* The sets that the resolver hands to a settling call are sets of promises.
LEMMA HandedOver ==
  ASSUME TableTypes
  PROVE  /\ \A i \in ExportIDs : promises[i] \in SUBSET Promises
         /\ UNION {promises[i] : i \in ExportIDs} \in SUBSET Promises
BY DEF TableTypes

\* Every step of the resolver keeps the invariant of its promises.
LEMMA PromisesNext == RInv /\ [RNext]_allVars => IInv'
<1> SUFFICES ASSUME RInv, [RNext]_allVars PROVE IInv'
  OBVIOUS
<1>0. IInv /\ TableTypes
  BY DEF RInv, Table
<1>1. ASSUME NEW a \in Awaiters, Await(a) \/ AwaitStep(a) PROVE IInv'
  BY <1>0, <1>1, InvNext DEF Next
<1>2. ASSUME NEW s \in Settlers, SettleStep(s) PROVE IInv'
  BY <1>0, <1>2, InvNext DEF Next
<1>3. CASE UNCHANGED vars
  BY <1>0, <1>3, InvNext
<1>4. ASSUME NEW i \in ExportIDs, NEW p \in Promises, RegisterPromise(i, p) PROVE IInv'
  BY <1>3, <1>4 DEF RegisterPromise
<1>5. ASSUME NEW s \in Settlers, NEW i \in ExportIDs, TakePromise(s, i) PROVE IInv'
  BY <1>0, <1>5, HandedOver, StartKeeps DEF TakePromise
<1>6. ASSUME NEW s \in Settlers, CleanupPromises(s) PROVE IInv'
  BY <1>0, <1>6, HandedOver, StartKeeps DEF CleanupPromises
<1>7. QED
  BY <1>1, <1>2, <1>3, <1>4, <1>5, <1>6 DEF RNext, allVars

-----------------------------------------------------------------------------
(* The table.                                                              *)

\* The invariant holds initially: the table is empty.
LEMMA TableInit == RInit => RInv
<1> SUFFICES ASSUME RInit PROVE RInv
  OBVIOUS
<1>1. IInv
  BY InvInit DEF RInit
<1>2. TableTypes /\ AtMostOne /\ Known /\ OneEntry
  BY DEF RInit, Init, TableTypes, AtMostOne, Known, OneEntry
<1>3. UnsettledBefore /\ NothingTodo /\ TakenOnce /\ NotForgotten
  BY DEF RInit, Init, UnsettledBefore, NothingTodo, TakenOnce, NotForgotten
<1>4. QED
  BY <1>1, <1>2, <1>3 DEF RInv, Table

\* A step that leaves the outcomes, the table and what is to be settled alone,
\* and starts no call, keeps what holds of the table.
LEMMA Elsewhere ==
  ASSUME Table, UNCHANGED <<outcome, todo, tableVars>>,
         \A s \in Settlers : spc'[s] = "idle" => spc[s] = "idle"
  PROVE  Table'
<1>1. TableTypes' /\ AtMostOne' /\ Known' /\ OneEntry'
  BY DEF Table, tableVars, TableTypes, AtMostOne, Known, OneEntry
<1>2. UnsettledBefore' /\ NothingTodo'
  BY DEF Table, tableVars, UnsettledBefore, NothingTodo
<1>3. TakenOnce' /\ NotForgotten'
  BY DEF Table, tableVars, TakenOnce, NotForgotten
<1>4. QED
  BY <1>1, <1>2, <1>3 DEF Table

\* Settling a promise takes it from the only call that has it.
LEMMA SettleKeeps ==
  ASSUME TypeOK, Table, NEW s \in Settlers, NEW p \in Promises, Settle(s, p), UNCHANGED tableVars
  PROVE  Table'
<1>1. /\ p \in todo[s] /\ outcome[p] = Pending
      /\ todo' = [todo EXCEPT ![s] = @ \ {p}]
      /\ outcome' = [outcome EXCEPT ![p] = brings[s]] /\ brings[s] # Pending
      /\ spc' = [spc EXCEPT ![s] = "notify"]
  BY OutcomeAssumption DEF Settle, Table, TakenOnce, TypeOK
<1>2. /\ todo'[s] = todo[s] \ {p}
      /\ \A r \in Settlers \ {s} : todo'[r] = todo[r] /\ spc'[r] = spc[r] /\ p \notin todo[r]
      /\ \A i \in ExportIDs : p \notin promises[i]
      /\ \A q \in Promises \ {p} : outcome'[q] = outcome[q]
      /\ outcome'[p] # Pending /\ spc'[s] # "idle"
  BY <1>1 DEF Table, TakenOnce, TypeOK
<1>3. TableTypes' /\ AtMostOne' /\ OneEntry'
  BY DEF Table, tableVars, TableTypes, AtMostOne, OneEntry
<1>4. Known' /\ NothingTodo'
  BY <1>2 DEF Table, tableVars, Known, NothingTodo
<1>5. UnsettledBefore'
  BY <1>1, <1>2 DEF Table, tableVars, UnsettledBefore, Known, TableTypes
<1>6. TakenOnce'
  BY <1>2 DEF Table, tableVars, TakenOnce, Known, TableTypes
<1>7. NotForgotten'
  BY <1>2 DEF Table, tableVars, NotForgotten, TableTypes
<1>8. QED
  BY <1>3, <1>4, <1>5, <1>6, <1>7 DEF Table

\* A promise enters the table pending and in no call's hands; what it displaces
\* is no longer spoken of.
LEMMA RegisterKeeps ==
  ASSUME TypeOK, Table, NEW i \in ExportIDs, NEW p \in Promises, RegisterPromise(i, p)
  PROVE  Table'
<1>1. /\ p \notin registered /\ registered' = registered \cup {p}
      /\ displaced' = displaced \cup promises[i]
      /\ UNCHANGED <<outcome, todo, spc>>
  BY DEF RegisterPromise, vars
<1>2. /\ promises'[i] = {p}
      /\ \A j \in ExportIDs \ {i} : promises'[j] = promises[j]
      /\ \A j \in ExportIDs : p \notin promises[j]
      /\ \A s \in Settlers : p \notin todo[s]
      /\ outcome[p] = Pending
      /\ promises' \in [ExportIDs -> SUBSET Promises]
  BY <1>1 DEF RegisterPromise, Table, TableTypes, Known, UnsettledBefore
<1>3. TableTypes' /\ Known'
  BY <1>1, <1>2 DEF Table, TableTypes, Known
<1>4. AtMostOne' /\ OneEntry'
  BY <1>2 DEF Table, AtMostOne, OneEntry
<1>5. UnsettledBefore' /\ NothingTodo' /\ TakenOnce'
  BY <1>1, <1>2 DEF Table, UnsettledBefore, NothingTodo, TakenOnce
<1>6. NotForgotten'
  BY <1>1, <1>2 DEF Table, NotForgotten
<1>7. QED
  BY <1>3, <1>4, <1>5, <1>6 DEF Table

\* A call that starts with the promises of some IDs, and takes all of them out of
\* the table, keeps what holds of it.
LEMMA TakeKeeps ==
  ASSUME TypeOK, Table, NEW s \in Settlers, NEW I \in SUBSET ExportIDs,
         Start(s, UNION {promises[i] : i \in I}),
         promises' \in [ExportIDs -> SUBSET Promises],
         \A i \in I : promises'[i] = {},
         \A i \in ExportIDs \ I : promises'[i] = promises[i],
         UNCHANGED <<registered, displaced>>
  PROVE  Table'
<1> DEFINE Taken == UNION {promises[i] : i \in I}
<1>1. /\ spc[s] = "idle" /\ todo[s] = {}
      /\ todo'[s] = Taken /\ \A r \in Settlers \ {s} : todo'[r] = todo[r]
      /\ spc'[s] = "settle" /\ \A r \in Settlers \ {s} : spc'[r] = spc[r]
      /\ UNCHANGED outcome
  BY DEF Start, TypeOK, Table, NothingTodo
<1> HIDE DEF Taken
<1>2. \A p : p \in Taken <=> \E i \in I : p \in promises[i]
  BY DEF Taken
<1>3. TableTypes' /\ AtMostOne' /\ OneEntry' /\ NothingTodo'
  BY <1>1 DEF Table, TableTypes, AtMostOne, OneEntry, NothingTodo
<1>4. Known' /\ UnsettledBefore'
  BY <1>1, <1>2 DEF Table, Known, UnsettledBefore
<1>5. TakenOnce'
  <2>1. /\ \A p \in Taken : outcome[p] = Pending
        /\ \A r \in Settlers \ {s} : Taken \cap todo[r] = {}
        /\ \A i \in ExportIDs : Taken \cap promises'[i] = {}
    BY <1>2 DEF Table, TakenOnce, UnsettledBefore, OneEntry
  <2>2. \A r \in Settlers : \A i \in ExportIDs : todo'[r] \cap promises'[i] = {}
    BY <1>1, <2>1 DEF Table, TakenOnce
  <2>3. \A r \in Settlers : \A p \in todo'[r] : outcome'[p] = Pending
    BY <1>1, <2>1 DEF Table, TakenOnce
  <2>4. \A r, x \in Settlers : r # x => todo'[r] \cap todo'[x] = {}
    BY <1>1, <2>1 DEF Table, TakenOnce
  <2>5. QED
    BY <2>2, <2>3, <2>4 DEF TakenOnce
<1>6. NotForgotten'
  <2> SUFFICES ASSUME NEW p \in registered \ displaced, outcome[p] = Pending
               PROVE  (\E i \in ExportIDs : p \in promises'[i]) \/ (\E r \in Settlers : p \in todo'[r])
    BY <1>1 DEF NotForgotten
  <2>1. CASE \E r \in Settlers : p \in todo[r]
    BY <1>1, <2>1
  <2>2. ASSUME NEW i \in ExportIDs, p \in promises[i]
        PROVE  (\E j \in ExportIDs : p \in promises'[j]) \/ (\E r \in Settlers : p \in todo'[r])
    BY <1>1, <1>2, <2>2
  <2>3. QED
    BY <2>1, <2>2 DEF Table, NotForgotten
<1>7. QED
  BY <1>3, <1>4, <1>5, <1>6 DEF Table

\* Every step of the resolver keeps what holds of the table.
LEMMA TableNext == RInv /\ [RNext]_allVars => Table'
<1> SUFFICES ASSUME RInv, [RNext]_allVars PROVE Table'
  OBVIOUS
<1>0. TypeOK /\ Table
  BY DEF RInv, IInv
<1>1. ASSUME NEW a \in Awaiters, Await(a) \/ AwaitStep(a), UNCHANGED tableVars PROVE Table'
  <2>1. UNCHANGED <<outcome, todo, spc>>
    BY <1>1 DEF Await, AwaitStep, Register, Pull, Wake, GiveUp, settleVars
  <2>2. QED
    BY <1>0, <1>1, <2>1, Elsewhere
<1>2. ASSUME NEW s \in Settlers, SettleStep(s), UNCHANGED tableVars PROVE Table'
  <2>1. ASSUME NEW p \in Promises, Settle(s, p) PROVE Table'
    BY <1>0, <1>2, <2>1, SettleKeeps
  <2>2. CASE TakeWaiters(s) \/ AllNotified(s) \/ Finish(s)
    <3>1. UNCHANGED <<outcome, todo>> /\ \E c \in {"closing", "settle", "finished"} : spc' = [spc EXCEPT ![s] = c]
      BY <2>2 DEF TakeWaiters, AllNotified, Finish
    <3>2. \A r \in Settlers : spc'[r] = "idle" => spc[r] = "idle"
      BY <1>0, <3>1 DEF TypeOK
    <3>3. QED
      BY <1>0, <1>2, <3>1, <3>2, Elsewhere
  <2>3. ASSUME NEW a \in Awaiters, CloseChannel(s, a) PROVE Table'
    BY <1>0, <1>2, <2>3, Elsewhere DEF CloseChannel
  <2>4. QED
    BY <1>2, <2>1, <2>2, <2>3 DEF SettleStep
<1>3. ASSUME NEW i \in ExportIDs, NEW p \in Promises, RegisterPromise(i, p) PROVE Table'
  BY <1>0, <1>3, RegisterKeeps
<1>4. ASSUME NEW s \in Settlers, NEW i \in ExportIDs, TakePromise(s, i) PROVE Table'
  <2>1. /\ Start(s, UNION {promises[j] : j \in {i}})
        /\ UNCHANGED <<registered, displaced>>
        /\ promises' = [promises EXCEPT ![i] = {}]
    <3>1. UNION {promises[j] : j \in {i}} = promises[i]
      OBVIOUS
    <3>2. QED
      BY <1>4, <3>1 DEF TakePromise
  <2>2. /\ {i} \in SUBSET ExportIDs
        /\ promises' \in [ExportIDs -> SUBSET Promises]
        /\ \A j \in {i} : promises'[j] = {}
        /\ \A j \in ExportIDs \ {i} : promises'[j] = promises[j]
    BY <1>0, <2>1 DEF Table, TableTypes
  <2>3. QED
    BY <1>0, <2>1, <2>2, TakeKeeps
<1>5. ASSUME NEW s \in Settlers, CleanupPromises(s) PROVE Table'
  <2>1. promises' \in [ExportIDs -> SUBSET Promises] /\ \A i \in ExportIDs : promises'[i] = {}
    BY <1>5 DEF CleanupPromises
  <2>2. QED
    BY <1>0, <1>5, <2>1, TakeKeeps DEF CleanupPromises
<1>6. CASE UNCHANGED allVars
  BY <1>0, <1>6, Elsewhere DEF allVars, vars, tableVars
<1>7. QED
  BY <1>1, <1>2, <1>3, <1>4, <1>5, <1>6 DEF RNext

\* The invariant holds throughout every behaviour of the resolver.
LEMMA ResolverInvariant == RSafe => []RInv
<1>1. RInv /\ [RNext]_allVars => RInv'
  BY PromisesNext, TableNext DEF RInv
<1>2. QED
  BY <1>1, TableInit, PTL DEF RSafe

(***************************************************************************)
(* Type correctness of the promise resolver; an ID has at most one entry    *)
(* (promise.go:301-369).                                                    *)
(***************************************************************************)
THEOREM ResolverTypeCorrect == RSafe => []RTypeOK
<1>1. RInv => RTypeOK
  <2> SUFFICES ASSUME RInv PROVE RTypeOK
    OBVIOUS
  <2>1. \A i \in ExportIDs : Cardinality(promises[i]) <= 1
    <3> SUFFICES ASSUME NEW i \in ExportIDs PROVE Cardinality(promises[i]) <= 1
      OBVIOUS
    <3>1. CASE promises[i] = {}
      BY <3>1, FS_EmptySet
    <3>2. ASSUME NEW p \in Promises, promises[i] = {p} PROVE Cardinality(promises[i]) <= 1
      BY <3>2, FS_Singleton
    <3>3. QED
      BY <3>1, <3>2 DEF RInv, Table, AtMostOne
  <2>2. QED
    BY <2>1 DEF RInv, IInv, Table, TableTypes, RTypeOK
<1>2. QED
  BY <1>1, ResolverInvariant, PTL

(***************************************************************************)
(* No registered promise is forgotten: while it is pending it is in the     *)
(* table or a call still has to settle it, however registrations, resolves, *)
(* rejects and the shutdown cleanup race (promise.go:314-369).              *)
(***************************************************************************)
THEOREM NothingForgotten == RSafe => []NotForgotten
<1>1. RInv => NotForgotten
  BY DEF RInv, Table
<1>2. QED
  BY <1>1, ResolverInvariant, PTL

(***************************************************************************)
(* An entry is taken by one call only, and the promise it takes is pending: *)
(* of the racing calls exactly one settles it (promise.go:321-369).         *)
(***************************************************************************)
THEOREM OneSettler == RSafe => []TakenOnce
<1>1. RInv => TakenOnce
  BY DEF RInv, Table
<1>2. QED
  BY <1>1, ResolverInvariant, PTL

-----------------------------------------------------------------------------
(***************************************************************************)
(* The promises behind a resolver implement write-once cells as well: what  *)
(* the table hands out and when does not matter (promise.go:124-369).       *)
(***************************************************************************)
THEOREM ResolvedPromiseIsFuture == RSafe => IsFuture
<1>1. RInit => Cell!Init
  BY DEF RInit, Init, Cell!Init
<1>2. RInv /\ [RNext]_allVars => [Cell!Next]_(Cell!vars)
  <2> SUFFICES ASSUME RInv, [RNext]_allVars PROVE [Cell!Next]_(Cell!vars)
    OBVIOUS
  <2>1. CASE [Next]_vars
    BY <2>1, StepRefines DEF RInv
  <2>2. ASSUME NEW s \in Settlers, NEW ps, Start(s, ps) PROVE UNCHANGED Cell!vars
    BY <2>2 DEF Start, awaitVars, Cell!vars
  <2>3. QED
    BY <2>1, <2>2 DEF RNext, allVars, Next, RegisterPromise, TakePromise, CleanupPromises
<1>3. QED
  BY <1>1, <1>2, ResolverInvariant, PTL DEF RSafe, IsFuture, Cell!Spec

-----------------------------------------------------------------------------
(***************************************************************************)
(* Subscriptions: the inductive invariant.                                  *)
(***************************************************************************)

\* A handler that is past its lookup has found a subscription.
FoundOne == \A h \in Handlers : handler[h].pc # "idle" => handler[h].found \in Subs

\* The channel is made by Subscribe and closed when Active is cleared.
ActiveIsOpen ==
  \A s \in Subs :
     /\ sub[s].active <=> sub[s].chan = "open"
     /\ stage[s] = "idle" <=> sub[s].chan = "none"

\* A callback runs late only once the channel is closed.
LateIsAfter == \A s \in Subs : late[s] > 0 => sub[s].chan = "closed"

SubInv ==
  /\ SubTypeOK /\ FoundOne
  /\ ActiveIsOpen /\ LateIsAfter
  /\ TableLive /\ BufferedIsDropped

\* Initially there are no subscriptions.
LEMMA SubInvInit == SubInit => SubInv
<1> SUFFICES ASSUME SubInit PROVE SubInv
  OBVIOUS
<1>1. SubTypeOK
  BY SubscriptionsAssumption DEF SubInit, SubTypeOK, Subscription, Free
<1>2. FoundOne /\ ActiveIsOpen /\ LateIsAfter /\ TableLive /\ BufferedIsDropped
  BY DEF SubInit, Free, FoundOne, ActiveIsOpen, LateIsAfter, TableLive, BufferedIsDropped
<1>3. QED
  BY <1>1, <1>2 DEF SubInv

\* Subscribe makes an entry for a subscription that was in none.
LEMMA SubscribeKeeps ==
  ASSUME SubInv, NEW s \in Subs, NEW e \in Events, Subscribe(s, e)
  PROVE  SubInv'
<1> DEFINE new == [event |-> e, active |-> TRUE, chan |-> "open", pending |-> 0]
<1>1. /\ stage[s] = "idle" /\ sub[s].chan = "none"
      /\ late[s] = 0 /\ s # None /\ new \in Subscription
  BY SubscriptionsAssumption DEF Subscribe, SubInv, ActiveIsOpen, LateIsAfter, SubTypeOK, Subscription
<1>2. /\ sub'[s] = new /\ stage'[s] = "sending" /\ loop'[s] = "receive"
      /\ subscriptions'[e] = s
      /\ \A r \in Subs \ {s} : sub'[r] = sub[r] /\ stage'[r] = stage[r] /\ loop'[r] = loop[r]
      /\ \A f \in Events \ {e} : subscriptions'[f] = subscriptions[f] /\ subscriptions[f] # s
      /\ UNCHANGED <<mux, spawned, due, late, handler, arrived>>
  BY <1>1 DEF Subscribe, SubInv, SubTypeOK, TableLive, eventVars, callbackVars
<1>3. SubTypeOK'
  BY <1>1 DEF Subscribe, SubInv, SubTypeOK, eventVars, callbackVars
<1> HIDE DEF new
<1>4. FoundOne'
  BY <1>2 DEF SubInv, FoundOne
<1>5. ActiveIsOpen' /\ LateIsAfter'
  BY <1>1, <1>2 DEF SubInv, ActiveIsOpen, LateIsAfter, new
<1>6. TableLive'
  BY <1>2 DEF SubInv, TableLive, SubTypeOK, new
<1>7. BufferedIsDropped'
  BY <1>1, <1>2 DEF SubInv, BufferedIsDropped, new
<1>8. QED
  BY <1>3, <1>4, <1>5, <1>6, <1>7 DEF SubInv

\* Unsubscribe ends the subscription and removes its only entry.
LEMMA UnsubscribeKeeps ==
  ASSUME SubInv, NEW s \in Subs, Unsubscribe(s)
  PROVE  SubInv'
<1>1. CASE \A e \in Events : subscriptions[e] # s
  <2>1. /\ stage' = [stage EXCEPT ![s] = "notfound"] /\ stage[s] # "idle"
        /\ UNCHANGED <<subscriptions, sub, mux, loop, spawned, due, late, handler, arrived>>
    BY <1>1 DEF Unsubscribe, eventVars
  <2>2. SubTypeOK'
    BY <2>1 DEF SubInv, SubTypeOK
  <2>3. FoundOne' /\ LateIsAfter' /\ TableLive' /\ BufferedIsDropped'
    BY <2>1 DEF SubInv, FoundOne, LateIsAfter, TableLive, BufferedIsDropped
  <2>4. ActiveIsOpen'
    BY <2>1 DEF SubInv, SubTypeOK, ActiveIsOpen
  <2>5. QED
    BY <2>2, <2>3, <2>4 DEF SubInv
<1>2. ASSUME NEW e \in Events, subscriptions[e] = s,
             sub' = [sub EXCEPT ![s].active = FALSE, ![s].chan = "closed"],
             subscriptions' = [subscriptions EXCEPT ![e] = None],
             mux' = s, stage' = [stage EXCEPT ![s] = "unsubscribing"],
             due' = [due EXCEPT ![s] = spawned[s]],
             UNCHANGED <<loop, spawned, late, handler, arrived>>
      PROVE  SubInv'
  <2>1. /\ sub[s].event = e /\ sub[s].chan = "open" /\ loop[s] # "ended"
        /\ late[s] = 0
    BY <1>2, SubscriptionsAssumption DEF SubInv, TableLive, LateIsAfter, SubTypeOK
  <2>2. /\ sub[s] \in Subscription
        /\ sub'[s] = [sub[s] EXCEPT !.active = FALSE, !.chan = "closed"]
        /\ stage'[s] = "unsubscribing" /\ subscriptions'[e] = None
        /\ \A r \in Subs \ {s} : sub'[r] = sub[r] /\ stage'[r] = stage[r]
        /\ \A f \in Events \ {e} : subscriptions'[f] = subscriptions[f] /\ subscriptions[f] # s
    BY <1>2, <2>1, SubscriptionsAssumption DEF SubInv, SubTypeOK, TableLive
  <2>3. SubTypeOK'
    <3>1. sub' \in [Subs -> Subscription]
      BY <1>2, <2>2 DEF SubInv, SubTypeOK, Subscription
    <3>2. QED
      BY <1>2, <3>1 DEF SubInv, SubTypeOK
  <2>4. FoundOne'
    BY <1>2 DEF SubInv, FoundOne
  <2>5. sub'[s].active = FALSE /\ sub'[s].chan = "closed"
    BY <2>2 DEF Subscription
  <2>6. ActiveIsOpen' /\ LateIsAfter'
    <3>1. UNCHANGED late
      BY <1>2
    <3>2. ASSUME NEW r \in Subs
          PROVE  /\ sub'[r].active <=> sub'[r].chan = "open"
                 /\ stage'[r] = "idle" <=> sub'[r].chan = "none"
                 /\ late'[r] > 0 => sub'[r].chan = "closed"
      <4>1. CASE r = s
        BY <2>2, <2>5, <4>1
      <4>2. CASE r # s
        BY <2>2, <3>1, <4>2 DEF SubInv, ActiveIsOpen, LateIsAfter
      <4>3. QED
        BY <4>1, <4>2
    <3>3. QED
      BY <3>2 DEF ActiveIsOpen, LateIsAfter
  <2>7. TableLive'
    BY <1>2, <2>2, <2>5 DEF SubInv, TableLive, SubTypeOK
  <2>8. BufferedIsDropped'
    <3>1. /\ late'[s] = 0 /\ spawned'[s] = due'[s] /\ due'[s] \in Nat
          /\ \A r \in Subs \ {s} : due'[r] = due[r]
          /\ UNCHANGED <<late, spawned, loop>>
      BY <1>2, <2>1 DEF SubInv, SubTypeOK
    <3>2. \A r \in Subs \ {s} : sub'[r].chan = "closed" =>
             late'[r] + spawned'[r] + (IF loop'[r] = "start" THEN 1 ELSE 0) <= due'[r] + 1
      BY <2>2, <3>1 DEF SubInv, BufferedIsDropped
    <3>3. QED
      BY <3>1, <3>2 DEF BufferedIsDropped
  <2>9. QED
    BY <2>3, <2>4, <2>6, <2>7, <2>8 DEF SubInv
<1>3. QED
  BY <1>1, <1>2 DEF Unsubscribe, eventVars

\* SubscribeSent and UnsubscribeSent move only the calls themselves.
LEMMA SentKeeps ==
  ASSUME SubInv, NEW s \in Subs, SubscribeSent(s) \/ UnsubscribeSent(s)
  PROVE  SubInv'
<1>1. PICK g \in {"subscribed", "undo", "unsubscribed"} : stage' = [stage EXCEPT ![s] = g]
  BY DEF SubscribeSent, UnsubscribeSent
<1>2. /\ stage[s] # "idle" /\ mux' \in {mux, None}
      /\ UNCHANGED <<subscriptions, sub, loop, spawned, due, late, handler, arrived>>
  BY DEF SubscribeSent, UnsubscribeSent, eventVars, callbackVars
<1>3. SubTypeOK'
  BY <1>1, <1>2 DEF SubInv, SubTypeOK
<1>4. FoundOne' /\ LateIsAfter' /\ TableLive' /\ BufferedIsDropped'
  BY <1>2 DEF SubInv, FoundOne, LateIsAfter, TableLive, BufferedIsDropped
<1>5. ActiveIsOpen'
  BY <1>1, <1>2 DEF SubInv, SubTypeOK, ActiveIsOpen
<1>6. QED
  BY <1>3, <1>4, <1>5 DEF SubInv

\* The goroutine of a subscription starts a callback only when it has seen the
\* subscription active, and then goes back to its channel.
LEMMA LoopKeeps ==
  ASSUME SubInv, NEW s \in Subs, LoopStep(s)
  PROVE  SubInv'
<1>0. UNCHANGED <<subscriptions, stage, mux, handler, arrived>> /\ sub[s] \in Subscription
  BY DEF LoopStep, LoopReceive, LoopCheck, LoopStart, eventVars, SubInv, SubTypeOK
<1>1. CASE LoopReceive(s) /\ sub[s].pending > 0
  <2>1. /\ loop' = [loop EXCEPT ![s] = "check"] /\ sub' = [sub EXCEPT ![s].pending = @ - 1]
        /\ UNCHANGED <<spawned, due, late>>
    BY <1>1 DEF LoopReceive, callbackVars, SubInv, SubTypeOK, Subscription
  <2>2. SubTypeOK'
    <3>1. [sub[s] EXCEPT !.pending = @ - 1] \in Subscription
      BY <1>0, <1>1, SubscriptionsAssumption DEF Subscription
    <3>2. sub' \in [Subs -> Subscription]
      BY <2>1, <3>1 DEF SubInv, SubTypeOK
    <3>3. QED
      BY <1>0, <2>1, <3>2 DEF SubInv, SubTypeOK
  <2>3. \A r \in Subs : sub'[r].event = sub[r].event /\ sub'[r].active = sub[r].active /\ sub'[r].chan = sub[r].chan
    BY <2>1 DEF SubInv, SubTypeOK, Subscription
  <2>4. \A r \in Subs : loop'[r] = IF r = s THEN "check" ELSE loop[r]
    BY <2>1 DEF SubInv, SubTypeOK
  <2>5. FoundOne' /\ ActiveIsOpen' /\ LateIsAfter' /\ BufferedIsDropped'
    BY <1>0, <2>1, <2>3, <2>4 DEF SubInv, FoundOne, ActiveIsOpen, LateIsAfter, BufferedIsDropped, SubTypeOK
  <2>6. TableLive'
    BY <1>0, <2>3, <2>4 DEF SubInv, TableLive, SubTypeOK
  <2>7. QED
    BY <2>2, <2>5, <2>6 DEF SubInv
<1>2. CASE (LoopReceive(s) /\ sub[s].pending = 0) \/ LoopCheck(s)
  <2>1. UNCHANGED <<sub, spawned, due, late>>
    BY <1>2 DEF LoopReceive, LoopCheck, callbackVars
  <2>2. \E l \in {"receive", "start", "ended"} :
          /\ loop' = [loop EXCEPT ![s] = l]
          /\ l = "ended" => sub[s].chan = "closed"
          /\ l = "start" => sub[s].chan = "open" /\ late[s] = 0
    BY <1>2 DEF LoopReceive, LoopCheck, SubInv, ActiveIsOpen, LateIsAfter, SubTypeOK
  <2>3. PICK l \in {"receive", "start", "ended"} :
          /\ loop' = [loop EXCEPT ![s] = l]
          /\ l = "ended" => sub[s].chan = "closed"
          /\ l = "start" => sub[s].chan = "open" /\ late[s] = 0
    BY <2>2
  <2>4. SubTypeOK'
    BY <1>0, <2>1, <2>3 DEF SubInv, SubTypeOK
  <2>5. FoundOne' /\ ActiveIsOpen' /\ LateIsAfter'
    BY <1>0, <2>1 DEF SubInv, FoundOne, ActiveIsOpen, LateIsAfter
  <2>6. TableLive'
    BY <1>0, <2>1, <2>3 DEF SubInv, TableLive, SubTypeOK
  <2>7. BufferedIsDropped'
    BY <1>0, <2>1, <2>3 DEF SubInv, BufferedIsDropped, SubTypeOK
  <2>8. QED
    BY <2>4, <2>5, <2>6, <2>7 DEF SubInv
<1>3. CASE LoopStart(s)
  <2>1. /\ loop[s] = "start" /\ loop' = [loop EXCEPT ![s] = "receive"]
        /\ spawned' = [spawned EXCEPT ![s] = @ + 1] /\ UNCHANGED <<sub, due, late>>
    BY <1>3 DEF LoopStart
  <2>2. SubTypeOK'
    BY <1>0, <2>1 DEF SubInv, SubTypeOK
  <2>3. FoundOne' /\ ActiveIsOpen'
    BY <1>0, <2>1 DEF SubInv, FoundOne, ActiveIsOpen
  <2>4. LateIsAfter'
    BY <1>0, <2>1 DEF SubInv, SubTypeOK, LateIsAfter
  <2>5. TableLive'
    BY <1>0, <2>1 DEF SubInv, SubTypeOK, TableLive
  <2>6. BufferedIsDropped'
    BY <1>0, <2>1 DEF SubInv, SubTypeOK, BufferedIsDropped
  <2>7. QED
    BY <2>2, <2>3, <2>4, <2>5, <2>6 DEF SubInv
<1>4. QED
  BY <1>0, <1>1, <1>2, <1>3 DEF LoopStep, LoopReceive

\* A callback that runs is no longer one that is to run.
LEMMA RunKeeps ==
  ASSUME SubInv, NEW s \in Subs, RunCallback(s)
  PROVE  SubInv'
<1>1. /\ spawned[s] > 0 /\ spawned' = [spawned EXCEPT ![s] = @ - 1]
      /\ late' = [late EXCEPT ![s] = IF sub[s].chan = "closed" THEN @ + 1 ELSE @]
      /\ UNCHANGED <<subscriptions, sub, stage, mux, loop, due, handler, arrived>>
  BY DEF RunCallback, eventVars
<1>2. SubTypeOK'
  BY <1>1 DEF SubInv, SubTypeOK
<1>3. FoundOne' /\ ActiveIsOpen' /\ TableLive'
  BY <1>1 DEF SubInv, FoundOne, ActiveIsOpen, TableLive
<1>4. LateIsAfter'
  BY <1>1 DEF SubInv, SubTypeOK, LateIsAfter
<1>5. BufferedIsDropped'
  BY <1>1 DEF SubInv, SubTypeOK, BufferedIsDropped
<1>6. QED
  BY <1>2, <1>3, <1>4, <1>5 DEF SubInv

\* handleEvent moves the handlers and puts events into open channels.
LEMMA EventKeeps ==
  ASSUME SubInv, NEW h \in Handlers,
         (\E e \in Events : EventArrives(h, e)) \/ HandlerStep(h)
  PROVE  SubInv'
<1>0. UNCHANGED <<subscriptions, stage, mux, loop, spawned, due, late>>
  BY DEF EventArrives, HandlerStep, EventCheck, EventSend, subRest, callbackVars
<1>1. ASSUME NEW x \in [pc : {"idle", "check", "send", "panicked"}, found : Subs \cup {None}],
             x.pc # "idle" => x.found \in Subs,
             handler' = [handler EXCEPT ![h] = x], arrived' \in 0..MaxData,
             sub' \in [Subs -> Subscription],
             \A s \in Subs : /\ sub'[s].event = sub[s].event /\ sub'[s].active = sub[s].active
                             /\ sub'[s].chan = sub[s].chan
      PROVE  SubInv'
  <2>1. SubTypeOK' /\ FoundOne'
    BY <1>0, <1>1 DEF SubInv, SubTypeOK, FoundOne
  <2>2. ActiveIsOpen' /\ LateIsAfter' /\ BufferedIsDropped'
    BY <1>0, <1>1 DEF SubInv, ActiveIsOpen, LateIsAfter, BufferedIsDropped
  <2>3. TableLive'
    BY <1>0, <1>1 DEF SubInv, SubTypeOK, TableLive
  <2>4. QED
    BY <2>1, <2>2, <2>3 DEF SubInv
<1>2. ASSUME NEW e \in Events, EventArrives(h, e) PROVE SubInv'
  <2> DEFINE x == IF subscriptions[e] = None THEN Free ELSE [pc |-> "check", found |-> subscriptions[e]]
  <2>1. /\ handler' = [handler EXCEPT ![h] = x]
        /\ arrived' \in 0..MaxData /\ UNCHANGED sub
    BY <1>2, SubscriptionsAssumption DEF EventArrives, subRest, SubInv, SubTypeOK
  <2>2. /\ x \in [pc : {"idle", "check", "send", "panicked"}, found : Subs \cup {None}]
        /\ x.pc # "idle" => x.found \in Subs
    BY DEF SubInv, SubTypeOK, Free
  <2> HIDE DEF x
  <2>3. QED
    BY <1>1, <2>1, <2>2 DEF SubInv, SubTypeOK
<1>3. CASE EventCheck(h)
  BY <1>1, <1>3 DEF EventCheck, subRest, Free, SubInv, SubTypeOK, FoundOne
<1>4. CASE EventSend(h)
  <2> DEFINE s == handler[h].found
  <2>1. s \in Subs /\ handler[h] \in [pc : {"idle", "check", "send", "panicked"}, found : Subs \cup {None}]
    BY <1>4, SMTT(40) DEF EventSend, SubInv, SubTypeOK, FoundOne
  <2>2. /\ sub' \in [Subs -> Subscription]
        /\ \A r \in Subs : /\ sub'[r].event = sub[r].event /\ sub'[r].active = sub[r].active
                           /\ sub'[r].chan = sub[r].chan
    <3>1. sub \in [Subs -> Subscription] /\ sub[s] \in Subscription
      BY <2>1 DEF SubInv, SubTypeOK
    <3>2. CASE sub[s].pending < Buffer /\ sub' = [sub EXCEPT ![s].pending = @ + 1]
      <4>1. [sub[s] EXCEPT !.pending = @ + 1] \in Subscription
        BY <3>1, <3>2, SubscriptionsAssumption DEF Subscription
      <4>2. QED
        BY <2>1, <3>1, <3>2, <4>1 DEF Subscription
    <3>3. CASE UNCHANGED sub
      BY <3>1, <3>3
    <3>4. QED
      BY <1>4, <3>2, <3>3 DEF EventSend
  <2>3. UNCHANGED arrived /\ arrived \in 0..MaxData
    BY <1>4 DEF EventSend, SubInv, SubTypeOK
  <2>4. QED
    BY <1>1, <1>4, <2>1, <2>2, <2>3 DEF EventSend, Free
<1>5. QED
  BY <1>2, <1>3, <1>4 DEF HandlerStep

\* The invariant holds throughout every behaviour of the subscriptions.
LEMMA SubInvariant == SubSafe => []SubInv
<1>1. SubInv /\ [SubNext]_subVars => SubInv'
  <2> SUFFICES ASSUME SubInv, [SubNext]_subVars PROVE SubInv'
    OBVIOUS
  <2>1. CASE UNCHANGED subVars
    BY <2>1 DEF subVars, callbackVars, eventVars, SubInv, SubTypeOK, FoundOne, ActiveIsOpen, LateIsAfter, TableLive, BufferedIsDropped
  <2>2. QED
    BY <2>1, SubscribeKeeps, SentKeeps, UnsubscribeKeeps, LoopKeeps, RunKeeps, EventKeeps DEF SubNext
<1>2. QED
  BY <1>1, SubInvInit, PTL DEF SubSafe

(***************************************************************************)
(* Type correctness of the subscriptions (bidirectional.go:86-130,          *)
(* 291-366, 454-472, 592-606).                                              *)
(***************************************************************************)
THEOREM SubscriptionsTypeCorrect == SubSafe => []SubTypeOK
<1>1. SubInv => SubTypeOK
  BY DEF SubInv
<1>2. QED
  BY <1>1, SubInvariant, PTL

(***************************************************************************)
(* What the table holds is alive: a lookup never finds a subscription that  *)
(* has ended (bidirectional.go:332-357, 454-472).                           *)
(***************************************************************************)
THEOREM TableHoldsLive == SubSafe => []TableLive
<1>1. SubInv => TableLive
  BY DEF SubInv
<1>2. QED
  BY <1>1, SubInvariant, PTL

(***************************************************************************)
(* What is in the channel when Unsubscribe closes it is not delivered: of   *)
(* the callbacks that run after that all but one have had a goroutine       *)
(* before, however many events are left (bidirectional.go:333-357,          *)
(* 592-606).                                                                *)
(***************************************************************************)
THEOREM UnsubscribeDropsBuffered == SubSafe => []BufferedIsDropped
<1>1. SubInv => BufferedIsDropped
  BY DEF SubInv
<1>2. QED
  BY <1>1, SubInvariant, PTL

-----------------------------------------------------------------------------
(***************************************************************************)
(* Callbacks: the IDs that were drawn are as many as their callers.         *)
(***************************************************************************)

Drawn == {c \in Creators : creator[c].pc # "idle"}

Counted == nextCallbackID = Cardinality(Drawn)

\* A drawn ID is one of those counted so far, and nobody else's.
OwnID ==
  /\ \A c \in Drawn : creator[c].id \in 1..nextCallbackID
  /\ \A c, d \in Drawn : c # d => creator[c].id # creator[d].id

CallInv == CallTypeOK /\ Counted /\ OwnID /\ CallbackKept

\* The counter stays within the IDs there are callers for.
LEMMA DrawnBound ==
  ASSUME creator \in [Creators -> [pc : {"idle", "drawn", "stored"}, id : 0..Cardinality(Creators)]]
  PROVE  /\ IsFiniteSet(Drawn) /\ Cardinality(Creators) \in Nat
         /\ Cardinality(Drawn) \in 0..Cardinality(Creators)
<1>1. Drawn \subseteq Creators
  BY DEF Drawn
<1>2. QED
  BY <1>1, FS_Subset, FS_CardinalityType, CallbacksAssumption

\* Initially nothing is drawn, registered or called.
LEMMA CallInvInit == CallInit => CallInv
<1> SUFFICES ASSUME CallInit PROVE CallInv
  OBVIOUS
<1>1. Cardinality(Creators) \in Nat
  BY FS_CardinalityType, CallbacksAssumption
<1>2. Drawn = {} /\ Counted
  <2>1. Drawn = {}
    BY DEF CallInit, Drawn
  <2>2. QED
    BY <2>1, FS_EmptySet DEF CallInit, Counted
<1>3. CallTypeOK
  BY <1>1 DEF CallInit, CallTypeOK, Invocation
<1>4. OwnID /\ CallbackKept
  BY <1>2 DEF CallInit, OwnID, CallbackKept
<1>5. QED
  BY <1>2, <1>3, <1>4 DEF CallInv

\* CreateCallback draws an ID that nobody has.
LEMMA DrawKeeps ==
  ASSUME CallInv, NEW c \in Creators, CreateCallback(c)
  PROVE  CallInv'
<1>0. CallTypeOK
  BY DEF CallInv
<1>1. /\ c \notin Drawn /\ nextCallbackID' = nextCallbackID + 1
      /\ creator' = [creator EXCEPT ![c] = [pc |-> "drawn", id |-> nextCallbackID + 1]]
      /\ UNCHANGED <<clientServices, callbacks, call>>
  BY DEF CreateCallback, Drawn
<1>2. /\ IsFiniteSet(Drawn) /\ Cardinality(Creators) \in Nat
      /\ nextCallbackID \in Nat /\ nextCallbackID = Cardinality(Drawn)
  BY <1>0, DrawnBound DEF CallInv, CallTypeOK, Counted
<1>3. Drawn' = Drawn \cup {c}
  BY <1>0, <1>1 DEF Drawn, CallTypeOK
<1>4. Cardinality(Drawn') = nextCallbackID + 1
  BY <1>1, <1>2, <1>3, FS_AddElement
<1>5. nextCallbackID + 1 <= Cardinality(Creators)
  <2>1. Drawn' \subseteq Creators
    BY <1>3 DEF Drawn
  <2>2. Cardinality(Drawn') <= Cardinality(Creators)
    BY <2>1, FS_Subset, CallbacksAssumption
  <2>3. QED
    BY <1>4, <2>2
<1>6. CallTypeOK'
  BY <1>0, <1>1, <1>2, <1>5 DEF CallTypeOK, CallbackIDs
<1>7. Counted'
  BY <1>1, <1>4 DEF Counted
<1>8. /\ creator'[c].id = nextCallbackID + 1 /\ creator'[c].pc = "drawn"
      /\ \A d \in Creators \ {c} : creator'[d] = creator[d]
  BY <1>0, <1>1 DEF CallTypeOK
<1>9. OwnID'
  <2>1. \A d \in Drawn : d # c /\ creator'[d].id = creator[d].id /\ creator[d].id \in 1..nextCallbackID
    BY <1>1, <1>8 DEF CallInv, OwnID, Drawn
  <2>2. \A d \in Drawn' : creator'[d].id \in 1..nextCallbackID'
    BY <1>1, <1>2, <1>3, <1>8, <2>1
  <2>3. \A d, b \in Drawn : d # b => creator'[d].id # creator'[b].id
    BY <2>1 DEF CallInv, OwnID
  <2>4. \A d \in Drawn : creator'[d].id # creator'[c].id
    BY <1>2, <1>8, <2>1
  <2>5. QED
    BY <1>3, <2>2, <2>3, <2>4 DEF OwnID
<1>10. CallbackKept'
  BY <1>1, <1>8 DEF CallInv, CallbackKept
<1>11. QED
  BY <1>6, <1>7, <1>9, <1>10 DEF CallInv

\* StoreCallback writes under an ID of its own, so no other entry is lost.
LEMMA StoreKeeps ==
  ASSUME CallInv, NEW c \in Creators, StoreCallback(c)
  PROVE  CallInv'
<1>0. CallTypeOK /\ c \in Drawn /\ creator[c].id \in CallbackIDs
  <2>1. CallTypeOK /\ c \in Drawn
    BY DEF CallInv, StoreCallback, Drawn
  <2>2. nextCallbackID \in 0..Cardinality(Creators) /\ Cardinality(Creators) \in Nat
    BY <2>1, DrawnBound DEF CallTypeOK
  <2>3. QED
    BY <2>1, <2>2 DEF CallInv, OwnID, CallbackIDs
<1>1. /\ callbacks' = [callbacks EXCEPT ![creator[c].id] = c]
      /\ creator' = [creator EXCEPT ![c].pc = "stored"]
      /\ UNCHANGED <<clientServices, nextCallbackID, call>>
  BY DEF StoreCallback
<1>2. \A d \in Creators : creator'[d].id = creator[d].id /\ (d # c => creator'[d] = creator[d])
  BY <1>0, <1>1 DEF CallTypeOK
<1>3. Drawn' = Drawn /\ CallTypeOK'
  BY <1>0, <1>1 DEF Drawn, CallTypeOK
<1>4. Counted' /\ OwnID'
  <2>1. \A d \in Drawn : creator'[d].id = creator[d].id
    BY <1>2 DEF Drawn
  <2>2. QED
    BY <1>1, <1>3, <2>1 DEF CallInv, Counted, OwnID
<1>5. CallbackKept'
  <2> SUFFICES ASSUME NEW d \in Creators, creator'[d].pc = "stored"
               PROVE  callbacks'[creator'[d].id] = d
    BY DEF CallbackKept
  <2>1. CASE d = c
    BY <1>0, <1>1, <1>2, <2>1 DEF CallTypeOK
  <2>2. CASE d # c
    <3>1. d \in Drawn /\ callbacks[creator[d].id] = d
      BY <1>2, <2>2 DEF CallInv, CallbackKept, Drawn
    <3>2. creator[d].id # creator[c].id
      BY <1>0, <2>2, <3>1 DEF CallInv, OwnID
    <3>3. QED
      BY <1>0, <1>1, <1>2, <2>2, <3>1, <3>2 DEF CallTypeOK
  <2>3. QED
    BY <2>1, <2>2
<1>6. QED
  BY <1>3, <1>4, <1>5 DEF CallInv

\* Messages that are handled leave the IDs alone.
LEMMA InvocationKeeps ==
  ASSUME CallInv, UNCHANGED <<nextCallbackID, callbacks, creator>>,
         clientServices' \subseteq Services, call' \in [Invocations -> Invocation]
  PROVE  CallInv'
BY DEF CallInv, CallTypeOK, Counted, OwnID, CallbackKept, Drawn

\* A message is handled and answered within the types.
LEMMA InvocationTypes ==
  ASSUME CallTypeOK, NEW i \in Invocations,
         \/ \E n \in Services : HandleClientCall(i, n)
         \/ \E id \in CallbackIDs : HandleCallbackInvoke(i, id)
         \/ FunctionReturns(i) \/ DeliverResult(i) \/ CallReturns(i)
  PROVE  call' \in [Invocations -> Invocation] /\ UNCHANGED callRest
<1>1. call \in [Invocations -> Invocation] /\ call[i] \in Invocation
  BY DEF CallTypeOK
<1>2. \A k \in {"resolve", "reject"} : Append(call[i].replies, k) \in Seq({"resolve", "reject"})
  BY <1>1 DEF Invocation
<1>3. ASSUME NEW K \in SUBSET {"resolve", "reject"}, AnswerAtOnce(i, K)
      PROVE  call' \in [Invocations -> Invocation] /\ UNCHANGED callRest
  BY <1>1, <1>2, <1>3 DEF AnswerAtOnce, Invocation
<1>4. ASSUME NEW n \in Services, HandleClientCall(i, n)
      PROVE  call' \in [Invocations -> Invocation] /\ UNCHANGED callRest
  BY <1>3, <1>4 DEF HandleClientCall
<1>5. ASSUME NEW id \in CallbackIDs, HandleCallbackInvoke(i, id)
      PROVE  call' \in [Invocations -> Invocation] /\ UNCHANGED callRest
  <2>1. CASE AnswerAtOnce(i, {"reject"})
    BY <1>3, <2>1
  <2>2. CASE call' = [call EXCEPT ![i].caller = "waiting", ![i].fn = "running"] /\ UNCHANGED callRest
    <3>1. [call[i] EXCEPT !.caller = "waiting", !.fn = "running"] \in Invocation
      BY <1>1 DEF Invocation
    <3>2. QED
      BY <1>1, <2>2, <3>1
  <2>3. QED
    BY <1>5, <2>1, <2>2 DEF HandleCallbackInvoke
<1>6. CASE FunctionReturns(i) \/ DeliverResult(i)
  <2>1. [call[i] EXCEPT !.fn = "result"] \in Invocation
    BY <1>1 DEF Invocation
  <2>2. ASSUME NEW x \in Invocation
        PROVE  [x EXCEPT !.chan = 1] \in Invocation
    BY <2>2 DEF Invocation
  <2>3. [[call[i] EXCEPT !.fn = "ended"] EXCEPT !.chan = 1] \in Invocation
    <3>1. [call[i] EXCEPT !.fn = "ended"] \in Invocation
      BY <1>1 DEF Invocation
    <3>2. QED
      BY <2>2, <3>1
  <2>4. CASE FunctionReturns(i)
    BY <1>1, <2>1, <2>4 DEF FunctionReturns
  <2>5. CASE DeliverResult(i)
    BY <1>1, <2>3, <2>5 DEF DeliverResult
  <2>6. QED
    BY <1>6, <2>4, <2>5
<1>7. CASE CallReturns(i)
  BY <1>1, <1>2, <1>7 DEF CallReturns, Invocation
<1>8. QED
  BY <1>4, <1>5, <1>6, <1>7

\* The invariant holds throughout every behaviour of the callbacks.
LEMMA CallInvariant == CallSafe => []CallInv
<1>1. CallInv /\ [CallNext]_callVars => CallInv'
  <2> SUFFICES ASSUME CallInv, [CallNext]_callVars PROVE CallInv'
    OBVIOUS
  <2>0. CallTypeOK
    BY DEF CallInv
  <2>1. ASSUME NEW n \in Services, RegisterClientService(n) PROVE CallInv'
    BY <2>0, <2>1, InvocationKeeps DEF RegisterClientService, CallTypeOK
  <2>2. ASSUME NEW i \in Invocations,
               \/ \E n \in Services : HandleClientCall(i, n)
               \/ \E id \in CallbackIDs : HandleCallbackInvoke(i, id)
               \/ FunctionReturns(i) \/ DeliverResult(i) \/ CallReturns(i)
        PROVE  CallInv'
    <3>1. call' \in [Invocations -> Invocation] /\ UNCHANGED callRest
      BY <2>0, <2>2, InvocationTypes
    <3>2. QED
      BY <2>0, <3>1, InvocationKeeps DEF CallTypeOK, callRest
  <2>3. CASE UNCHANGED callVars
    BY <2>0, <2>3, InvocationKeeps DEF CallTypeOK, callVars
  <2>4. QED
    BY <2>1, <2>2, <2>3, DrawKeeps, StoreKeeps DEF CallNext
<1>2. QED
  BY <1>1, CallInvInit, PTL DEF CallSafe

(***************************************************************************)
(* Type correctness of the client services and callbacks: in particular the *)
(* counter of callback IDs is never ahead of the calls that drew one        *)
(* (bidirectional.go:12-33, 133-288).                                       *)
(***************************************************************************)
THEOREM CallbacksTypeCorrect == CallSafe => []CallTypeOK
<1>1. CallInv => CallTypeOK
  BY DEF CallInv
<1>2. QED
  BY <1>1, CallInvariant, PTL

(***************************************************************************)
(* Every CreateCallback that has returned finds its own function under its  *)
(* ID, for any number of concurrent calls (bidirectional.go:181-225).       *)
(***************************************************************************)
THEOREM CallbacksKept == CallSafe => []CallbackKept
<1>1. CallInv => CallbackKept
  BY DEF CallInv
<1>2. QED
  BY <1>1, CallInvariant, PTL

-----------------------------------------------------------------------------
(***************************************************************************)
(* StreamReader. Chunks are numbered as they are fed, so the order is      *)
(* that dataCh goes on where the buffer stands, and that what was handed   *)
(* out is everything up to there. That the channel is closed once is a     *)
(* matter of the closing calls alone.                                      *)
(***************************************************************************)

ReaderTyped ==
  /\ dataCh \in Seq(Nat) /\ buffer \in Nat /\ bufferPos \in 1..Pieces
  /\ feeder \in [pc : {"init", "feed", "ended"}, sent : 0..Chunks]
  /\ got \in Seq(Nat \X Nat)
  /\ closer \in [Closers -> {"idle", "check", "mark", "done"}]
  /\ closings \in Nat
  /\ streams \in BOOLEAN

\* The channel holds the chunks from the buffer's to the last one sent, and
\* after them the end of the stream once everything is sent.
ChannelGoesOn ==
  \/ /\ \A i \in DOMAIN dataCh : dataCh[i] = buffer + i
     /\ buffer + Len(dataCh) = feeder.sent
  \/ /\ dataCh # <<>> /\ feeder.pc = "ended" /\ feeder.sent = Chunks
     /\ \A i \in 1..Len(dataCh) - 1 : dataCh[i] = buffer + i
     /\ dataCh[Len(dataCh)] = EndOfStream
     /\ buffer + Len(dataCh) - 1 = Chunks

\* What was handed out are the chunks before the buffer's and the pieces of it.
HandedOut == Len(got) = (buffer - 1) * Pieces + bufferPos

\* Read waits with an empty buffer, and an end that Close announces is that of a
\* closed reader.
WaitsEmpty == read = "wait" => bufferPos = Pieces
ClosedByMark == closeCh = "closed" => closed

\* The pieces as they were returned, and the end of the stream.
InOrder ==
  /\ \A n \in DOMAIN got : got[n] = <<1 + (n - 1) \div Pieces, 1 + ((n - 1) % Pieces)>>
  /\ "eof" \in ended => closed \/ Len(got) = Chunks * Pieces

ReaderInv == ReaderTyped /\ ChannelGoesOn /\ HandedOut /\ WaitsEmpty /\ ClosedByMark /\ InOrder

\* One closing call at a time gets past the manager, and it closes the channel once.
OneCloser ==
  /\ streams => closings = 0 /\ \A c \in Closers : closer[c] = "idle"
  /\ \A c \in Closers : closer[c] \in {"check", "mark"} =>
       closings = 0 /\ \A d \in Closers : closer[d] \in {"check", "mark"} => d = c

CloserInv ==
  /\ closer \in [Closers -> {"idle", "check", "mark", "done"}] /\ closings \in Nat
  /\ OneCloser /\ ChannelClosedOnce

\* A number of whole rows and a part of one, taken apart.
LEMMA DivMod ==
  ASSUME NEW p \in Nat \ {0}, NEW q \in Nat, NEW r \in 0..p - 1
  PROVE  (q * p + r) \div p = q /\ (q * p + r) % p = r
<1>1. q * p + r \in Int /\ q * p \in Int
  OBVIOUS
<1>2. QED
  BY <1>1, SMTT(60)

\* No step lets a second closing call past the manager.
LEMMA CloserInvStep == CloserInv /\ [ReaderNext]_readerVars => CloserInv'
<1> SUFFICES ASSUME CloserInv, [ReaderNext]_readerVars PROVE CloserInv'
  OBVIOUS
<1> USE DEF CloserInv, OneCloser, ChannelClosedOnce
<1>1. ASSUME NEW c \in Closers, CloseStream(c) PROVE CloserInv'
  BY <1>1 DEF CloseStream
<1>2. ASSUME NEW c \in Closers, CloseCheck(c) PROVE CloserInv'
  BY <1>2 DEF CloseCheck
<1>3. ASSUME NEW c \in Closers, CloseMark(c) PROVE CloserInv'
  BY <1>3 DEF CloseMark
<1>4. CASE UNCHANGED managerState
  BY <1>4 DEF managerState
<1>5. QED
  BY <1>1, <1>2, <1>3, <1>4
     DEF ReaderNext, StreamInit, Feed, ReadBegin, ReadWait, ReadCancelled, ReaderSecond, readerVars, managerState

\* A stream's channel is closed at most once, whoever closes it: CloseStream and
\* CloseAllStreams take the stream out of the manager's table under its lock before
\* they close it (streaming.go:208-214, 606-646).
THEOREM ChannelNeverClosedTwice == ReaderSpec => []ChannelClosedOnce
<1>1. ReaderInit => CloserInv
  BY DEF ReaderInit, CloserInv, OneCloser, ChannelClosedOnce
<1>2. CloserInv => ChannelClosedOnce
  BY DEF CloserInv
<1>3. QED
  BY <1>1, <1>2, CloserInvStep, PTL DEF ReaderSpec

Pieced == \A n \in DOMAIN got : got[n] = <<1 + (n - 1) \div Pieces, 1 + ((n - 1) % Pieces)>>

\* The next piece is the one that the number of pieces says.
LEMMA HandOutKeeps ==
  ASSUME ReaderTyped, Pieced, NEW chunk \in Nat \ {0}, NEW pos \in 1..Pieces, HandOut(chunk, pos),
         Len(got) = (chunk - 1) * Pieces + (pos - 1)
  PROVE  /\ Pieced' /\ HandedOut'
         /\ buffer' \in Nat /\ bufferPos' \in 1..Pieces /\ got' \in Seq(Nat \X Nat)
<1>1. /\ got' = Append(got, <<chunk, pos>>) /\ buffer' = chunk /\ bufferPos' = pos
      /\ got \in Seq(Nat \X Nat) /\ Pieces \in Nat \ {0} /\ Len(got) \in Nat
  BY StreamReaderAssumption DEF HandOut, ReaderTyped
<1>2. Len(got) \div Pieces = chunk - 1 /\ Len(got) % Pieces = pos - 1
  <2>1. chunk - 1 \in Nat /\ pos - 1 \in 0..Pieces - 1
    BY <1>1
  <2>2. /\ ((chunk - 1) * Pieces + (pos - 1)) \div Pieces = chunk - 1
        /\ ((chunk - 1) * Pieces + (pos - 1)) % Pieces = pos - 1
    BY <1>1, <2>1, DivMod
  <2>3. QED
    BY <2>2
<1>3. /\ DOMAIN got' = 1..Len(got) + 1
      /\ \A n \in 1..Len(got) : got'[n] = got[n]
      /\ got'[Len(got) + 1] = <<chunk, pos>>
      /\ Len(got') = Len(got) + 1
      /\ got' \in Seq(Nat \X Nat)
  BY <1>1
<1>4. Pieced'
  <2> SUFFICES ASSUME NEW n \in 1..Len(got) + 1
               PROVE  got'[n] = <<1 + (n - 1) \div Pieces, 1 + ((n - 1) % Pieces)>>
    BY <1>3 DEF Pieced
  <2>1. CASE n \in 1..Len(got)
    <3>1. n \in DOMAIN got /\ got'[n] = got[n]
      BY <1>1, <1>3, <2>1
    <3>2. QED
      BY <3>1 DEF Pieced
  <2>2. CASE n = Len(got) + 1
    <3>1. n - 1 = Len(got)
      BY <1>1, <2>2
    <3>2. (n - 1) \div Pieces = chunk - 1 /\ (n - 1) % Pieces = pos - 1
      BY <1>2, <3>1
    <3>3. 1 + (n - 1) \div Pieces = chunk /\ 1 + ((n - 1) % Pieces) = pos
      BY <3>2
    <3>4. QED
      BY <1>3, <2>2, <3>3
  <2>3. QED
    BY <1>1, <2>1, <2>2, SMTT(40)
<1>5. HandedOut'
  <2>1. (chunk - 1) * Pieces \in Int
    BY <1>1
  <2>2. Len(got') = (chunk - 1) * Pieces + pos
    BY <1>1, <1>3, <2>1
  <2>3. QED
    BY <1>1, <2>2 DEF HandedOut
<1>6. QED
  BY <1>1, <1>3, <1>4, <1>5

\* Nothing is fed, handed out or closed.
LEMMA QuietKeeps ==
  ASSUME ReaderInv, UNCHANGED <<dataCh, closeCh, closed, buffer, bufferPos, got, ended>>,
         feeder' = feeder \/ (feeder.pc = "init" /\ feeder' \in [pc : {"feed", "ended"}, sent : {feeder.sent}]),
         streams' \in BOOLEAN, closings' \in Nat, closer' \in [Closers -> {"idle", "check", "mark", "done"}],
         read' = "wait" => read = "wait"
  PROVE  ReaderInv'
<1> USE DEF ReaderInv
<1>1. ReaderTyped'
  BY DEF ReaderTyped
<1>2. ChannelGoesOn'
  BY DEF ChannelGoesOn, ReaderTyped
<1>3. HandedOut' /\ WaitsEmpty' /\ ClosedByMark' /\ InOrder'
  BY DEF HandedOut, WaitsEmpty, ClosedByMark, InOrder
<1>4. QED
  BY <1>1, <1>2, <1>3

\* A chunk, the end of the stream, or nothing more is fed.
LEMMA FeedKeeps ==
  ASSUME ReaderInv, Feed
  PROVE  ReaderInv'
<1> USE DEF ReaderInv
<1>1. /\ UNCHANGED <<closeCh, closed, buffer, bufferPos, got, ended, read, streams, closings, closer>>
      /\ Chunks \in Nat /\ dataCh \in Seq(Nat) /\ feeder.sent \in 0..Chunks /\ feeder.pc = "feed"
      /\ feeder \in [pc : {"init", "feed", "ended"}, sent : 0..Chunks] /\ buffer \in Nat
  BY StreamReaderAssumption DEF Feed, ReaderTyped, readerState, managerState
<1>2. HandedOut' /\ WaitsEmpty' /\ ClosedByMark' /\ InOrder'
  BY <1>1 DEF HandedOut, WaitsEmpty, ClosedByMark, InOrder
<1>3. /\ \A i \in DOMAIN dataCh : dataCh[i] = buffer + i
      /\ buffer + Len(dataCh) = feeder.sent
  BY <1>1 DEF ChannelGoesOn
<1>4. CASE /\ feeder.sent < Chunks
           /\ dataCh' = Append(dataCh, feeder.sent + 1)
           /\ feeder' = [feeder EXCEPT !.sent = @ + 1]
  <2>1. feeder' \in [pc : {"init", "feed", "ended"}, sent : 0..Chunks] /\ feeder'.sent = feeder.sent + 1
    BY <1>1, <1>4
  <2>2. ReaderTyped'
    BY <1>1, <1>4, <2>1, SMTT(40) DEF ReaderTyped
  <2>3. ChannelGoesOn'
    BY <1>1, <1>3, <1>4, <2>1 DEF ChannelGoesOn
  <2>4. QED
    BY <1>2, <2>2, <2>3
<1>5. CASE UNCHANGED dataCh /\ feeder' = [feeder EXCEPT !.pc = "ended"]
  BY <1>1, <1>2, <1>3, <1>5 DEF ReaderTyped, ChannelGoesOn
<1>6. CASE /\ feeder.sent = Chunks
           /\ dataCh' = Append(dataCh, EndOfStream)
           /\ feeder' = [feeder EXCEPT !.pc = "ended"]
  <2>1. /\ feeder' \in [pc : {"init", "feed", "ended"}, sent : 0..Chunks]
        /\ feeder'.sent = Chunks /\ feeder'.pc = "ended"
    BY <1>1, <1>6
  <2>2. /\ Len(dataCh') = Len(dataCh) + 1 /\ dataCh'[Len(dataCh')] = EndOfStream
        /\ \A i \in 1..Len(dataCh) : dataCh'[i] = dataCh[i]
        /\ dataCh' \in Seq(Nat) /\ dataCh' # <<>>
    BY <1>1, <1>6 DEF EndOfStream
  <2>3. ReaderTyped'
    BY <1>1, <2>1, <2>2 DEF ReaderTyped
  <2>4. ChannelGoesOn'
    BY <1>1, <1>3, <1>6, <2>1, <2>2, SMTT(40) DEF ChannelGoesOn
  <2>5. QED
    BY <1>2, <2>3, <2>4
<1>7. QED
  BY <1>4, <1>5, <1>6 DEF Feed

\* Read hands out the next piece of the buffer, or waits for a chunk.
LEMMA ReadBeginKeeps ==
  ASSUME ReaderInv, ReadBegin
  PROVE  ReaderInv'
<1> USE DEF ReaderInv
<1>1. UNCHANGED <<dataCh, closeCh, closed, feeder, streams, closings, closer>>
  BY DEF ReadBegin, channels, managerState
<1>2. CASE UNCHANGED <<buffer, bufferPos, got>>
  <2>1. ReaderTyped'
    BY <1>1, <1>2 DEF ReaderTyped
  <2>2. ChannelGoesOn' /\ HandedOut' /\ ClosedByMark'
    BY <1>1, <1>2 DEF ChannelGoesOn, HandedOut, ClosedByMark
  <2>3. WaitsEmpty'
    BY <1>2 DEF ReadBegin, HandOut, WaitsEmpty
  <2>4. "eof" \in ended' => closed \/ "eof" \in ended
    BY DEF ReadBegin
  <2>5. InOrder'
    BY <1>1, <1>2, <2>4 DEF InOrder
  <2>6. QED
    BY <2>1, <2>2, <2>3, <2>5
<1>3. CASE bufferPos < Pieces /\ HandOut(buffer, bufferPos + 1) /\ UNCHANGED ended
  <2>1. /\ buffer \in Nat /\ bufferPos \in 1..Pieces /\ Pieces \in Nat \ {0} /\ Len(got) \in Nat
        /\ Len(got) = (buffer - 1) * Pieces + bufferPos
    BY StreamReaderAssumption DEF ReaderTyped, HandedOut
  <2>2. buffer # 0
    <3>1. CASE buffer = 0
      <4>1. Len(got) = bufferPos - Pieces
        BY <2>1, <3>1
      <4>2. QED
        BY <1>3, <2>1, <4>1
    <3>2. QED
      BY <3>1
  <2>3. Len(got) = (buffer - 1) * Pieces + ((bufferPos + 1) - 1)
    BY <2>1
  <2>4. buffer \in Nat \ {0} /\ bufferPos + 1 \in 1..Pieces /\ Pieced
    BY <1>3, <2>1, <2>2 DEF InOrder, Pieced
  <2>5. /\ Pieced' /\ HandedOut'
        /\ buffer' \in Nat /\ bufferPos' \in 1..Pieces /\ got' \in Seq(Nat \X Nat)
    BY <1>3, <2>3, <2>4, HandOutKeeps
  <2>6. ReaderTyped'
    BY <1>1, <2>5 DEF ReaderTyped
  <2>7. buffer' = buffer /\ read' # "wait"
    BY <1>3 DEF HandOut
  <2>8. ChannelGoesOn' /\ WaitsEmpty' /\ ClosedByMark'
    BY <1>1, <2>7 DEF ChannelGoesOn, WaitsEmpty, ClosedByMark
  <2>9. "eof" \in ended' => closed'
    <3>1. ~(Len(got) = Chunks * Pieces)
      <4>1. buffer <= Chunks
        BY <2>1, StreamReaderAssumption DEF ChannelGoesOn, ReaderTyped, EndOfStream
      <4>2. (buffer - 1) * Pieces + bufferPos < buffer * Pieces
        BY <1>3, <2>1
      <4>3. buffer * Pieces <= Chunks * Pieces
        BY <4>1, <2>1, StreamReaderAssumption, SMTT(30)
      <4>4. buffer * Pieces \in Int /\ Chunks * Pieces \in Int /\ (buffer - 1) * Pieces \in Int
        BY <2>1, StreamReaderAssumption
      <4>5. QED
        BY <2>1, <4>2, <4>3, <4>4
    <3>2. QED
      BY <1>1, <1>3, <3>1 DEF InOrder
  <2>10. QED
    BY <2>5, <2>6, <2>8, <2>9 DEF InOrder, Pieced
<1>4. QED
  BY <1>2, <1>3 DEF ReadBegin

\* The select of Read.
LEMMA ReadWaitKeeps ==
  ASSUME ReaderInv, ReadWait
  PROVE  ReaderInv'
<1> USE DEF ReaderInv
<1>1. /\ UNCHANGED <<closeCh, closed, feeder, streams, closings, closer>> /\ read = "wait"
      /\ buffer \in Nat /\ bufferPos = Pieces /\ Pieces \in Nat \ {0} /\ Len(got) \in Nat /\ Chunks \in Nat
      /\ Len(got) = buffer * Pieces /\ buffer * Pieces \in Int
      /\ dataCh \in Seq(Nat) /\ feeder.sent \in 0..Chunks
  <2>1. /\ UNCHANGED <<closeCh, closed, feeder, streams, closings, closer>> /\ read = "wait"
        /\ buffer \in Nat /\ Pieces \in Nat \ {0} /\ Len(got) \in Nat /\ Chunks \in Nat
        /\ dataCh \in Seq(Nat) /\ feeder.sent \in 0..Chunks
    BY StreamReaderAssumption DEF ReadWait, ReaderTyped, managerState
  <2>2. bufferPos = Pieces
    BY <2>1 DEF WaitsEmpty
  <2>3. (buffer - 1) * Pieces + Pieces = buffer * Pieces /\ buffer * Pieces \in Int
    BY <2>1
  <2>4. QED
    BY <2>1, <2>2, <2>3 DEF HandedOut
<1>2. CASE dataCh # <<>> /\ Head(dataCh) # EndOfStream /\ HandOut(Head(dataCh), 1)
           /\ dataCh' = Tail(dataCh) /\ UNCHANGED ended
  <2>1. Head(dataCh) = buffer + 1 /\ buffer + 1 <= Chunks
    BY <1>1, <1>2 DEF ChannelGoesOn
  <2>2. Head(dataCh) \in Nat \ {0} /\ 1 \in 1..Pieces /\ Pieced
    BY <1>1, <2>1 DEF InOrder, Pieced
  <2>3. Len(got) = (Head(dataCh) - 1) * Pieces + (1 - 1)
    BY <1>1, <2>1, SMTT(40)
  <2>4. /\ Pieced' /\ HandedOut'
        /\ buffer' \in Nat /\ bufferPos' \in 1..Pieces /\ got' \in Seq(Nat \X Nat)
    BY <1>2, <2>2, <2>3, HandOutKeeps
  <2>5. dataCh' \in Seq(Nat) /\ buffer' = buffer + 1 /\ read' # "wait"
    BY <1>1, <1>2, <2>1 DEF HandOut
  <2>6. ReaderTyped'
    BY <1>1, <2>4, <2>5 DEF ReaderTyped
  <2>7. /\ Len(dataCh') = Len(dataCh) - 1
        /\ \A i \in 1..Len(dataCh) - 1 : dataCh'[i] = dataCh[i + 1]
        /\ DOMAIN dataCh' = 1..Len(dataCh) - 1
    BY <1>1, <1>2
  <2>8. ChannelGoesOn'
    <3>1. CASE /\ \A i \in DOMAIN dataCh : dataCh[i] = buffer + i
               /\ buffer + Len(dataCh) = feeder.sent
      BY <1>1, <1>2, <2>5, <2>7, <3>1 DEF ChannelGoesOn
    <3>2. CASE /\ feeder.pc = "ended" /\ feeder.sent = Chunks
               /\ \A i \in 1..Len(dataCh) - 1 : dataCh[i] = buffer + i
               /\ dataCh[Len(dataCh)] = EndOfStream
               /\ buffer + Len(dataCh) - 1 = Chunks
      <4>1. Len(dataCh) > 1
        BY <1>1, <1>2, <3>2
      <4>2. dataCh' # <<>>
        BY <1>1, <2>5, <2>7, <4>1
      <4>3. \A i \in 1..Len(dataCh') - 1 : dataCh'[i] = buffer' + i
        <5> TAKE i \in 1..Len(dataCh') - 1
        <5>1. /\ Len(dataCh) \in Nat /\ Len(dataCh') = Len(dataCh) - 1
              /\ buffer \in Nat /\ buffer' = buffer + 1
          BY <1>1, <2>5, <2>7
        <5>2. i \in Nat /\ i \in 1..Len(dataCh) - 1 /\ i + 1 \in 1..Len(dataCh) - 1
          BY <5>1
        <5>3. dataCh'[i] = dataCh[i + 1] /\ dataCh[i + 1] = buffer + (i + 1)
          BY <2>7, <3>2, <5>2
        <5>4. QED
          BY <5>1, <5>2, <5>3
      <4>0. Len(dataCh) - 1 \in 1..Len(dataCh) - 1 /\ (Len(dataCh) - 1) + 1 = Len(dataCh)
        BY <1>1, <4>1
      <4>4. dataCh'[Len(dataCh')] = EndOfStream /\ buffer' + Len(dataCh') - 1 = Chunks
        BY <1>1, <2>5, <2>7, <3>2, <4>0, SMTT(40)
      <4>5. QED
        BY <1>1, <3>2, <4>2, <4>3, <4>4 DEF ChannelGoesOn
    <3>3. QED
      BY <3>1, <3>2 DEF ChannelGoesOn
  <2>9. "eof" \in ended' => closed'
    <3>1. buffer * Pieces < Chunks * Pieces
      <4>1. buffer < Chunks
        BY <1>1, <2>1
      <4>2. QED
        BY <1>1, <4>1, SMTT(30)
    <3>2. QED
      BY <1>1, <1>2, <3>1 DEF InOrder
  <2>10. QED
    BY <1>1, <2>4, <2>5, <2>6, <2>8, <2>9 DEF InOrder, Pieced, WaitsEmpty, ClosedByMark
<1>3. CASE dataCh # <<>> /\ Head(dataCh) = EndOfStream /\ dataCh' = Tail(dataCh)
           /\ read' = "idle" /\ ended' = ended \cup {"eof"} /\ UNCHANGED <<buffer, bufferPos, got>>
  <2>0. /\ dataCh[1] = 0 /\ Len(dataCh) \in Nat \ {0} /\ DOMAIN dataCh = 1..Len(dataCh)
        /\ Len(dataCh') = Len(dataCh) - 1 /\ dataCh' \in Seq(Nat)
    BY <1>1, <1>3 DEF EndOfStream
  <2>1. Len(dataCh) = 1 /\ feeder.sent = Chunks /\ buffer = Chunks
    <3>0. 1 \in DOMAIN dataCh /\ buffer + 1 # 0
      BY <1>1, <2>0
    <3>1. ~(\A i \in DOMAIN dataCh : dataCh[i] = buffer + i)
      BY <2>0, <3>0
    <3>2. ~(Len(dataCh) > 1 /\ \A i \in 1..Len(dataCh) - 1 : dataCh[i] = buffer + i)
      BY <1>1, <2>0
    <3>3. QED
      BY <1>1, <2>0, <3>1, <3>2 DEF ChannelGoesOn
  <2>2. dataCh' = <<>>
    BY <2>0, <2>1
  <2>3. ReaderTyped'
    BY <1>1, <1>3, <2>2 DEF ReaderTyped
  <2>4. ChannelGoesOn'
    <3>1. DOMAIN dataCh' = {} /\ Len(dataCh') = 0
      BY <2>2
    <3>2. QED
      BY <1>1, <1>3, <2>1, <3>1 DEF ChannelGoesOn
  <2>5. QED
    BY <1>1, <1>3, <2>1, <2>3, <2>4 DEF HandedOut, WaitsEmpty, ClosedByMark, InOrder
<1>4. CASE UNCHANGED <<dataCh, buffer, bufferPos, got>> /\ read' = "idle"
           /\ \/ ended' = ended \cup {"error"}
              \/ closeCh = "closed" /\ ended' = ended \cup {"eof"}
  <2>1. "eof" \in ended' => closed \/ "eof" \in ended
    BY <1>4 DEF ClosedByMark
  <2>2. ReaderTyped' /\ ChannelGoesOn'
    BY <1>1, <1>4 DEF ReaderTyped, ChannelGoesOn
  <2>3. QED
    BY <1>1, <1>4, <2>1, <2>2 DEF HandedOut, WaitsEmpty, ClosedByMark, InOrder
<1> HIDE DEF ReaderInv
<1>5. QED
  BY <1>2, <1>3, <1>4 DEF ReadWait

\* Every step keeps the invariant.
LEMMA ReaderInvStep == ReaderInv /\ [ReaderNext]_readerVars => ReaderInv'
<1> SUFFICES ASSUME ReaderInv, [ReaderNext]_readerVars PROVE ReaderInv'
  OBVIOUS
<1>1. /\ streams \in BOOLEAN /\ closings \in Nat /\ closer \in [Closers -> {"idle", "check", "mark", "done"}]
      /\ feeder \in [pc : {"init", "feed", "ended"}, sent : 0..Chunks]
  BY DEF ReaderInv, ReaderTyped
<1>2. CASE StreamInit
  <2>1. feeder.pc = "init" /\ feeder' \in [pc : {"feed", "ended"}, sent : {feeder.sent}]
    BY <1>1, <1>2 DEF StreamInit
  <2>2. QED
    BY <1>1, <1>2, <2>1, QuietKeeps DEF StreamInit, readerState, managerState
<1>3. CASE ReadCancelled
  <2>1. "eof" \in ended' => "eof" \in ended
    BY <1>3 DEF ReadCancelled
  <2>2. UNCHANGED <<dataCh, closeCh, closed, feeder, streams, closings, closer, buffer, bufferPos, got>> /\ read' = "idle"
    BY <1>3 DEF ReadCancelled, channels, managerState
  <2>3. ReaderTyped' /\ ChannelGoesOn'
    BY <2>2 DEF ReaderInv, ReaderTyped, ChannelGoesOn
  <2>4. QED
    BY <2>1, <2>2, <2>3 DEF ReaderInv, HandedOut, WaitsEmpty, ClosedByMark, InOrder
<1>4. ASSUME NEW c \in Closers, CloseStream(c) \/ CloseCheck(c) PROVE ReaderInv'
  BY <1>1, <1>4, QuietKeeps DEF CloseStream, CloseCheck, channels, readerState
<1>5. ASSUME NEW c \in Closers, CloseMark(c) PROVE ReaderInv'
  <2>1. /\ UNCHANGED <<dataCh, buffer, bufferPos, got, ended, read, feeder, streams>> /\ closed' /\ closings' \in Nat
        /\ closer' \in [Closers -> {"idle", "check", "mark", "done"}]
    BY <1>1, <1>5 DEF CloseMark, readerState
  <2>2. ReaderTyped' /\ ChannelGoesOn'
    BY <2>1 DEF ReaderInv, ReaderTyped, ChannelGoesOn
  <2>3. QED
    BY <2>1, <2>2 DEF ReaderInv, HandedOut, WaitsEmpty, ClosedByMark, InOrder
<1>6. CASE ReaderSecond \/ UNCHANGED readerVars
  BY <1>1, <1>6, QuietKeeps DEF ReaderSecond, readerVars, channels, readerState, managerState
<1>7. QED
  BY <1>2, <1>3, <1>4, <1>5, <1>6, FeedKeeps, ReadBeginKeeps, ReadWaitKeeps DEF ReaderNext

\* Nothing has been fed, and the buffer is read up.
LEMMA ReaderInvInit == ReaderInit => ReaderInv
<1> SUFFICES ASSUME ReaderInit PROVE ReaderInv
  OBVIOUS
<1>1. Chunks \in Nat /\ Pieces \in Nat \ {0} /\ (0 - 1) * Pieces + Pieces = 0
  BY StreamReaderAssumption
<1>2. ReaderTyped /\ ChannelGoesOn
  BY <1>1 DEF ReaderInit, ReaderTyped, ChannelGoesOn
<1>3. QED
  BY <1>1, <1>2 DEF ReaderInit, ReaderInv, HandedOut, WaitsEmpty, ClosedByMark, InOrder

\* A quotient is large when the dividend is.
LEMMA DivBound ==
  ASSUME NEW p \in Nat \ {0}, NEW m \in Nat, NEW k \in Nat
  PROVE  m \div p >= k <=> m >= k * p
<1> DEFINE q == m \div p  r == m % p
<1>1. q \in Nat /\ r \in 0..p - 1 /\ m = q * p + r /\ q * p \in Nat /\ k * p \in Nat
  BY SMTT(60)
<1> HIDE DEF q, r
<1>2. CASE q >= k
  <2>1. q * p >= k * p
    BY <1>1, <1>2, SMTT(30)
  <2>2. QED
    BY <1>1, <1>2, <2>1 DEF q
<1>3. CASE q + 1 <= k
  <2>1. (q + 1) * p <= k * p
    BY <1>1, <1>3, SMTT(30)
  <2>2. (q + 1) * p = q * p + p
    BY <1>1
  <2>3. QED
    BY <1>1, <1>3, <2>1, <2>2 DEF q
<1>4. QED
  BY <1>1, <1>2, <1>3

\* The pieces that show what Read returned are those of the chunk in the buffer.
LEMMA PieceShows ==
  ASSUME ReaderInv, NEW n \in DOMAIN got
  PROVE  Shows(n) = got[n] <=> n > Len(got) - bufferPos
<1>1. /\ buffer \in Nat /\ bufferPos \in 1..Pieces /\ Pieces \in Nat \ {0} /\ Len(got) \in Nat
      /\ n \in 1..Len(got) /\ Len(got) = (buffer - 1) * Pieces + bufferPos
      /\ got[n] = <<1 + (n - 1) \div Pieces, 1 + ((n - 1) % Pieces)>>
  BY StreamReaderAssumption DEF ReaderInv, ReaderTyped, HandedOut, InOrder
<1>2. buffer # 0
  <2>1. CASE buffer = 0
    <3>1. Len(got) = bufferPos - Pieces
      BY <1>1, <2>1
    <3>2. QED
      BY <1>1, <3>1
  <2>2. QED
    BY <2>1
<1>3. n - 1 \in Nat /\ buffer - 1 \in Nat
  BY <1>1, <1>2
<1>4. /\ (n - 1) \div Pieces >= buffer - 1 <=> n - 1 >= (buffer - 1) * Pieces
      /\ (n - 1) \div Pieces >= buffer <=> n - 1 >= buffer * Pieces
  BY <1>1, <1>3, DivBound
<1>5. /\ (n - 1) \div Pieces \in Int /\ (buffer - 1) * Pieces \in Int
      /\ buffer * Pieces = (buffer - 1) * Pieces + Pieces
  BY <1>1, <1>3
<1>6. PICK q \in Int, m \in Int : q = (n - 1) \div Pieces /\ m = (buffer - 1) * Pieces
  BY <1>5
<1>7. /\ q >= buffer - 1 <=> n - 1 >= m
      /\ q >= buffer <=> n - 1 >= m + Pieces
      /\ Len(got) = m + bufferPos
  BY ONLY <1>1, <1>4, <1>5, <1>6, SMTT(30)
<1>8. /\ buffer \in Int /\ bufferPos \in Int /\ Pieces \in Int /\ Len(got) \in Int /\ n \in Int
      /\ q \in Int /\ m \in Int /\ bufferPos <= Pieces /\ n <= Len(got)
  BY <1>1, <1>6
<1>9. q = buffer - 1 <=> n > Len(got) - bufferPos
  BY ONLY <1>7, <1>8, SMTT(30)
<1>10. Shows(n) = got[n] <=> buffer = 1 + q
  BY <1>1, <1>6 DEF Shows
<1>11. QED
  <2>1. buffer = 1 + q <=> q = buffer - 1
    BY ONLY <1>8
  <2>2. QED
    BY ONLY <1>9, <1>10, <2>1

\* Read returns the pieces of the chunks in order, none twice and none left out; the
\* pieces of the chunk in the buffer, and no others, still show what it returned; and
\* an EOF is that of a closed reader or of a stream read to its end
\* (streaming.go:145-205, 273-297).
THEOREM StreamReadInOrder == ReaderSpec => []ReadsInOrder
<1>1. ReaderInv => ReadsInOrder
  BY PieceShows DEF ReaderInv, InOrder, ReadsInOrder
<1>2. QED
  BY <1>1, ReaderInvInit, ReaderInvStep, PTL DEF ReaderSpec

-----------------------------------------------------------------------------
(***************************************************************************)
(* StreamWriter. All that is said about the order is said as long as no    *)
(* goroutine has come to the buffer between another's look and clear.      *)
(***************************************************************************)

Flushes == [pc : {"idle", "flush", "send", "clear", "finalize", "dead"}, saw : 0..MaxWrites,
            then : {"none", "write", "flush", "close", "tick"}]

WriterTyped ==
  /\ written \in 0..MaxWrites /\ length \in 0..written
  /\ array \in [1..MaxWrites -> Nat]
  /\ flusher \in [Goroutines -> Flushes]
  /\ sent \in Seq(Nat)

\* Only the user's goroutine closes, and it does so once.
CloseIsUsers ==
  \A g \in Goroutines :
    flusher[g].then = "close" \/ flusher[g].pc = "finalize" => g = "user" /\ wclosed

InBuffer(g) == flusher[g].pc \in {"send", "clear"}
Clearing == \E g \in Goroutines : flusher[g].pc = "clear"

\* One goroutine at a time is between its look and its clear, and it saw the buffer.
OneInBuffer ==
  /\ \A g, h \in Goroutines : InBuffer(g) /\ InBuffer(h) => g = h
  /\ \A g \in Goroutines : InBuffer(g) => flusher[g].saw = length

\* Data are their numbers: those sent begin the list, those buffered go on from there.
Ordered ==
  /\ \A i \in 1..Len(sent) : sent[i] = i
  /\ ~Clearing => /\ Len(sent) + length = written
                  /\ \A i \in 1..length : array[i] = Len(sent) + i
  /\ Clearing => Len(sent) = written

\* Once Close has flushed, everything was sent and nothing comes after.
Finished ==
  flusher["user"].pc = "finalize" \/ finalized =>
    wclosed /\ (~overlapped => length = 0 /\ \A g \in Goroutines : ~InBuffer(g))

WriterInv ==
  /\ WriterTyped /\ CloseIsUsers /\ Finished
  /\ ~overlapped => OneInBuffer /\ Ordered

\* What the invariant says of the property.
LEMMA OrderedIsSentThenBuffered == WriterInv => SentThenBuffered
<1> SUFFICES ASSUME WriterInv, ~overlapped
             PROVE  /\ (\A g \in Goroutines : flusher[g].pc # "clear") => sent \o Buffered = [n \in 1..written |-> n]
                    /\ finalized => Len(sent) = written
  BY DEF SentThenBuffered
<1>1. /\ written \in Nat /\ length \in 0..written /\ written <= MaxWrites /\ MaxWrites \in Nat
      /\ array \in [1..MaxWrites -> Nat] /\ sent \in Seq(Nat) /\ Len(sent) \in Nat
  BY StreamWriterAssumption DEF WriterInv, WriterTyped
<1>2. ASSUME ~Clearing PROVE sent \o Buffered = [n \in 1..written |-> n]
  <2>1. /\ \A i \in 1..Len(sent) : sent[i] = i
        /\ Len(sent) + length = written
        /\ \A i \in 1..length : array[i] = Len(sent) + i
    BY <1>2 DEF WriterInv, Ordered
  <2>2. /\ Buffered \in Seq(Nat) /\ Len(Buffered) = length
        /\ \A i \in 1..length : Buffered[i] = array[i]
    <3>1. Buffered = [i \in 1..length |-> array[i]]
      BY <1>1 DEF Buffered
    <3>2. \A i \in 1..length : array[i] \in Nat
      BY <1>1
    <3>3. QED
      BY <1>1, <3>1, <3>2
  <2>3. /\ sent \o Buffered \in Seq(Nat) /\ Len(sent \o Buffered) = written
        /\ \A i \in 1..written : (sent \o Buffered)[i] = IF i <= Len(sent) THEN sent[i] ELSE Buffered[i - Len(sent)]
    BY <1>1, <2>1, <2>2, SMTT(40)
  <2>4. \A i \in 1..written : (sent \o Buffered)[i] = i
    <3> SUFFICES ASSUME NEW i \in 1..written PROVE (sent \o Buffered)[i] = i
      OBVIOUS
    <3>1. CASE i <= Len(sent)
      BY <1>1, <2>1, <2>3, <3>1
    <3>2. CASE i > Len(sent)
      <4>1. i - Len(sent) \in 1..length /\ i \in Int /\ ~(i <= Len(sent))
        BY <1>1, <2>1, <3>2
      <4>2. (sent \o Buffered)[i] = Buffered[i - Len(sent)]
        BY <2>3, <4>1
      <4>3. Buffered[i - Len(sent)] = Len(sent) + (i - Len(sent))
        BY <2>1, <2>2, <4>1
      <4>4. QED
        BY <1>1, <4>1, <4>2, <4>3
    <3>3. i <= Len(sent) \/ i > Len(sent)
      BY <1>1
    <3>4. QED
      BY <3>1, <3>2, <3>3
  <2>5. /\ [n \in 1..written |-> n] \in Seq(Nat) /\ Len([n \in 1..written |-> n]) = written
        /\ \A i \in 1..written : [n \in 1..written |-> n][i] = i
    BY <1>1
  <2>6. QED
    BY <2>3, <2>4, <2>5, SeqEqual
<1>3. finalized => Len(sent) = written
  BY <1>1 DEF WriterInv, Finished, Ordered, Clearing, InBuffer
<1>4. QED
  BY <1>2, <1>3 DEF Clearing

\* Nothing is written, and nobody is in the buffer.
LEMMA WriterInvInit == WriterInit => WriterInv
<1> SUFFICES ASSUME WriterInit PROVE WriterInv
  OBVIOUS
<1>1. MaxWrites \in Nat /\ NoFlush \in Flushes /\ NoFlush.pc = "idle" /\ NoFlush.then = "none"
  BY StreamWriterAssumption DEF NoFlush, Flushes
<1>2. /\ flusher \in [Goroutines -> Flushes]
      /\ \A g \in Goroutines : flusher[g].pc = "idle" /\ flusher[g].then = "none"
  BY <1>1 DEF WriterInit
<1>3. /\ array \in [1..MaxWrites -> Nat] /\ length = 0 /\ written = 0 /\ sent = <<>> /\ ~finalized
  BY <1>1 DEF WriterInit
<1>4. "user" \in Goroutines
  BY DEF Goroutines
<1>5. WriterTyped /\ CloseIsUsers /\ Finished
  BY <1>1, <1>2, <1>3, <1>4 DEF WriterTyped, CloseIsUsers, Finished
<1>6. ~Clearing /\ \A g \in Goroutines : ~InBuffer(g)
  BY <1>2 DEF Clearing, InBuffer
<1>7. OneInBuffer /\ Ordered
  BY <1>3, <1>6 DEF OneInBuffer, Ordered
<1>8. QED
  BY <1>5, <1>7 DEF WriterInv

\* One goroutine's Flush moves and the others' stay.
LEMMA Moves ==
  ASSUME WriterTyped, NEW g \in Goroutines, NEW f \in Flushes, flusher' = [flusher EXCEPT ![g] = f]
  PROVE  /\ flusher' \in [Goroutines -> Flushes] /\ flusher'[g] = f
         /\ \A h \in Goroutines \ {g} : flusher'[h] = flusher[h]
BY DEF WriterTyped

\* A move that leaves buffer and list alone, and takes nobody into the buffer or
\* out of its clear, keeps what is said about them.
LEMMA AsideKeeps ==
  ASSUME WriterInv, UNCHANGED <<array, length, written, sent, finalized>>,
         overlapped => overlapped', wclosed => wclosed',
         NEW g \in Goroutines, NEW f \in Flushes, flusher' = [flusher EXCEPT ![g] = f],
         f.pc \notin {"send", "clear"}, flusher[g].pc # "clear",
         f.then = "close" \/ f.pc = "finalize" => g = "user" /\ wclosed',
         f.pc = "finalize" /\ ~overlapped' => length = 0 /\ \A h \in Goroutines \ {g} : ~InBuffer(h)
  PROVE  WriterInv'
<1>1. /\ flusher' \in [Goroutines -> Flushes] /\ flusher'[g] = f
      /\ \A h \in Goroutines \ {g} : flusher'[h] = flusher[h]
  BY Moves DEF WriterInv
<1>2. WriterTyped'
  BY <1>1 DEF WriterInv, WriterTyped
<1>3. CloseIsUsers'
  BY <1>1 DEF WriterInv, CloseIsUsers
<1>4. ~InBuffer(g)' /\ \A h \in Goroutines \ {g} : InBuffer(h)' <=> InBuffer(h)
  BY <1>1 DEF InBuffer
<1>5. Clearing' <=> Clearing
  BY <1>1 DEF Clearing
<1>6. Finished'
  <2>1. CASE flusher["user"].pc = "finalize" \/ finalized
    BY <2>1, <1>4 DEF WriterInv, Finished
  <2>2. CASE ~(flusher["user"].pc = "finalize" \/ finalized)
    <3>1. flusher'["user"].pc = "finalize" => g = "user" /\ f.pc = "finalize"
      BY <1>1, <2>2 DEF Goroutines
    <3>2. QED
      BY <2>2, <3>1, <1>4 DEF Finished
  <2>3. QED
    BY <2>1, <2>2
<1>7. ~overlapped' => OneInBuffer'
  BY <1>1, <1>4 DEF WriterInv, OneInBuffer
<1>8. ~overlapped' => Ordered'
  BY <1>5 DEF WriterInv, Ordered
<1>9. QED
  BY <1>2, <1>3, <1>6, <1>7, <1>8 DEF WriterInv

\* The states that goroutines are put in outside a flush.
LEMMA FlushesHas ==
  /\ StreamWriterAssumption => NoFlush \in Flushes
  /\ MaxWrites \in Nat =>
       \A p \in {"idle", "flush", "finalize", "dead"}, t \in {"none", "write", "flush", "close", "tick"} :
         [pc |-> p, saw |-> 0, then |-> t] \in Flushes
BY DEF NoFlush, Flushes, StreamWriterAssumption

\* Write: the datum follows the last one of the buffer.
LEMMA WriteKeeps == WriterInv /\ Write => WriterInv'
<1> SUFFICES ASSUME WriterInv, Write PROVE WriterInv'
  OBVIOUS
<1> DEFINE f == IF length' >= ChunkSize THEN [pc |-> "flush", saw |-> 0, then |-> "write"]
                ELSE [pc |-> IF wsecond THEN "idle" ELSE "dead", saw |-> 0, then |-> "none"]
<1>0. MaxWrites \in Nat
  BY StreamWriterAssumption
<1>1. f \in Flushes /\ f.pc \in {"flush", "idle", "dead"} /\ f.then \in {"write", "none"} /\ "user" \in Goroutines
  <2>1. /\ [pc |-> "flush", saw |-> 0, then |-> "write"] \in Flushes
        /\ [pc |-> "idle", saw |-> 0, then |-> "none"] \in Flushes
        /\ [pc |-> "dead", saw |-> 0, then |-> "none"] \in Flushes
    BY <1>0, FlushesHas
  <2>2. QED
    BY <2>1 DEF Goroutines
<1>2. flusher' = [flusher EXCEPT !["user"] = f]
  BY DEF Write
<1> HIDE DEF f
<1>3. /\ flusher' \in [Goroutines -> Flushes] /\ flusher'["user"] = f
      /\ \A h \in Goroutines \ {"user"} : flusher'[h] = flusher[h]
  BY <1>1, <1>2, Moves DEF WriterInv
<1>4. /\ written \in Nat /\ length \in Nat /\ length <= written /\ written + 1 <= MaxWrites
      /\ written' = written + 1 /\ length' = length + 1 /\ array' = [array EXCEPT ![length + 1] = written + 1]
      /\ array \in [1..MaxWrites -> Nat] /\ sent \in Seq(Nat) /\ Len(sent) \in Nat
      /\ sent' = sent /\ finalized' = finalized /\ wclosed' = wclosed
  BY <1>0 DEF WriterInv, WriterTyped, Write
<1>5. /\ length + 1 \in 1..MaxWrites /\ array' \in [1..MaxWrites -> Nat] /\ array'[length + 1] = written + 1
      /\ \A i \in 1..length : array'[i] = array[i]
  BY <1>0, <1>4
<1>6. WriterTyped'
  BY <1>0, <1>3, <1>4, <1>5 DEF WriterTyped
<1>7. CloseIsUsers'
  BY <1>1, <1>3, <1>4 DEF WriterInv, CloseIsUsers
<1>8. Finished'
  BY <1>1, <1>3, <1>4 DEF WriterInv, Finished, Write
<1>9. ASSUME ~overlapped' PROVE OneInBuffer' /\ Ordered'
  <2>1. ~overlapped /\ \A h \in Goroutines \ {"user"} : ~InBuffer(h)
    BY <1>9 DEF Write, Overlaps, InBuffer
  <2>2. \A h \in Goroutines : ~InBuffer(h) /\ ~InBuffer(h)'
    BY <2>1, <1>1, <1>3 DEF InBuffer, Write
  <2>3. ~Clearing /\ ~Clearing'
    BY <2>2 DEF Clearing, InBuffer
  <2>4. /\ Len(sent) + length = written /\ \A i \in 1..Len(sent) : sent[i] = i
        /\ \A i \in 1..length : array[i] = Len(sent) + i
    BY <2>1, <2>3 DEF WriterInv, Ordered
  <2>5. \A i \in 1..(length + 1) : i \in 1..length \/ i = length + 1
    BY <1>4
  <2>6. \A i \in 1..(length + 1) : array'[i] = Len(sent) + i
    <3>1. ASSUME NEW i \in 1..length PROVE array'[i] = Len(sent) + i
      BY <3>1, <1>5, <2>4
    <3>2. array'[length + 1] = Len(sent) + (length + 1)
      <4>1. array'[length + 1] = written + 1 /\ Len(sent) + length = written
        BY <1>5, <2>4
      <4>2. Len(sent) \in Int /\ length \in Int
        BY <1>4
      <4>3. QED
        BY ONLY <4>1, <4>2
    <3>3. QED
      BY ONLY <2>5, <3>1, <3>2
  <2>7. Ordered'
    <3>1. \A i \in 1..length' : array'[i] = Len(sent') + i
      BY <1>4, <2>6
    <3>2. Len(sent') + length' = written'
      BY <1>4, <2>4
    <3>3. QED
      BY <3>1, <3>2, <1>4, <2>3, <2>4 DEF Ordered
  <2>8. QED
    BY <2>2, <2>7 DEF OneInBuffer
<1>10. QED
  BY <1>6, <1>7, <1>8, <1>9 DEF WriterInv

\* Flush begins: it enters a buffer nobody else is in, or finds it empty.
LEMMA FlushBeginKeeps == ASSUME WriterInv, NEW g \in Goroutines, FlushBegin(g) PROVE WriterInv'
<1>0. MaxWrites \in Nat /\ flusher[g] \in Flushes /\ length \in 0..MaxWrites
  BY StreamWriterAssumption DEF WriterInv, WriterTyped
<1>1. UNCHANGED <<array, length, written, sent, finalized>> /\ (overlapped => overlapped') /\ wclosed' = wclosed
  BY DEF FlushBegin, Overlaps
<1>2. ~overlapped' => ~overlapped /\ \A h \in Goroutines : ~InBuffer(h)
  BY DEF FlushBegin, Overlaps, InBuffer
<1>3. CASE length = 0
  <2> DEFINE f == AfterFlush(g, TRUE)
  <2>1. /\ f \in Flushes /\ f.pc \in {"idle", "finalize"} /\ f.then = "none"
        /\ f.pc = "finalize" => flusher[g].then = "close"
    BY <1>0, FlushesHas, StreamWriterAssumption DEF AfterFlush, NoFlush
  <2>2. flusher' = [flusher EXCEPT ![g] = f]
    BY <1>3 DEF FlushBegin
  <2> HIDE DEF f
  <2>3. f.then = "close" \/ f.pc = "finalize" => g = "user" /\ wclosed'
    BY <2>1, <1>1 DEF WriterInv, CloseIsUsers
  <2>4. flusher[g].pc # "clear"
    BY DEF FlushBegin
  <2>5. QED
    BY <1>1, <1>2, <1>3, <2>1, <2>2, <2>3, <2>4, AsideKeeps
<1>4. CASE length # 0
  <2> DEFINE f == [flusher[g] EXCEPT !.pc = "send", !.saw = length]
  <2>1. f \in Flushes /\ f.pc = "send" /\ f.saw = length /\ f.then = flusher[g].then
    BY <1>0 DEF Flushes
  <2>2. flusher' = [flusher EXCEPT ![g] = f]
    BY <1>4 DEF FlushBegin
  <2> HIDE DEF f
  <2>3. /\ flusher' \in [Goroutines -> Flushes] /\ flusher'[g] = f
        /\ \A h \in Goroutines \ {g} : flusher'[h] = flusher[h]
    BY <2>1, <2>2, Moves DEF WriterInv
  <2>4. WriterTyped'
    BY <1>1, <2>3 DEF WriterInv, WriterTyped
  <2>5. CloseIsUsers'
    BY <1>1, <2>1, <2>3 DEF WriterInv, CloseIsUsers
  <2>6. Finished'
    <3>1. flusher'["user"].pc = "finalize" \/ finalized' => flusher["user"].pc = "finalize" \/ finalized
      BY <1>1, <2>1, <2>3 DEF Goroutines
    <3>2. flusher["user"].pc = "finalize" \/ finalized => wclosed /\ (~overlapped => length = 0)
      BY DEF WriterInv, Finished
    <3>3. QED
      BY <3>1, <3>2, <1>1, <1>4 DEF Finished
  <2>7. ASSUME ~overlapped' PROVE OneInBuffer' /\ Ordered'
    <3>1. \A h \in Goroutines : InBuffer(h)' => h = g
      BY <1>2, <2>3, <2>7 DEF InBuffer
    <3>2. OneInBuffer'
      BY <3>1, <2>1, <2>3, <1>1 DEF OneInBuffer
    <3>3. ~Clearing /\ ~Clearing'
      BY <1>2, <2>1, <2>3, <2>7 DEF Clearing, InBuffer
    <3>4. Ordered'
      BY <1>1, <1>2, <2>7, <3>3 DEF Ordered, WriterInv
    <3>5. QED
      BY <3>2, <3>4
  <2>8. QED
    BY <2>4, <2>5, <2>6, <2>7 DEF WriterInv
<1>5. QED
  BY <1>3, <1>4

\* The request took what was buffered, which was all that was not sent; a failed one took nothing.
LEMMA FlushSendKeeps == ASSUME WriterInv, NEW g \in Goroutines, FlushSend(g) PROVE WriterInv'
<1>0. MaxWrites \in Nat /\ flusher[g] \in Flushes /\ flusher[g].pc = "send" /\ flusher[g].saw \in 0..MaxWrites
  BY StreamWriterAssumption DEF WriterInv, WriterTyped, FlushSend, Flushes
<1>1. UNCHANGED <<array, length, written, finalized, overlapped>> /\ wclosed' = wclosed
  BY DEF FlushSend
<1>2. CASE sent' = sent /\ flusher' = [flusher EXCEPT ![g] = AfterFlush(g, FALSE)]
  <2>1. AfterFlush(g, FALSE) = NoFlush /\ NoFlush \in Flushes /\ NoFlush.pc = "idle" /\ NoFlush.then = "none"
    BY FlushesHas, StreamWriterAssumption DEF AfterFlush, NoFlush
  <2>2. flusher' = [flusher EXCEPT ![g] = NoFlush]
    BY <1>2, <2>1
  <2>3. QED
    BY <1>0, <1>1, <1>2, <2>1, <2>2, AsideKeeps
<1>3. CASE sent' = sent \o SubSeq(array, 1, flusher[g].saw) /\ flusher' = [flusher EXCEPT ![g].pc = "clear"]
  <2> DEFINE f == [flusher[g] EXCEPT !.pc = "clear"]
             s == flusher[g].saw
             d == SubSeq(array, 1, s)
  <2>1. f \in Flushes /\ f.pc = "clear" /\ f.saw = s /\ f.then = flusher[g].then
    BY <1>0 DEF Flushes
  <2>2. flusher' = [flusher EXCEPT ![g] = f]
    BY <1>3
  <2> HIDE DEF f
  <2>3. /\ flusher' \in [Goroutines -> Flushes] /\ flusher'[g] = f
        /\ \A h \in Goroutines \ {g} : flusher'[h] = flusher[h]
    BY <2>1, <2>2, Moves DEF WriterInv
  <2>4. /\ d \in Seq(Nat) /\ Len(d) = s /\ s \in Nat
        /\ \A i \in 1..s : d[i] = array[i]
    <3>1. d = [i \in 1..s |-> array[i]] /\ array \in [1..MaxWrites -> Nat]
      BY <1>0 DEF WriterInv, WriterTyped
    <3>2. \A i \in 1..s : array[i] \in Nat
      BY <1>0, <3>1
    <3>3. QED
      BY <1>0, <3>1, <3>2
  <2> HIDE DEF d, s
  <2>5. sent \in Seq(Nat) /\ Len(sent) \in Nat /\ sent' = sent \o d
    BY <1>3 DEF WriterInv, WriterTyped, d, s
  <2>6. WriterTyped'
    BY <1>1, <2>3, <2>4, <2>5 DEF WriterInv, WriterTyped
  <2>7. CloseIsUsers'
    BY <1>1, <2>1, <2>3 DEF WriterInv, CloseIsUsers
  <2>8. InBuffer(g) /\ \A h \in Goroutines : InBuffer(h)' <=> InBuffer(h)
    BY <1>0, <2>1, <2>3 DEF InBuffer
  <2>9. Finished'
    <3>1. flusher'["user"].pc = "finalize" \/ finalized' => flusher["user"].pc = "finalize" \/ finalized
      BY <1>1, <2>1, <2>3 DEF Goroutines
    <3>2. QED
      BY <3>1, <2>8, <1>1 DEF WriterInv, Finished
  <2>10. ASSUME ~overlapped' PROVE OneInBuffer' /\ Ordered'
    <3>1. OneInBuffer /\ Ordered /\ s = length
      BY <1>1, <2>8, <2>10 DEF WriterInv, OneInBuffer, s
    <3>2. \A h \in Goroutines : InBuffer(h)' => h = g
      BY <3>1, <2>8 DEF OneInBuffer
    <3>3. OneInBuffer'
      BY <3>1, <3>2, <2>1, <2>3, <1>1 DEF OneInBuffer
    <3>4. ~Clearing
      <4>1. ASSUME NEW h \in Goroutines, flusher[h].pc = "clear" PROVE FALSE
        BY <4>1, <3>1, <2>8, <1>0 DEF OneInBuffer, InBuffer
      <4>2. QED
        BY <4>1 DEF Clearing
    <3>5. Clearing'
      BY <2>1, <2>3 DEF Clearing
    <3>6. /\ Len(sent) + s = written /\ \A i \in 1..Len(sent) : sent[i] = i
          /\ \A i \in 1..s : d[i] = Len(sent) + i
      BY <3>1, <3>4, <2>4 DEF Ordered
    <3>7. /\ Len(sent') = Len(sent) + s
          /\ \A i \in 1..(Len(sent) + s) : sent'[i] = IF i <= Len(sent) THEN sent[i] ELSE d[i - Len(sent)]
      <4>1. /\ Len(sent \o d) = Len(sent) + Len(d)
            /\ \A i \in 1..(Len(sent) + Len(d)) : (sent \o d)[i] = IF i <= Len(sent) THEN sent[i] ELSE d[i - Len(sent)]
        BY <2>4, <2>5, ConcatProperties
      <4>2. QED
        BY <4>1, <2>4, <2>5
    <3>8. ASSUME NEW i \in 1..Len(sent') PROVE sent'[i] = i
      <4>1. CASE i <= Len(sent)
        BY <2>4, <2>5, <3>6, <3>7, <4>1
      <4>2. CASE ~(i <= Len(sent))
        <5>1. i - Len(sent) \in 1..s /\ i \in 1..(Len(sent) + s) /\ i \in Int
          BY <2>4, <2>5, <3>7, <4>2
        <5>2. sent'[i] = d[i - Len(sent)]
          BY <3>7, <4>2, <5>1
        <5>3. d[i - Len(sent)] = Len(sent) + (i - Len(sent))
          BY <3>6, <5>1
        <5>4. QED
          BY <5>1, <5>2, <5>3, <2>5
      <4>3. QED
        BY <4>1, <4>2
    <3>9. Ordered'
      BY <1>1, <3>5, <3>6, <3>7, <3>8 DEF Ordered
    <3>10. QED
      BY <3>3, <3>9
  <2>11. QED
    BY <2>6, <2>7, <2>9, <2>10 DEF WriterInv
<1>4. QED
  BY <1>2, <1>3 DEF FlushSend

\* The buffer is emptied of what was sent.
LEMMA FlushClearKeeps == ASSUME WriterInv, NEW g \in Goroutines, FlushClear(g) PROVE WriterInv'
<1>0. MaxWrites \in Nat /\ flusher[g].pc = "clear" /\ written \in Nat
  BY StreamWriterAssumption DEF WriterInv, WriterTyped, FlushClear
<1>1. UNCHANGED <<array, written, sent, finalized, overlapped>> /\ wclosed' = wclosed /\ length' = 0
  BY DEF FlushClear
<1> DEFINE f == AfterFlush(g, TRUE)
<1>2. /\ f \in Flushes /\ f.pc \in {"idle", "finalize"} /\ f.then = "none"
      /\ f.pc = "finalize" => flusher[g].then = "close"
  BY <1>0, FlushesHas, StreamWriterAssumption DEF AfterFlush, NoFlush
<1>3. flusher' = [flusher EXCEPT ![g] = f]
  BY DEF FlushClear
<1> HIDE DEF f
<1>4. /\ flusher' \in [Goroutines -> Flushes] /\ flusher'[g] = f
      /\ \A h \in Goroutines \ {g} : flusher'[h] = flusher[h]
  BY <1>2, <1>3, Moves DEF WriterInv
<1>5. WriterTyped'
  BY <1>0, <1>1, <1>4 DEF WriterInv, WriterTyped
<1>6. CloseIsUsers'
  BY <1>1, <1>2, <1>4 DEF WriterInv, CloseIsUsers
<1>7. InBuffer(g)
  BY <1>0 DEF InBuffer
<1>8. ~overlapped => \A h \in Goroutines : ~InBuffer(h)'
  BY <1>2, <1>4, <1>7 DEF WriterInv, OneInBuffer, InBuffer
<1>9. Finished'
  <2>1. flusher'["user"].pc = "finalize" \/ finalized' => wclosed
    <3>1. CASE flusher["user"].pc = "finalize" \/ finalized
      BY <3>1 DEF WriterInv, Finished
    <3>2. CASE ~(flusher["user"].pc = "finalize" \/ finalized)
      BY <3>2, <1>1, <1>2, <1>4 DEF WriterInv, CloseIsUsers, Goroutines
    <3>3. QED
      BY <3>1, <3>2
  <2>2. QED
    BY <2>1, <1>1, <1>8 DEF Finished
<1>10. ASSUME ~overlapped' PROVE OneInBuffer' /\ Ordered'
  <2>1. OneInBuffer'
    BY <1>1, <1>8, <1>10 DEF OneInBuffer
  <2>2. Clearing /\ ~Clearing'
    BY <1>0, <1>1, <1>8, <1>10 DEF Clearing, InBuffer
  <2>3. Len(sent) = written /\ \A i \in 1..Len(sent) : sent[i] = i
    BY <1>1, <1>10, <2>2 DEF WriterInv, Ordered
  <2>4. QED
    BY <2>1, <2>2, <2>3, <1>0, <1>1 DEF Ordered
<1>11. QED
  BY <1>5, <1>6, <1>9, <1>10 DEF WriterInv

\* Close ends: the stream is finalized, or that request failed.
LEMMA FinalizeKeeps == WriterInv /\ Finalize => WriterInv'
<1> SUFFICES ASSUME WriterInv, Finalize PROVE WriterInv'
  OBVIOUS
<1>0. MaxWrites \in Nat /\ "user" \in Goroutines /\ flusher["user"].pc = "finalize"
  BY StreamWriterAssumption DEF Goroutines, Finalize
<1>1. UNCHANGED <<array, length, written, sent, overlapped>> /\ wclosed' = wclosed
  BY DEF Finalize
<1> DEFINE f == IF wsecond THEN NoFlush ELSE [NoFlush EXCEPT !.pc = "dead"]
<1>2. f \in Flushes /\ f.pc \in {"idle", "dead"} /\ f.then = "none"
  BY <1>0, FlushesHas, StreamWriterAssumption DEF NoFlush, Flushes
<1>3. flusher' = [flusher EXCEPT !["user"] = f]
  BY DEF Finalize
<1> HIDE DEF f
<1>4. /\ flusher' \in [Goroutines -> Flushes] /\ flusher'["user"] = f
      /\ \A h \in Goroutines \ {"user"} : flusher'[h] = flusher[h]
  BY <1>0, <1>2, <1>3, Moves DEF WriterInv
<1>5. WriterTyped'
  BY <1>1, <1>4 DEF WriterInv, WriterTyped
<1>6. CloseIsUsers'
  BY <1>1, <1>2, <1>4 DEF WriterInv, CloseIsUsers
<1>7. \A h \in Goroutines : InBuffer(h)' <=> InBuffer(h)
  BY <1>0, <1>2, <1>4 DEF InBuffer
<1>8. Finished'
  BY <1>0, <1>1, <1>7 DEF WriterInv, Finished
<1>9. Clearing' <=> Clearing
  BY <1>0, <1>2, <1>4 DEF Clearing
<1>10. ASSUME ~overlapped' PROVE OneInBuffer' /\ Ordered'
  <2>1. OneInBuffer /\ Ordered /\ \A h \in Goroutines : ~InBuffer(h)
    BY <1>0, <1>1, <1>10 DEF WriterInv, Finished
  <2>2. QED
    BY <2>1, <1>1, <1>7, <1>9 DEF OneInBuffer, Ordered
<1>11. QED
  BY <1>5, <1>6, <1>8, <1>10 DEF WriterInv

\* Every step keeps the invariant.
LEMMA WriterInvNext == WriterInv /\ [WriterNext]_writerVars => WriterInv'
<1> SUFFICES ASSUME WriterInv, [WriterNext]_writerVars PROVE WriterInv'
  OBVIOUS
<1>0. MaxWrites \in Nat /\ "user" \in Goroutines /\ "auto" \in Goroutines
  BY StreamWriterAssumption DEF Goroutines
<1>1. CASE Write
  BY <1>1, WriteKeeps
<1>2. CASE Finalize
  BY <1>2, FinalizeKeeps
<1>3. CASE UserFlush
  <2> DEFINE f == [pc |-> "flush", saw |-> 0, then |-> "flush"]
  <2>1. f \in Flushes /\ f.pc = "flush" /\ f.then = "flush"
    BY <1>0, FlushesHas
  <2>2. flusher' = [flusher EXCEPT !["user"] = f] /\ flusher["user"].pc # "clear"
    BY <1>3 DEF UserFlush
  <2>3. UNCHANGED <<array, length, written, sent, finalized, overlapped, wclosed>>
    BY <1>3 DEF UserFlush
  <2> HIDE DEF f
  <2>4. QED
    BY <1>0, <2>1, <2>2, <2>3, AsideKeeps
<1>4. CASE CloseWriter
  <2> DEFINE f == [pc |-> "flush", saw |-> 0, then |-> "close"]
  <2>1. f \in Flushes /\ f.pc = "flush" /\ f.then = "close"
    BY <1>0, FlushesHas
  <2>2. flusher' = [flusher EXCEPT !["user"] = f] /\ flusher["user"].pc # "clear" /\ wclosed'
    BY <1>4 DEF CloseWriter
  <2>3. UNCHANGED <<array, length, written, sent, finalized, overlapped>>
    BY <1>4 DEF CloseWriter
  <2> HIDE DEF f
  <2>4. QED
    BY <1>0, <2>1, <2>2, <2>3, AsideKeeps
<1>5. CASE AutoTick
  <2>1. UNCHANGED <<array, length, written, sent, finalized, overlapped, wclosed>> /\ flusher["auto"].pc # "clear"
    BY <1>5 DEF AutoTick
  <2>2. CASE flusher' = [flusher EXCEPT !["auto"] = [pc |-> "flush", saw |-> 0, then |-> "tick"]]
    <3> DEFINE f == [pc |-> "flush", saw |-> 0, then |-> "tick"]
    <3>1. f \in Flushes /\ f.pc = "flush" /\ f.then = "tick"
      BY <1>0, FlushesHas
    <3>2. flusher' = [flusher EXCEPT !["auto"] = f]
      BY <2>2
    <3> HIDE DEF f
    <3>3. QED
      BY <1>0, <2>1, <3>1, <3>2, AsideKeeps
  <2>3. CASE UNCHANGED flusher
    BY <2>1, <2>3 DEF WriterInv, WriterTyped, CloseIsUsers, Finished, OneInBuffer, Ordered, InBuffer, Clearing
  <2>4. QED
    BY <1>5, <2>2, <2>3 DEF AutoTick
<1>6. CASE \E g \in Goroutines : FlushBegin(g) \/ FlushSend(g) \/ FlushClear(g)
  BY <1>6, FlushBeginKeeps, FlushSendKeeps, FlushClearKeeps
<1>7. CASE WriterSecond \/ UNCHANGED writerVars
  <2>1. UNCHANGED <<array, length, wclosed, flusher, written, sent, finalized, overlapped>>
    BY <1>7 DEF WriterSecond, writerVars
  <2>2. QED
    BY <2>1 DEF WriterInv, WriterTyped, CloseIsUsers, Finished, OneInBuffer, Ordered, InBuffer, Clearing
<1>8. QED
  BY <1>1, <1>2, <1>3, <1>4, <1>5, <1>6, <1>7 DEF WriterNext

\* A stream's data are sent each once and in the order they were written, across
\* failed requests, while flusher and ticker do not meet in the buffer
\* (streaming.go:412-522).
THEOREM StreamSentOnceInOrder == WriterSpec => []SentThenBuffered
<1>1. WriterSpec => []WriterInv
  BY WriterInvInit, WriterInvNext, PTL DEF WriterSpec
<1>2. QED
  BY <1>1, OrderedIsSentThenBuffered, PTL

-----------------------------------------------------------------------------
(***************************************************************************)
(* Metrics. SummaryIsOneMoment is inductive with the types and one fact    *)
(* about the table: a method that is not in it has no errors either.       *)
(***************************************************************************)

MetricsTyped ==
  /\ metrics \in [Methods -> [count : Nat, errors : Nat]]
  /\ \A w \in Recorders : recorder[w].pc = "lock" => recorder[w].method \in Methods
  /\ reader \in [Readers -> [pc : {"idle", "copying"}, todo : SUBSET Methods,
                             copied : [Methods -> [count : Nat, errors : Nat]]]]

AbsentIsBlank == \A m \in Methods : metrics[m].count = 0 => metrics[m] = NoMetrics

MetricsInv == MetricsTyped /\ AbsentIsBlank /\ SummaryIsOneMoment

\* The table is empty, and nobody copies it.
LEMMA MetricsInvInit == MetricsInit => MetricsInv
<1> SUFFICES ASSUME MetricsInit PROVE MetricsInv
  OBVIOUS
<1>1. NothingCopied \in [Methods -> [count : Nat, errors : Nat]]
  BY DEF NothingCopied, NoMetrics
<1>2. QED
  BY <1>1 DEF MetricsInit, MetricsInv, MetricsTyped, AbsentIsBlank, SummaryIsOneMoment, NothingCopied, NoCall

\* A call is recorded while nobody copies.
LEMMA RecordKeeps ==
  ASSUME MetricsInv, NEW w \in Recorders, Record(w)
  PROVE  MetricsInv'
<1> DEFINE m == recorder[w].method
<1>1. m \in Methods /\ \A r \in Readers : reader[r].pc # "copying"
  BY DEF Record, ReadLocked, MetricsInv, MetricsTyped
<1>2. \A k \in Methods :
        metrics'[k] = IF k = m THEN [count |-> metrics[m].count + 1,
                                     errors |-> metrics[m].errors + IF recorder[w].failed THEN 1 ELSE 0]
                      ELSE IF k \in Evicted(m) THEN NoMetrics ELSE metrics[k]
  BY DEF Record
<1>3. \A k \in Methods :
        /\ metrics'[k] \in [count : Nat, errors : Nat]
        /\ metrics'[k].count = 0 => metrics'[k] = NoMetrics
  <2> SUFFICES ASSUME NEW k \in Methods
               PROVE  /\ metrics'[k] \in [count : Nat, errors : Nat]
                      /\ metrics'[k].count = 0 => metrics'[k] = NoMetrics
    OBVIOUS
  <2>1. metrics[k] \in [count : Nat, errors : Nat]
    BY DEF MetricsInv, MetricsTyped
  <2>2. CASE k = m
    BY <1>2, <2>1, <2>2 DEF NoMetrics
  <2>3. CASE k # m
    BY <1>2, <2>1, <2>3 DEF NoMetrics, MetricsInv, AbsentIsBlank
  <2>4. QED
    BY <2>2, <2>3
<1>4. metrics' \in [Methods -> [count : Nat, errors : Nat]]
  BY <1>3 DEF Record
<1>5. \A v \in Recorders : recorder'[v].pc = "lock" => recorder'[v].method \in Methods
  BY DEF Record, NoCall, MetricsInv, MetricsTyped
<1>6. QED
  BY <1>1, <1>3, <1>4, <1>5 DEF Record, MetricsInv, MetricsTyped, AbsentIsBlank, SummaryIsOneMoment

\* Every step keeps the invariant.
LEMMA MetricsInvStep == MetricsInv /\ [MetricsNext]_metricsVars => MetricsInv'
<1> SUFFICES ASSUME MetricsInv, [MetricsNext]_metricsVars PROVE MetricsInv'
  OBVIOUS
<1>1. ASSUME NEW w \in Recorders, NEW m \in Methods, NEW failed \in BOOLEAN, RecordCall(w, m, failed)
      PROVE  MetricsInv'
  BY <1>1 DEF RecordCall, MetricsInv, MetricsTyped, AbsentIsBlank, SummaryIsOneMoment
<1>2. ASSUME NEW r \in Readers, NEW record,
             record \in [pc : {"idle", "copying"}, todo : SUBSET Methods,
                         copied : [Methods -> [count : Nat, errors : Nat]]],
             record.pc = "copying" =>
               /\ \A m \in Methods \ record.todo : record.copied[m] = metrics[m]
               /\ \A m \in record.todo : metrics[m].count > 0,
             reader' = [reader EXCEPT ![r] = record],
             UNCHANGED <<metrics, recorder>>
      PROVE  MetricsInv'
  BY <1>2 DEF MetricsInv, MetricsTyped, AbsentIsBlank, SummaryIsOneMoment
<1>3. ASSUME NEW r \in Readers, ReadAllBegins(r) PROVE MetricsInv'
  <2> DEFINE record == [pc |-> "copying", todo |-> {m \in Methods : metrics[m].count > 0},
                        copied |-> NothingCopied]
  <2>1. \A m \in Methods : NothingCopied[m] = NoMetrics
    BY DEF NothingCopied
  <2>2. \A m \in Methods : ~(metrics[m].count > 0) => metrics[m] = NoMetrics
    BY DEF MetricsInv, MetricsTyped, AbsentIsBlank
  <2>3. record \in [pc : {"idle", "copying"}, todo : SUBSET Methods,
                    copied : [Methods -> [count : Nat, errors : Nat]]]
    BY DEF NothingCopied, NoMetrics
  <2>4. QED
    BY <1>2, <1>3, <2>1, <2>2, <2>3 DEF ReadAllBegins
<1>4. ASSUME NEW r \in Readers, ReaderStep(r) PROVE MetricsInv'
  <2> DEFINE old == reader[r]
  <2>0. /\ old \in [pc : {"idle", "copying"}, todo : SUBSET Methods,
                    copied : [Methods -> [count : Nat, errors : Nat]]]
        /\ \A m \in Methods : metrics[m] \in [count : Nat, errors : Nat]
    BY DEF MetricsInv, MetricsTyped
  <2>1. CASE ReadAllEnds(r)
    <3> DEFINE record == [old EXCEPT !.pc = "idle", !.copied = NothingCopied]
    <3>1. /\ record \in [pc : {"idle", "copying"}, todo : SUBSET Methods,
                         copied : [Methods -> [count : Nat, errors : Nat]]]
          /\ record.pc = "idle"
      BY <2>0 DEF NothingCopied, NoMetrics
    <3>2. reader' = [reader EXCEPT ![r] = record] /\ UNCHANGED <<metrics, recorder>>
      BY <2>1 DEF ReadAllEnds
    <3> HIDE DEF record
    <3>3. QED
      BY <1>2, <3>1, <3>2
  <2>2. ASSUME NEW m \in Methods, CopyMethod(r, m) PROVE MetricsInv'
    <3> DEFINE record == [old EXCEPT !.todo = @ \ {m}, !.copied[m] = metrics[m]]
    <3>1. /\ record \in [pc : {"idle", "copying"}, todo : SUBSET Methods,
                         copied : [Methods -> [count : Nat, errors : Nat]]]
          /\ record.todo = old.todo \ {m}
          /\ \A k \in Methods : record.copied[k] = IF k = m THEN metrics[m] ELSE old.copied[k]
      BY <2>0
    <3>2. old.pc = "copying" =>
            /\ \A k \in Methods \ old.todo : old.copied[k] = metrics[k]
            /\ \A k \in old.todo : metrics[k].count > 0
      BY DEF MetricsInv, SummaryIsOneMoment
    <3>3. old.pc = "copying" /\ reader' = [reader EXCEPT ![r] = record] /\ UNCHANGED <<metrics, recorder>>
      BY <2>2 DEF CopyMethod
    <3> HIDE DEF record, old
    <3>4. QED
      BY <1>2, <3>1, <3>2, <3>3
  <2>3. QED
    BY <1>4, <2>1, <2>2 DEF ReaderStep
<1>5. CASE UNCHANGED metricsVars
  BY <1>5 DEF metricsVars, MetricsInv, MetricsTyped, AbsentIsBlank, SummaryIsOneMoment
<1>6. QED
  BY <1>1, <1>3, <1>4, <1>5, RecordKeeps DEF MetricsNext

(***************************************************************************)
(* A summary is the table at one moment, for any number of methods,         *)
(* recorders and readers and any size of the table (debugging.go:411-471,   *)
(* 494-544).                                                                *)
(***************************************************************************)
THEOREM SummariesAreConsistent == MetricsSpec => []SummaryIsOneMoment
<1>1. MetricsInv => SummaryIsOneMoment
  BY DEF MetricsInv
<1>2. QED
  BY <1>1, MetricsInvInit, MetricsInvStep, PTL DEF MetricsSpec
==============================================================================
