---------------------------- MODULE PromiseResolver ----------------------------
(***************************************************************************)
(* PromiseResolver (promise.go): the table that settles promises by export  *)
(* ID.  An entry is taken out under the resolver's mutex and its promise is *)
(* settled after the mutex is released, so the settling calls are those of  *)
(* module Promise, started with what was taken.                             *)
(*                                                                         *)
(* A promise is registered at most once, under the export ID of its call.   *)
(***************************************************************************)
EXTENDS Promise

CONSTANT ExportIDs

VARIABLES
  promises,    \* the table: the promise under each ID, as a set of at most one
  registered,  \* the promises handed to RegisterPromise so far
  displaced    \* those whose entry a later registration took over

tableVars == <<promises, registered, displaced>>
allVars == <<vars, promises, registered, displaced>>

RInit ==
  /\ Init
  /\ promises = [i \in ExportIDs |-> {}]
  /\ registered = {}
  /\ displaced = {}

\* Whatever is under the ID is replaced.
RegisterPromise(i, p) ==
  /\ p \notin registered
  /\ registered' = registered \cup {p}
  /\ displaced' = displaced \cup promises[i]
  /\ promises' = [promises EXCEPT ![i] = {p}]
  /\ UNCHANGED vars

\* ResolvePromise and RejectPromise: take the entry, if there is one.
TakePromise(s, i) ==
  /\ Start(s, promises[i])
  /\ promises' = [promises EXCEPT ![i] = {}]
  /\ UNCHANGED <<registered, displaced>>

\* Mutant: the table is emptied before it is read.
CleanupPromisesEmpty(s) ==
  /\ Start(s, {})
  /\ promises' = [i \in ExportIDs |-> {}]
  /\ UNCHANGED <<registered, displaced>>

\* CleanupPromises swaps the table for an empty one and rejects what was in it.
CleanupPromises(s) ==
  /\ Start(s, UNION {promises[i] : i \in ExportIDs})
  /\ promises' = [i \in ExportIDs |-> {}]
  /\ UNCHANGED <<registered, displaced>>

RNext ==
  \/ \E a \in Awaiters : (Await(a) \/ AwaitStep(a)) /\ UNCHANGED tableVars
  \/ \E s \in Settlers : SettleStep(s) /\ UNCHANGED tableVars
  \/ \E i \in ExportIDs, p \in Promises : RegisterPromise(i, p)
  \/ \E s \in Settlers, i \in ExportIDs : TakePromise(s, i)
  \/ \E s \in Settlers : CleanupPromises(s)

\* Nothing says that a pull is ever sent.
RFairness ==
  /\ \A a \in Awaiters : WF_allVars(AwaitRuns(a) /\ UNCHANGED tableVars)
  /\ \A s \in Settlers : WF_allVars(SettleStep(s) /\ UNCHANGED tableVars)

RSafe == RInit /\ [][RNext]_allVars
RSpec == RSafe /\ RFairness

-----------------------------------------------------------------------------
(* Properties.                                                             *)

\* Every variable has its type and an ID has at most one entry.
RTypeOK ==
  /\ TypeOK
  /\ promises \in [ExportIDs -> SUBSET Promises]
  /\ \A i \in ExportIDs : Cardinality(promises[i]) <= 1
  /\ registered \subseteq Promises
  /\ displaced \subseteq registered

\* No promise is forgotten: as long as a registered one is pending it is in the
\* table or some call still has to settle it, unless its entry was taken over by
\* a second registration of the ID (promise.go:315-369).
NotForgotten ==
  \A p \in registered \ displaced :
     outcome[p] = Pending =>
        \/ \E i \in ExportIDs : p \in promises[i]
        \/ \E s \in Settlers : p \in todo[s]

\* No promise has two settlers: of the racing resolve, reject and cleanup calls
\* that find an entry only one takes it, so only one of them reports success
\* (promise.go:322-351, 361-369).
TakenOnce ==
  \A s \in Settlers :
     /\ \A r \in Settlers \ {s} : todo[s] \cap todo[r] = {}
     /\ \A i \in ExportIDs : todo[s] \cap promises[i] = {}
     /\ \A p \in todo[s] : outcome[p] = Pending

\* Shutdown wakes everyone who was already waiting: an Await registered with a
\* promise that is taken for settling returns, unless the send of its pull never
\* does (promise.go:153-161, 245-255, 361-369).
TakenWakesWaiters ==
  \A p \in Promises, a \in Awaiters :
     (a \in waiters[p] /\ \E s \in Settlers : p \in todo[s]) ~>
       (apc[a] = "returned" \/ [](apc[a] = "pull"))
=============================================================================
