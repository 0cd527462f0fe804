-------------------------------- MODULE Promise --------------------------------
(***************************************************************************)
(* Promise (promise.go): goroutines in Await, and goroutines that settle    *)
(* promises and wake the waiters.                                           *)
(*                                                                         *)
(* state, result and err change together under stateMutex, so they are one  *)
(* variable; resolve and reject differ only in the outcome they bring.      *)
(* waitersMux protects nothing but the list of waiters.                     *)
(***************************************************************************)
EXTENDS Integers, FiniteSets

CONSTANTS
  Promises,   \* promise objects
  Awaiters,   \* calls of Await
  Settlers,   \* calls that settle promises
  Outcomes,   \* what a promise may be resolved or rejected with
  Pending,    \* the outcome of a promise that is not settled
  Failed,     \* an Await that returned an error of its own
  Impatient   \* the awaiters whose context expires

ASSUME OutcomeAssumption ==
  Pending \notin Outcomes /\ Failed \notin Outcomes /\ Pending # Failed
ASSUME ImpatientAssumption == Impatient \subseteq Awaiters

VARIABLES
  outcome,    \* state, result and err of each promise
  waiters,    \* the done channels registered with each promise
  target,     \* the promise an Await is called on
  apc,        \* where each Await is
  returned,   \* what it returned, Pending while it has not
  done,       \* the awaiters whose done channel is closed
  spc,        \* where each settling call is
  todo,       \* the promises it still has to settle
  brings,     \* what it settles them with
  current,    \* the promises whose waiters it is about to take
  closing     \* the channels it took and has not closed yet

awaitVars  == <<target, apc, returned>>
settleVars == <<spc, todo, brings, current, closing>>
vars == <<outcome, waiters, target, apc, returned, done, spc, todo, brings, current, closing>>

Init ==
  /\ outcome = [p \in Promises |-> Pending]
  /\ waiters = [p \in Promises |-> {}]
  /\ target \in [Awaiters -> Promises]
  /\ apc = [a \in Awaiters |-> "idle"]
  /\ returned = [a \in Awaiters |-> Pending]
  /\ done = {}
  /\ spc = [s \in Settlers |-> "idle"]
  /\ todo = [s \in Settlers |-> {}]
  /\ brings \in [Settlers -> Outcomes]
  /\ current = [s \in Settlers |-> {}]
  /\ closing = [s \in Settlers |-> {}]

-----------------------------------------------------------------------------
(* Await.                                                                  *)

Return(a, r) ==
  /\ returned' = [returned EXCEPT ![a] = r]
  /\ apc' = [apc EXCEPT ![a] = "returned"]

\* Await looks at the state: a settled promise is returned at once.
Await(a) ==
  /\ apc[a] = "idle"
  /\ \/ /\ outcome[target[a]] # Pending
        /\ Return(a, outcome[target[a]])
     \/ /\ outcome[target[a]] = Pending
        /\ apc' = [apc EXCEPT ![a] = "register"]
        /\ UNCHANGED returned
  /\ UNCHANGED <<outcome, waiters, target, done, settleVars>>

\* Afterwards, and not under the same lock, it adds its channel to the waiters.
Register(a) ==
  /\ apc[a] = "register"
  /\ waiters' = [waiters EXCEPT ![target[a]] = @ \cup {a}]
  /\ apc' = [apc EXCEPT ![a] = "pull"]
  /\ UNCHANGED <<outcome, target, returned, done, settleVars>>

\* The pull goes out, or there is nothing to pull, or sending fails and Await
\* returns with its channel still registered.
Pull(a) ==
  /\ apc[a] = "pull"
  /\ \/ apc' = [apc EXCEPT ![a] = "wait"] /\ UNCHANGED returned
     \/ Return(a, Failed)
  /\ UNCHANGED <<outcome, waiters, target, done, settleVars>>

Wake(a) ==
  /\ apc[a] = "wait"
  /\ a \in done
  /\ Return(a, outcome[target[a]])
  /\ UNCHANGED <<outcome, waiters, target, done, settleVars>>

\* Mutant: the context's end rejects the promise, settled or not.
GiveUpRejecting(a) ==
  /\ apc[a] = "wait"
  /\ a \in Impatient
  /\ Return(a, Failed)
  /\ \E o \in Outcomes : outcome' = [outcome EXCEPT ![target[a]] = o]
  /\ UNCHANGED <<waiters, target, done, settleVars>>

GiveUp(a) ==
  /\ apc[a] = "wait"
  /\ a \in Impatient
  /\ Return(a, Failed)
  /\ UNCHANGED <<outcome, waiters, target, done, settleVars>>

-----------------------------------------------------------------------------
(* resolve and reject.                                                     *)

\* A call that is to settle the promises ps, one after another.
Start(s, ps) ==
  /\ spc[s] = "idle"
  /\ spc' = [spc EXCEPT ![s] = "settle"]
  /\ todo' = [todo EXCEPT ![s] = ps]
  /\ UNCHANGED <<outcome, waiters, awaitVars, done, brings, current, closing>>

\* Under stateMutex: only a pending promise changes, and only then are the
\* waiters notified.
Settle(s, p) ==
  /\ spc[s] = "settle"
  /\ p \in todo[s]
  /\ todo' = [todo EXCEPT ![s] = @ \ {p}]
  /\ \/ /\ outcome[p] # Pending
        /\ UNCHANGED <<outcome, spc, current>>
     \/ /\ outcome[p] = Pending
        /\ outcome' = [outcome EXCEPT ![p] = brings[s]]
        /\ spc' = [spc EXCEPT ![s] = "notify"]
        /\ current' = [current EXCEPT ![s] = {p}]
  /\ UNCHANGED <<waiters, awaitVars, done, brings, closing>>

\* notifyWaiters takes the list and leaves an empty one.
TakeWaiters(s) ==
  /\ spc[s] = "notify"
  /\ \E p \in current[s] :
       /\ closing' = [closing EXCEPT ![s] = waiters[p]]
       /\ waiters' = [waiters EXCEPT ![p] = {}]
  /\ current' = [current EXCEPT ![s] = {}]
  /\ spc' = [spc EXCEPT ![s] = "closing"]
  /\ UNCHANGED <<outcome, awaitVars, done, todo, brings>>

CloseChannel(s, a) ==
  /\ spc[s] = "closing"
  /\ a \in closing[s]
  /\ closing' = [closing EXCEPT ![s] = @ \ {a}]
  /\ done' = done \cup {a}
  /\ UNCHANGED <<outcome, waiters, awaitVars, spc, todo, brings, current>>

\* Mutant: the call ends with the first promise it settles.
AllNotifiedEarly(s) ==
  /\ spc[s] = "closing"
  /\ closing[s] = {}
  /\ spc' = [spc EXCEPT ![s] = "finished"]
  /\ UNCHANGED <<outcome, waiters, awaitVars, done, todo, brings, current, closing>>

AllNotified(s) ==
  /\ spc[s] = "closing"
  /\ closing[s] = {}
  /\ spc' = [spc EXCEPT ![s] = "settle"]
  /\ UNCHANGED <<outcome, waiters, awaitVars, done, todo, brings, current, closing>>

Finish(s) ==
  /\ spc[s] = "settle"
  /\ todo[s] = {}
  /\ spc' = [spc EXCEPT ![s] = "finished"]
  /\ UNCHANGED <<outcome, waiters, awaitVars, done, todo, brings, current, closing>>

-----------------------------------------------------------------------------
\* What an Await does when nobody keeps it; a pull may wait for room for ever.
AwaitRuns(a) == Register(a) \/ Wake(a) \/ GiveUp(a)

AwaitStep(a) == Register(a) \/ Pull(a) \/ Wake(a) \/ GiveUp(a)

SettleStep(s) ==
  \/ \E p \in Promises : Settle(s, p)
  \/ TakeWaiters(s)
  \/ \E a \in Awaiters : CloseChannel(s, a)
  \/ AllNotified(s)
  \/ Finish(s)

\* resolve or reject called on one promise.
SettleOne(s) == \E p \in Promises : Start(s, {p})

Next ==
  \/ \E a \in Awaiters : Await(a) \/ AwaitStep(a)
  \/ \E s \in Settlers : SettleOne(s) \/ SettleStep(s)

\* The Go scheduler runs every goroutine that can run; contexts that expire do,
\* and pulls are sent.
Fairness ==
  /\ \A a \in Awaiters : WF_vars(AwaitStep(a))
  /\ \A s \in Settlers : WF_vars(SettleStep(s))

Safe == Init /\ [][Next]_vars
Spec == Safe /\ Fairness

-----------------------------------------------------------------------------
(* Properties.                                                             *)

\* Every variable has its type.
TypeOK ==
  /\ outcome \in [Promises -> Outcomes \cup {Pending}]
  /\ waiters \in [Promises -> SUBSET Awaiters]
  /\ target \in [Awaiters -> Promises]
  /\ apc \in [Awaiters -> {"idle", "register", "pull", "wait", "returned"}]
  /\ returned \in [Awaiters -> Outcomes \cup {Pending, Failed}]
  /\ done \subseteq Awaiters
  /\ spc \in [Settlers -> {"idle", "settle", "notify", "closing", "finished"}]
  /\ todo \in [Settlers -> SUBSET Promises]
  /\ brings \in [Settlers -> Outcomes]
  /\ current \in [Settlers -> SUBSET Promises]
  /\ closing \in [Settlers -> SUBSET Awaiters]

\* close() panics on a closed channel: a channel a settling call is about to
\* close is open, is in nobody else's hands and is no longer registered, however
\* resolve and reject race (promise.go:206-255).
ClosedOnce ==
  \A s \in Settlers :
     /\ closing[s] \cap done = {}
     /\ \A r \in Settlers \ {s} : closing[s] \cap closing[r] = {}
     /\ \A p \in Promises : closing[s] \cap waiters[p] = {}

\* A promise is settled once, and every Await returns what it was settled with
\* or an error of its own, whatever overtakes what (promise.go:124-175, 206-243).
Cell == INSTANCE Future
IsFuture == Cell!Spec

\* "Await waits for the promise to resolve and returns the result"
\* (promise.go:123): an Await of a settled promise comes to its end.
AwaitReturns ==
  \A a \in Awaiters :
     (apc[a] # "idle" /\ outcome[target[a]] # Pending) ~> apc[a] = "returned"
=============================================================================
