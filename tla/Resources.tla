------------------------------- MODULE Resources -------------------------------
(***************************************************************************)
(* ResourceManager (resource_management.go): the table of tracked           *)
(* resources, reference counts, the cleanup queue with its workers, idle    *)
(* cleanup, context watchers and Stop.                                      *)
(*                                                                         *)
(* A call is one use of the manager's API, or a goroutine started by one;   *)
(* it goes through the code's critical sections one by one.  How long a     *)
(* resource was idle is left open.  The tables of contexts and of           *)
(* references for the leak report are left out: nothing here reads them.    *)
(***************************************************************************)
EXTENDS Integers, Sequences, FiniteSets

CONSTANTS
  Resource,      \* resources that may be tracked, each by one TrackResource
  Earlier,       \* those that were tracked before the calls at hand
  Calls,         \* API calls and the goroutines they turn into
  Workers,       \* the cleanupWorker goroutines
  Periodic,      \* the periodicCleanup goroutine
  MaxResources,  \* options.MaxResources
  QueueSize      \* capacity of cleanupQueue

ASSUME ProcessAssumption == Calls \cap Workers = {} /\ Periodic \notin Calls \cup Workers
ASSUME EarlierAssumption == Earlier \subseteq Resource
ASSUME SizeAssumption == MaxResources \in Nat /\ QueueSize \in Nat

Goroutine == Calls \cup Workers \cup {Periodic}

VARIABLES
  running,    \* cleared by Stop, which also closes the done channel
  made,       \* the resources that some TrackResource was called for
  resources,  \* the table: the resources under management
  entered,    \* history: the resources that were ever in the table
  refCount,   \* RefCount of each
  disposed,   \* the resources whose Disposed flag is set
  cleanups,   \* how often each CleanupFunc was called
  queue,      \* cleanupQueue
  pc,         \* where each goroutine is
  item,       \* the resources it is working on
  now         \* the one it is disposing of, as a set

table == <<made, resources, entered, refCount>>
vars == <<running, table, disposed, cleanups, queue, pc, item, now>>

Init ==
  /\ running = TRUE
  /\ made = Earlier
  /\ resources = Earlier
  /\ entered = Earlier
  /\ refCount = [r \in Resource |-> IF r \in Earlier THEN 1 ELSE 0]
  /\ disposed = {}
  /\ cleanups = [r \in Resource |-> 0]
  /\ queue = <<>>
  /\ pc = [g \in Goroutine |-> "idle"]
  /\ item = [g \in Goroutine |-> {}]
  /\ now = [g \in Goroutine |-> {}]

\* Goroutine g goes on at label l with the resources s.
Goto(g, l, s) ==
  /\ pc' = [pc EXCEPT ![g] = l]
  /\ item' = [item EXCEPT ![g] = s]

-----------------------------------------------------------------------------
(* TrackResource, and CreateContextualResource around it.                  *)

TrackBegin(c) ==
  /\ pc[c] = "idle"
  /\ \E r \in Resource \ made :
       /\ made' = made \cup {r}
       /\ Goto(c, IF running THEN "counting" ELSE "refused", {r})
  /\ UNCHANGED <<running, resources, entered, refCount, disposed, cleanups, queue, now>>

\* The limit is checked under a read lock of its own.
TrackCount(c) ==
  /\ pc[c] = "counting"
  /\ Goto(c, IF Cardinality(resources) >= MaxResources THEN "refused" ELSE "admitted", item[c])
  /\ UNCHANGED <<running, table, disposed, cleanups, queue, now>>

\* CreateContextualResource cleans up what it made in vain; TrackResource leaves
\* it to its caller.
Refused(c) ==
  /\ pc[c] = "refused"
  /\ \/ cleanups' = [r \in Resource |-> IF r \in item[c] THEN cleanups[r] + 1 ELSE cleanups[r]]
     \/ UNCHANGED cleanups
  /\ Goto(c, "done", {})
  /\ UNCHANGED <<running, table, disposed, queue, now>>

\* The resource enters the table, whatever happened since the checks.  A
\* contextual one gets a watcher.
Insert(c) ==
  /\ pc[c] = "admitted"
  /\ resources' = resources \cup item[c]
  /\ entered' = entered \cup item[c]
  /\ refCount' = [r \in Resource |-> IF r \in item[c] THEN 1 ELSE refCount[r]]
  /\ Goto(c, "done", {}) \/ Goto(c, "watching", item[c])
  /\ UNCHANGED <<running, made, disposed, cleanups, queue, now>>

-----------------------------------------------------------------------------
(* UntrackResource, AddRef and Release.                                    *)

\* Mutant: a resource is untracked but not disposed of.
UntrackOnly(c, r) ==
  /\ pc[c] = "idle" \/ (pc[c] = "watching" /\ r \in item[c])
  /\ r \in resources
  /\ resources' = resources \ {r}
  /\ Goto(c, "done", {})
  /\ UNCHANGED <<running, made, entered, refCount, disposed, cleanups, queue, now>>

\* Called by the application, or by a watcher when its context is done; for a
\* resource that is not in the table it does nothing.
Untrack(c, r) ==
  /\ pc[c] = "idle" \/ (pc[c] = "watching" /\ r \in item[c])
  /\ r \in resources
  /\ resources' = resources \ {r}
  /\ Goto(c, "dispose", {r})
  /\ UNCHANGED <<running, made, entered, refCount, disposed, cleanups, queue, now>>

\* AddRef and Release look the resource up under a read lock and change its
\* RefCount atomically after that.
Lookup(c, r) ==
  /\ pc[c] = "idle"
  /\ r \in resources
  /\ Goto(c, "addref", {r}) \/ Goto(c, "release", {r})
  /\ UNCHANGED <<running, table, disposed, cleanups, queue, now>>

AddRef(c, r) ==
  /\ pc[c] = "addref"
  /\ r \in item[c]
  /\ refCount' = [refCount EXCEPT ![r] = @ + 1]
  /\ Goto(c, "done", {})
  /\ UNCHANGED <<running, made, resources, entered, disposed, cleanups, queue, now>>

Release(c, r) ==
  /\ pc[c] = "release"
  /\ r \in item[c]
  /\ refCount' = [refCount EXCEPT ![r] = @ - 1]
  /\ IF refCount[r] <= 1 THEN Goto(c, "enqueue", {r}) ELSE Goto(c, "done", {})
  /\ UNCHANGED <<running, made, resources, entered, disposed, cleanups, queue, now>>

\* Mutant: a resource that finds the queue full is left for later.
EnqueueOrDrop(c, r) ==
  /\ pc[c] = "enqueue"
  /\ r \in item[c]
  /\ queue' = IF Len(queue) < QueueSize THEN Append(queue, r) ELSE queue
  /\ Goto(c, "done", {})
  /\ UNCHANGED <<running, table, disposed, cleanups, now>>

\* The end of Release; with the queue full a goroutine disposes of the resource.
Enqueue(c, r) ==
  /\ pc[c] = "enqueue"
  /\ r \in item[c]
  /\ \/ /\ Len(queue) < QueueSize
        /\ queue' = Append(queue, r)
        /\ Goto(c, "done", {})
     \/ /\ Len(queue) >= QueueSize
        /\ Goto(c, "dispose", {r})
        /\ UNCHANGED queue
  /\ UNCHANGED <<running, table, disposed, cleanups, now>>

-----------------------------------------------------------------------------
(* periodicCleanup.                                                        *)

\* On a tick: unreferenced resources that were idle long enough are collected.
IdleScan ==
  /\ pc[Periodic] = "idle"
  /\ \E s \in SUBSET {r \in resources : refCount[r] <= 0} : s # {} /\ Goto(Periodic, "idling", s)
  /\ UNCHANGED <<running, table, disposed, cleanups, queue, now>>

\* Then they are queued as far as there is room.
IdleEnqueue(r) ==
  /\ pc[Periodic] = "idling"
  /\ r \in item[Periodic]
  /\ queue' = IF Len(queue) < QueueSize THEN Append(queue, r) ELSE queue
  /\ Goto(Periodic, IF item[Periodic] = {r} THEN "idle" ELSE "idling", item[Periodic] \ {r})
  /\ UNCHANGED <<running, table, disposed, cleanups, now>>

-----------------------------------------------------------------------------
(* Stop.                                                                   *)

StopBegin(c) ==
  /\ pc[c] = "idle"
  /\ running
  /\ running' = FALSE
  /\ Goto(c, "sweep", {})
  /\ UNCHANGED <<table, disposed, cleanups, queue, now>>

\* Mutant: only unreferenced resources are taken along.
SweepIdle(c) ==
  /\ pc[c] = "sweep"
  /\ Goto(c, "dispose", {r \in resources : refCount[r] <= 0})
  /\ resources' = {r \in resources : refCount[r] > 0}
  /\ UNCHANGED <<running, made, entered, refCount, disposed, cleanups, queue, now>>

\* The table is copied and replaced by an empty one.
Sweep(c) ==
  /\ pc[c] = "sweep"
  /\ Goto(c, "dispose", resources)
  /\ resources' = {}
  /\ UNCHANGED <<running, made, entered, refCount, disposed, cleanups, queue, now>>

-----------------------------------------------------------------------------
(* disposeResource.                                                        *)

\* Mutant: the flag is set but not looked at.
ClaimAgain(g, r) ==
  /\ pc[g] = "dispose"
  /\ r \in item[g]
  /\ disposed' = disposed \cup {r}
  /\ now' = [now EXCEPT ![g] = {r}]
  /\ Goto(g, "cleanup", item[g] \ {r})
  /\ UNCHANGED <<running, table, cleanups, queue>>

\* Whoever sets Disposed goes on; everybody else is done with the resource.
Claim(g, r) ==
  /\ pc[g] = "dispose"
  /\ r \in item[g]
  /\ \/ /\ r \in disposed
        /\ Goto(g, "dispose", item[g] \ {r})
        /\ UNCHANGED <<disposed, now>>
     \/ /\ r \notin disposed
        /\ disposed' = disposed \cup {r}
        /\ now' = [now EXCEPT ![g] = {r}]
        /\ Goto(g, "cleanup", item[g] \ {r})
  /\ UNCHANGED <<running, table, cleanups, queue>>

RunCleanup(g, r) ==
  /\ pc[g] = "cleanup"
  /\ r \in now[g]
  /\ cleanups' = [cleanups EXCEPT ![r] = @ + 1]
  /\ Goto(g, "forget", item[g])
  /\ UNCHANGED <<running, table, disposed, queue, now>>

Forget(g, r) ==
  /\ pc[g] = "forget"
  /\ r \in now[g]
  /\ resources' = resources \ {r}
  /\ now' = [now EXCEPT ![g] = {}]
  /\ Goto(g, "dispose", item[g])
  /\ UNCHANGED <<running, made, entered, refCount, disposed, cleanups, queue>>

\* Nothing is left to dispose of; a worker goes back to the queue.
Disposed(g) ==
  /\ pc[g] = "dispose"
  /\ item[g] = {}
  /\ Goto(g, IF g \in Workers THEN "idle" ELSE "done", {})
  /\ UNCHANGED <<running, table, disposed, cleanups, queue, now>>

-----------------------------------------------------------------------------
(* cleanupWorker.                                                          *)

Take(w) ==
  /\ pc[w] = "idle"
  /\ queue # <<>>
  /\ queue' = Tail(queue)
  /\ Goto(w, "dispose", {Head(queue)})
  /\ UNCHANGED <<running, table, disposed, cleanups, now>>

\* A worker or the periodic cleanup sees the closed done channel; the queue may
\* still hold something.
Exit(g) ==
  /\ pc[g] = "idle"
  /\ ~running
  /\ Goto(g, "done", {})
  /\ UNCHANGED <<running, table, disposed, cleanups, queue, now>>

-----------------------------------------------------------------------------
\* How a call starts, or a watcher's context ends: when is up to the application.
Begin(c) ==
  \/ TrackBegin(c)
  \/ \E r \in Resource : Untrack(c, r)
  \/ \E r \in Resource : Lookup(c, r)
  \/ StopBegin(c)

CallStep(c) ==
  \/ TrackCount(c) \/ Refused(c) \/ Insert(c) \/ Sweep(c)
  \/ \E r \in Resource : AddRef(c, r) \/ Release(c, r) \/ Enqueue(c, r)

DisposeStep(g) ==
  \/ \E r \in Resource : Claim(g, r) \/ RunCleanup(g, r) \/ Forget(g, r)
  \/ Disposed(g)

PeriodicStep == Exit(Periodic) \/ \E r \in Resource : IdleEnqueue(r)

WorkerStep(w) == Take(w) \/ Exit(w) \/ DisposeStep(w)

Next ==
  \/ \E c \in Calls : Begin(c) \/ CallStep(c) \/ DisposeStep(c)
  \/ \E w \in Workers : WorkerStep(w)
  \/ IdleScan \/ PeriodicStep

\* The Go scheduler runs every goroutine that can run, and cleanup functions return.
Fairness ==
  /\ \A c \in Calls : WF_vars(CallStep(c) \/ DisposeStep(c))
  /\ \A w \in Workers : WF_vars(WorkerStep(w))
  /\ WF_vars(PeriodicStep)

Safe == Init /\ [][Next]_vars
Spec == Safe /\ Fairness

-----------------------------------------------------------------------------
(* Properties.                                                             *)

Label == {"idle", "counting", "refused", "admitted", "watching", "addref", "release", "enqueue",
          "idling", "sweep", "dispose", "cleanup", "forget", "done"}

\* Every variable has its type and the cleanup queue does not exceed its capacity.
TypeOK ==
  /\ running \in BOOLEAN
  /\ made \subseteq Resource
  /\ resources \subseteq entered
  /\ entered \subseteq Resource
  /\ refCount \in [Resource -> Int]
  /\ disposed \subseteq Resource
  /\ cleanups \in [Resource -> Nat]
  /\ queue \in Seq(Resource)
  /\ Len(queue) <= QueueSize
  /\ pc \in [Goroutine -> Label]
  /\ item \in [Goroutine -> SUBSET Resource]
  /\ now \in [Goroutine -> SUBSET Resource]

\* A cleanup function is called at most once, however Release, UntrackResource,
\* idle cleanup, a watcher and Stop meet on the resource
\* (resource_management.go:287-333, 435-455, 510-541).
CleanedOnce == \A r \in Resource : cleanups[r] <= 1

\* A goroutine that has a pointer to r and will dispose of it.
Disposing(g, r) == pc[g] \in {"dispose", "cleanup", "forget"} /\ r \in item[g] \cup now[g]

\* The manager never loses a resource: until it is disposed of, a resource that
\* entered the table is there or in the hands of someone who disposes of it, so
\* the finalizer finds nothing to do (resource_management.go:239-253, 435-455,
\* 634-639).
NeverUnreachable ==
  \A r \in entered \ disposed : r \in resources \/ \E g \in Goroutine : Disposing(g, r)

\* A resource that was disposed of does not stay in the table: whoever claimed it
\* has still to take it out (resource_management.go:510-533).
DisposedLeaves ==
  \A r \in disposed \cap resources : \E g \in Goroutine : r \in now[g]

\* A resource whose last reference is released while the manager runs is cleaned
\* up, also if the queue is full or Stop sends the workers home
\* (resource_management.go:288-309, 435-470).
ReleaseCleansUp ==
  \A r \in Resource :
     (running /\ \E c \in Calls : pc[c] = "enqueue" /\ r \in item[c]) ~> cleanups[r] = 1

\* Everything that is in the table when Stop comes to copy it is cleaned up,
\* whoever else is releasing, untracking or cleaning it up just then
\* (resource_management.go:435-455).
StopSweeps ==
  \A r \in Resource :
     (r \in resources /\ \E c \in Calls : pc[c] = "sweep") ~> cleanups[r] = 1

\* "Stop stops the resource manager and cleans up all resources"
\* (resource_management.go:641): a stopped manager keeps nothing in its table.
StopCleansUp ==
  \A r \in Resource : (r \in resources /\ ~running) ~> cleanups[r] = 1
=============================================================================
