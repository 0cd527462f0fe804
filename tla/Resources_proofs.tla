---------------------------- MODULE Resources_proofs ----------------------------
(***************************************************************************)
(* Proofs about Resources, for any resources, calls, workers, limit and     *)
(* queue.                                                                   *)
(***************************************************************************)
EXTENDS Resources, TLAPS

-----------------------------------------------------------------------------
(* The inductive invariant.                                                *)

\* A resource on its way into the table belongs to one call, and nobody has
\* cleaned it up.
Tracking(g) == pc[g] \in {"counting", "refused", "admitted"}

TrackedOnce ==
  /\ \A g \in Goroutine : Tracking(g) =>
        \A r \in item[g] : /\ r \in made \ entered
                           /\ cleanups[r] = 0
                           /\ \A h \in Goroutine \ {g} : Tracking(h) => r \notin item[h]
  /\ entered \subseteq made
  /\ \A r \in Resource \ made : cleanups[r] = 0

\* Everything else that moves around has been in the table.
OnlyEntered ==
  /\ disposed \subseteq entered
  /\ \A k \in DOMAIN queue : queue[k] \in entered
  /\ \A g \in Goroutine : ~Tracking(g) => item[g] \subseteq entered

\* The Disposed flag is a lock: one goroutine at a time has claimed a resource,
\* and its cleanup function was not called before that goroutine calls it.
ClaimedOnce ==
  /\ \A g \in Goroutine :
        /\ now[g] # {} => pc[g] \in {"cleanup", "forget"}
        /\ now[g] \subseteq disposed
        /\ \A r, s \in now[g] : r = s
        /\ \A h \in Goroutine \ {g} : now[g] \cap now[h] = {}
        /\ pc[g] = "cleanup" => \A r \in now[g] : cleanups[r] = 0
  /\ \A r \in entered \ disposed : cleanups[r] = 0

IInv ==
  /\ TypeOK
  /\ TrackedOnce
  /\ OnlyEntered
  /\ ClaimedOnce
  /\ CleanedOnce
  /\ NeverUnreachable
  /\ DisposedLeaves

-----------------------------------------------------------------------------
\* The invariant holds when the calls at hand begin.
LEMMA InvInit == Init => IInv
<1> SUFFICES ASSUME Init PROVE IInv
  OBVIOUS
<1> USE EarlierAssumption, SizeAssumption
<1>1. TypeOK
  BY DEF Init, TypeOK, Label
<1>2. TrackedOnce /\ OnlyEntered /\ ClaimedOnce
  BY DEF Init, TrackedOnce, Tracking, OnlyEntered, ClaimedOnce
<1>3. CleanedOnce /\ NeverUnreachable /\ DisposedLeaves
  BY DEF Init, CleanedOnce, NeverUnreachable, DisposedLeaves
<1>4. QED
  BY <1>1, <1>2, <1>3 DEF IInv

\* What Goto leaves behind.
LEMMA Moves ==
  ASSUME TypeOK, NEW g \in Goroutine, NEW l \in Label, NEW s \in SUBSET Resource, Goto(g, l, s)
  PROVE  /\ pc' \in [Goroutine -> Label] /\ item' \in [Goroutine -> SUBSET Resource]
         /\ pc'[g] = l /\ item'[g] = s
         /\ \A h \in Goroutine \ {g} : pc'[h] = pc[h] /\ item'[h] = item[h]
BY DEF Goto, TypeOK

\* The rest of the type invariant, for a step that makes no resource.
LEMMA TypeRest ==
  ASSUME TypeOK, made' = made,
         pc' \in [Goroutine -> Label], item' \in [Goroutine -> SUBSET Resource],
         running' \in BOOLEAN, resources' \subseteq entered', entered' \subseteq Resource,
         refCount' \in [Resource -> Int], disposed' \subseteq Resource,
         cleanups' \in [Resource -> Nat], queue' \in Seq(Resource), Len(queue') <= QueueSize,
         now' \in [Goroutine -> SUBSET Resource]
  PROVE  TypeOK'
BY DEF TypeOK

\* Every step of a call, a worker or the periodic cleanup keeps the types.
LEMMA TypeNext == TypeOK /\ [Next]_vars => TypeOK'
<1> SUFFICES ASSUME TypeOK, [Next]_vars PROVE TypeOK'
  OBVIOUS
<1> USE SizeAssumption
<1>1. ASSUME NEW c \in Calls, TrackBegin(c) PROVE TypeOK'
  BY <1>1 DEF TypeOK, TrackBegin, Goto, Label, Goroutine
<1>2. ASSUME NEW c \in Calls, NEW r \in Resource, Untrack(c, r) PROVE TypeOK'
  BY <1>2 DEF TypeOK, Untrack, Goto, Label, Goroutine
<1>3. ASSUME NEW c \in Calls, NEW r \in Resource, Lookup(c, r) PROVE TypeOK'
  <2>1. c \in Goroutine /\ {r} \subseteq Resource
    BY <1>3 DEF Lookup, TypeOK, Goroutine
  <2>2. pc' \in [Goroutine -> Label] /\ item' \in [Goroutine -> SUBSET Resource]
    BY <1>3, <2>1, Moves DEF Lookup, Label
  <2>3. QED
    BY <1>3, <2>2, TypeRest DEF Lookup, TypeOK, table
<1>4. ASSUME NEW c \in Calls, StopBegin(c) PROVE TypeOK'
  BY <1>4 DEF TypeOK, StopBegin, Goto, Label, Goroutine, table
<1>5. ASSUME NEW c \in Calls, CallStep(c) PROVE TypeOK'
  <2>1. CASE TrackCount(c)
    BY <2>1 DEF TypeOK, TrackCount, Goto, Label, Goroutine, table
  <2>2. CASE Refused(c)
    <3>1. pc' \in [Goroutine -> Label] /\ item' \in [Goroutine -> SUBSET Resource]
      <4>1. c \in Goroutine /\ Goto(c, "done", {}) /\ "done" \in Label /\ {} \in SUBSET Resource
        BY <2>2 DEF Refused, Label, Goroutine
      <4>2. QED
        BY <4>1, Moves
    <3>2. cleanups' \in [Resource -> Nat]
      <4>1. \A r \in Resource : cleanups[r] \in Nat /\ cleanups[r] + 1 \in Nat
        BY DEF TypeOK
      <4>2. QED
        BY <2>2, <4>1 DEF Refused, TypeOK
    <3>3. QED
      BY <2>2, <3>1, <3>2, TypeRest DEF Refused, TypeOK, table
  <2>3. CASE Insert(c)
    <3>1. c \in Goroutine /\ item[c] \subseteq Resource
      BY <2>3 DEF TypeOK, Goroutine
    <3>2. pc' \in [Goroutine -> Label] /\ item' \in [Goroutine -> SUBSET Resource]
      BY <2>3, <3>1, Moves DEF Insert, Label
    <3>3. refCount' \in [Resource -> Int]
      <4>1. \A r \in Resource : refCount[r] \in Int
        BY DEF TypeOK
      <4>2. QED
        BY <2>3, <4>1 DEF Insert
    <3>4. QED
      BY <2>3, <3>1, <3>2, <3>3, TypeRest DEF Insert, TypeOK
  <2>4. CASE Sweep(c)
    BY <2>4 DEF TypeOK, Sweep, Goto, Label, Goroutine
  <2>5. ASSUME NEW r \in Resource, AddRef(c, r) \/ Release(c, r) PROVE TypeOK'
    <3>1. c \in Goroutine /\ {r} \subseteq Resource
      BY <2>5 DEF AddRef, Release, TypeOK, Goroutine
    <3>2. pc' \in [Goroutine -> Label] /\ item' \in [Goroutine -> SUBSET Resource]
      BY <2>5, <3>1, Moves DEF AddRef, Release, Label
    <3>3. refCount' \in [Resource -> Int]
      BY <2>5 DEF AddRef, Release, TypeOK
    <3>4. QED
      BY <2>5, <3>2, <3>3, TypeRest DEF AddRef, Release, TypeOK
  <2>6. ASSUME NEW r \in Resource, Enqueue(c, r) PROVE TypeOK'
    <3>1. c \in Goroutine /\ {r} \subseteq Resource
      BY <2>6 DEF Enqueue, TypeOK, Goroutine
    <3>2. pc' \in [Goroutine -> Label] /\ item' \in [Goroutine -> SUBSET Resource]
      BY <2>6, <3>1, Moves DEF Enqueue, Label
    <3>3. queue' \in Seq(Resource) /\ Len(queue') <= QueueSize
      <4>1. CASE Len(queue) < QueueSize /\ queue' = Append(queue, r)
        <5>1. queue \in Seq(Resource) /\ Len(queue) \in Nat
          BY DEF TypeOK
        <5>2. Len(queue') = Len(queue) + 1 /\ queue' \in Seq(Resource)
          BY <4>1, <5>1
        <5>3. QED
          BY <4>1, <5>1, <5>2
      <4>2. CASE UNCHANGED queue
        BY <4>2 DEF TypeOK
      <4>3. QED
        BY <2>6, <4>1, <4>2 DEF Enqueue
    <3>4. QED
      BY <2>6, <3>2, <3>3, TypeRest DEF Enqueue, TypeOK, table
  <2>7. QED
    BY <1>5, <2>1, <2>2, <2>3, <2>4, <2>5, <2>6 DEF CallStep
<1>6. ASSUME NEW g \in Goroutine, DisposeStep(g) PROVE TypeOK'
  <2>1. ASSUME NEW r \in Resource, Claim(g, r) PROVE TypeOK'
    <3>1. {r} \subseteq Resource /\ item[g] \ {r} \subseteq Resource
      BY <2>1 DEF Claim, TypeOK
    <3>2. pc' \in [Goroutine -> Label] /\ item' \in [Goroutine -> SUBSET Resource]
      BY <2>1, <3>1, Moves DEF Claim, Label
    <3>3. disposed' \subseteq Resource /\ now' \in [Goroutine -> SUBSET Resource]
      BY <2>1, <3>1 DEF Claim, TypeOK
    <3>4. QED
      BY <2>1, <3>2, <3>3, TypeRest DEF Claim, TypeOK, table
  <2>2. ASSUME NEW r \in Resource, RunCleanup(g, r) PROVE TypeOK'
    BY <2>2 DEF TypeOK, RunCleanup, Goto, Label, table
  <2>3. ASSUME NEW r \in Resource, Forget(g, r) PROVE TypeOK'
    BY <2>3 DEF TypeOK, Forget, Goto, Label
  <2>4. CASE Disposed(g)
    BY <2>4 DEF TypeOK, Disposed, Goto, Label, table
  <2>5. QED
    BY <1>6, <2>1, <2>2, <2>3, <2>4 DEF DisposeStep
<1>7. ASSUME NEW w \in Workers, Take(w) PROVE TypeOK'
  BY <1>7 DEF TypeOK, Take, Goto, Label, Goroutine, table
<1>8. ASSUME NEW g \in Goroutine, Exit(g) PROVE TypeOK'
  BY <1>8 DEF TypeOK, Exit, Goto, Label, table
<1>9. CASE IdleScan
  BY <1>9 DEF TypeOK, IdleScan, Goto, Label, Goroutine, table
<1>10. ASSUME NEW r \in Resource, IdleEnqueue(r) PROVE TypeOK'
  BY <1>10 DEF TypeOK, IdleEnqueue, Goto, Label, Goroutine, table
<1>11. CASE UNCHANGED vars
  BY <1>11 DEF TypeOK, vars, table
<1>12. QED
  BY <1>1, <1>2, <1>3, <1>4, <1>5, <1>6, <1>7, <1>8, <1>9, <1>10, <1>11
  DEF Next, Begin, WorkerStep, PeriodicStep, Goroutine

-----------------------------------------------------------------------------
\* Most steps move one goroutine and claim, clean up and track nothing: they keep
\* the invariant if what leaves the table, or the hands of a disposing goroutine,
\* is in the hands of a disposing goroutine afterwards.
LEMMA InvMove ==
  ASSUME IInv, TypeOK',
         NEW g \in Goroutine, NEW l \in Label, NEW s \in SUBSET Resource, Goto(g, l, s),
         pc[g] \notin {"cleanup", "forget"}, l \notin {"cleanup", "forget"},
         UNCHANGED <<made, entered, disposed, cleanups, now>>,
         l \in {"counting", "refused", "admitted"} => Tracking(g) /\ s = item[g],
         l \notin {"counting", "refused", "admitted"} => s \subseteq entered,
         \A k \in DOMAIN queue' : queue'[k] \in entered,
         resources' \subseteq resources,
         \A r \in resources \ resources' : l = "dispose" /\ r \in s,
         pc[g] = "dispose" => \A r \in item[g] \ disposed : l = "dispose" /\ r \in s
  PROVE  IInv'
<1>0. /\ TypeOK /\ TrackedOnce /\ OnlyEntered /\ ClaimedOnce
      /\ CleanedOnce /\ NeverUnreachable /\ DisposedLeaves
  BY DEF IInv
<1>1. /\ pc'[g] = l /\ item'[g] = s
      /\ \A h \in Goroutine \ {g} : pc'[h] = pc[h] /\ item'[h] = item[h]
  BY <1>0, Moves
<1>2. TrackedOnce'
  BY <1>0, <1>1 DEF TrackedOnce, Tracking
<1>3. OnlyEntered'
  BY <1>0, <1>1 DEF OnlyEntered, Tracking
<1>4. ClaimedOnce'
  BY <1>0, <1>1 DEF ClaimedOnce
<1>5. CleanedOnce'
  BY <1>0 DEF CleanedOnce
<1>6. NeverUnreachable'
  <2> SUFFICES ASSUME NEW r \in entered \ disposed, r \notin resources'
               PROVE  \E h \in Goroutine : Disposing(h, r)'
    BY <1>0 DEF NeverUnreachable
  <2>1. CASE r \in resources
    BY <1>1, <2>1 DEF Disposing
  <2>2. CASE r \notin resources
    <3>1. PICK h \in Goroutine : Disposing(h, r)
      BY <1>0, <2>2 DEF NeverUnreachable
    <3>2. CASE h = g
      BY <1>0, <1>1, <3>1, <3>2 DEF Disposing, ClaimedOnce
    <3>3. CASE h # g
      BY <1>1, <3>1, <3>3 DEF Disposing
    <3>4. QED
      BY <3>2, <3>3
  <2>3. QED
    BY <2>1, <2>2
<1>7. DisposedLeaves'
  BY <1>0 DEF DisposedLeaves
<1>8. QED
  BY <1>2, <1>3, <1>4, <1>5, <1>6, <1>7 DEF IInv

\* The steps that start to track a resource, give it up, put it into the table,
\* claim it, clean it up and take it out of the table.
LEMMA InvTrackBegin == ASSUME IInv, TypeOK', NEW c \in Calls, TrackBegin(c) PROVE IInv'
<1>0. /\ TypeOK /\ TrackedOnce /\ OnlyEntered /\ ClaimedOnce
      /\ CleanedOnce /\ NeverUnreachable /\ DisposedLeaves
  BY DEF IInv
<1>1. PICK r \in Resource \ made :
         /\ pc[c] = "idle" /\ made' = made \cup {r}
         /\ Goto(c, IF running THEN "counting" ELSE "refused", {r})
         /\ UNCHANGED <<running, resources, entered, refCount, disposed, cleanups, queue, now>>
  BY DEF TrackBegin
<1>2. /\ c \in Goroutine /\ item'[c] = {r} /\ pc'[c] \in {"counting", "refused"}
      /\ \A h \in Goroutine \ {c} : pc'[h] = pc[h] /\ item'[h] = item[h]
  BY <1>0, <1>1 DEF Goto, TypeOK, Goroutine
<1>3. TrackedOnce'
  <2>1. \A g \in Goroutine : Tracking(g) => r \notin item[g]
    BY <1>0, <1>1 DEF TrackedOnce
  <2>2. QED
    BY <1>0, <1>1, <1>2, <2>1 DEF TrackedOnce, Tracking
<1>4. OnlyEntered'
  BY <1>0, <1>1, <1>2 DEF OnlyEntered, Tracking
<1>5. ClaimedOnce'
  BY <1>0, <1>1, <1>2 DEF ClaimedOnce
<1>6. CleanedOnce' /\ DisposedLeaves'
  BY <1>0, <1>1 DEF CleanedOnce, DisposedLeaves
<1>7. NeverUnreachable'
  BY <1>0, <1>1, <1>2 DEF NeverUnreachable, Disposing
<1>8. QED
  BY <1>3, <1>4, <1>5, <1>6, <1>7 DEF IInv

\* A refused resource never was in the table, so its cleanup is the first one.
LEMMA InvRefused == ASSUME IInv, TypeOK', NEW c \in Calls, Refused(c) PROVE IInv'
<1>0. /\ TypeOK /\ TrackedOnce /\ OnlyEntered /\ ClaimedOnce
      /\ CleanedOnce /\ NeverUnreachable /\ DisposedLeaves
  BY DEF IInv
<1>1. /\ pc[c] = "refused" /\ Goto(c, "done", {})
      /\ UNCHANGED <<running, made, resources, entered, refCount, disposed, queue, now>>
  BY DEF Refused, table
<1>2. /\ c \in Goroutine /\ item'[c] = {} /\ pc'[c] = "done"
      /\ \A h \in Goroutine \ {c} : pc'[h] = pc[h] /\ item'[h] = item[h]
  BY <1>0, <1>1 DEF Goto, TypeOK, Goroutine
<1>3. \A r \in Resource : /\ r \notin item[c] => cleanups'[r] = cleanups[r]
                          /\ r \in item[c] => cleanups[r] = 0 /\ cleanups'[r] \in {0, 1}
  <2>1. \A r \in item[c] : cleanups[r] = 0
    BY <1>0, <1>1, <1>2 DEF TrackedOnce, Tracking
  <2>2. QED
    BY <1>0, <2>1 DEF Refused, TypeOK
<1>4. \A r \in item[c] : r \in made \ entered
  BY <1>0, <1>1, <1>2 DEF TrackedOnce, Tracking
<1>5. TrackedOnce'
  <2>1. \A h \in Goroutine \ {c} : Tracking(h) => item[h] \cap item[c] = {}
    BY <1>0, <1>1, <1>2 DEF TrackedOnce, Tracking
  <2>2. \A h \in Goroutine \ {c} : item[h] \subseteq Resource
    BY <1>0 DEF TypeOK
  <2>3. \A h \in Goroutine \ {c} : Tracking(h) => \A r \in item[h] : cleanups'[r] = 0
    BY <1>0, <1>3, <2>1, <2>2 DEF TrackedOnce
  <2>4. \A r \in Resource \ made : cleanups'[r] = 0
    BY <1>0, <1>3, <1>4 DEF TrackedOnce
  <2>5. QED
    BY <1>0, <1>1, <1>2, <2>3, <2>4 DEF TrackedOnce, Tracking
<1>6. OnlyEntered'
  BY <1>0, <1>1, <1>2 DEF OnlyEntered, Tracking
<1>7. ClaimedOnce'
  <2>1. \A r \in entered : r \in Resource /\ cleanups'[r] = cleanups[r]
    BY <1>0, <1>3, <1>4 DEF TypeOK
  <2>2. \A g \in Goroutine : now[g] \subseteq entered
    BY <1>0 DEF ClaimedOnce, OnlyEntered
  <2>3. QED
    BY <1>0, <1>1, <1>2, <2>1, <2>2 DEF ClaimedOnce
<1>8. CleanedOnce'
  BY <1>0, <1>3 DEF CleanedOnce
<1>9. NeverUnreachable' /\ DisposedLeaves'
  BY <1>0, <1>1, <1>2 DEF NeverUnreachable, Disposing, DisposedLeaves
<1>10. QED
  BY <1>5, <1>6, <1>7, <1>8, <1>9 DEF IInv

\* A resource enters the table once, unclaimed.
LEMMA InvInsert == ASSUME IInv, TypeOK', NEW c \in Calls, Insert(c) PROVE IInv'
<1>0. /\ TypeOK /\ TrackedOnce /\ OnlyEntered /\ ClaimedOnce
      /\ CleanedOnce /\ NeverUnreachable /\ DisposedLeaves
  BY DEF IInv
<1>1. /\ pc[c] = "admitted"
      /\ resources' = resources \cup item[c] /\ entered' = entered \cup item[c]
      /\ Goto(c, "done", {}) \/ Goto(c, "watching", item[c])
      /\ UNCHANGED <<running, made, disposed, cleanups, queue, now>>
  BY DEF Insert
<1>2. /\ c \in Goroutine /\ item'[c] \subseteq item[c] /\ pc'[c] \in {"done", "watching"}
      /\ \A h \in Goroutine \ {c} : pc'[h] = pc[h] /\ item'[h] = item[h]
  BY <1>0, <1>1 DEF Goto, TypeOK, Goroutine
<1>3. /\ \A r \in item[c] : r \in made \ entered /\ cleanups[r] = 0
      /\ \A h \in Goroutine \ {c} : Tracking(h) => item[h] \cap item[c] = {}
  BY <1>0, <1>1, <1>2 DEF TrackedOnce, Tracking
<1>4. TrackedOnce'
  BY <1>0, <1>1, <1>2, <1>3 DEF TrackedOnce, Tracking
<1>5. OnlyEntered'
  BY <1>0, <1>1, <1>2 DEF OnlyEntered, Tracking
<1>6. ClaimedOnce'
  BY <1>0, <1>1, <1>2, <1>3 DEF ClaimedOnce
<1>7. CleanedOnce'
  BY <1>0, <1>1 DEF CleanedOnce
<1>8. NeverUnreachable'
  BY <1>0, <1>1, <1>2 DEF NeverUnreachable, Disposing
<1>9. DisposedLeaves'
  BY <1>0, <1>1, <1>3 DEF DisposedLeaves, OnlyEntered
<1>10. QED
  BY <1>4, <1>5, <1>6, <1>7, <1>8, <1>9 DEF IInv

\* Setting Disposed moves a resource from the hands of a goroutine into its claim.
LEMMA InvClaim ==
  ASSUME IInv, TypeOK', NEW g \in Goroutine, NEW r \in Resource, Claim(g, r), r \notin disposed
  PROVE  IInv'
<1>0. /\ TypeOK /\ TrackedOnce /\ OnlyEntered /\ ClaimedOnce
      /\ CleanedOnce /\ NeverUnreachable /\ DisposedLeaves
  BY DEF IInv
<1>1. /\ pc[g] = "dispose" /\ r \in item[g]
      /\ disposed' = disposed \cup {r} /\ now' = [now EXCEPT ![g] = {r}]
      /\ Goto(g, "cleanup", item[g] \ {r})
      /\ UNCHANGED <<running, made, resources, entered, refCount, cleanups, queue>>
  BY DEF Claim, table
<1>2. /\ item'[g] = item[g] \ {r} /\ pc'[g] = "cleanup" /\ now'[g] = {r}
      /\ \A h \in Goroutine \ {g} : pc'[h] = pc[h] /\ item'[h] = item[h] /\ now'[h] = now[h]
  BY <1>0, <1>1 DEF Goto, TypeOK
<1>3. r \in entered /\ cleanups[r] = 0
  BY <1>0, <1>1 DEF OnlyEntered, Tracking, ClaimedOnce
<1>4. TrackedOnce'
  BY <1>0, <1>1, <1>2 DEF TrackedOnce, Tracking
<1>5. OnlyEntered'
  BY <1>0, <1>1, <1>2, <1>3 DEF OnlyEntered, Tracking
<1>6. ClaimedOnce'
  BY <1>0, <1>1, <1>2, <1>3 DEF ClaimedOnce
<1>7. CleanedOnce'
  BY <1>0, <1>1 DEF CleanedOnce
<1>8. NeverUnreachable'
  <2> SUFFICES ASSUME NEW q \in entered \ disposed', q \notin resources
               PROVE  \E h \in Goroutine : Disposing(h, q)'
    BY <1>1 DEF NeverUnreachable
  <2>1. PICK h \in Goroutine : Disposing(h, q)
    BY <1>0, <1>1 DEF NeverUnreachable
  <2>2. Disposing(h, q)'
    BY <1>0, <1>1, <1>2, <2>1 DEF Disposing, ClaimedOnce
  <2>3. QED
    BY <2>2
<1>9. DisposedLeaves'
  BY <1>0, <1>1, <1>2 DEF DisposedLeaves, ClaimedOnce
<1>10. QED
  BY <1>4, <1>5, <1>6, <1>7, <1>8, <1>9 DEF IInv

\* The claiming goroutine calls the cleanup function, which nobody called before.
LEMMA InvRunCleanup ==
  ASSUME IInv, TypeOK', NEW g \in Goroutine, NEW r \in Resource, RunCleanup(g, r)
  PROVE  IInv'
<1>0. /\ TypeOK /\ TrackedOnce /\ OnlyEntered /\ ClaimedOnce
      /\ CleanedOnce /\ NeverUnreachable /\ DisposedLeaves
  BY DEF IInv
<1>1. /\ pc[g] = "cleanup" /\ r \in now[g] /\ cleanups' = [cleanups EXCEPT ![r] = @ + 1]
      /\ Goto(g, "forget", item[g])
      /\ UNCHANGED <<running, made, resources, entered, refCount, disposed, queue, now>>
  BY DEF RunCleanup, table
<1>2. /\ item' = item /\ pc'[g] = "forget"
      /\ \A h \in Goroutine \ {g} : pc'[h] = pc[h]
  BY <1>0, <1>1 DEF Goto, TypeOK
<1>3. /\ r \in disposed /\ r \in entered /\ cleanups[r] = 0 /\ cleanups'[r] = 1
      /\ \A q \in Resource \ {r} : cleanups'[q] = cleanups[q]
  BY <1>0, <1>1 DEF ClaimedOnce, OnlyEntered, TypeOK
<1>4. \A h \in Goroutine \ {g} : r \notin now[h]
  BY <1>0, <1>1 DEF ClaimedOnce
<1>5. TrackedOnce'
  BY <1>0, <1>1, <1>2, <1>3 DEF TrackedOnce, Tracking, TypeOK
<1>6. OnlyEntered'
  BY <1>0, <1>1, <1>2 DEF OnlyEntered, Tracking
<1>7. ClaimedOnce'
  <2>1. \A h \in Goroutine \ {g} : pc'[h] = "cleanup" => \A q \in now[h] : cleanups'[q] = 0
    BY <1>0, <1>2, <1>3, <1>4 DEF ClaimedOnce, TypeOK
  <2>2. \A q \in entered \ disposed : cleanups'[q] = 0
    BY <1>0, <1>3 DEF ClaimedOnce, TypeOK
  <2>3. QED
    BY <1>0, <1>1, <1>2, <2>1, <2>2 DEF ClaimedOnce
<1>8. CleanedOnce'
  BY <1>0, <1>3 DEF CleanedOnce
<1>9. NeverUnreachable'
  BY <1>0, <1>1, <1>2 DEF NeverUnreachable, Disposing
<1>10. DisposedLeaves'
  BY <1>0, <1>1 DEF DisposedLeaves
<1>11. QED
  BY <1>5, <1>6, <1>7, <1>8, <1>9, <1>10 DEF IInv

\* The claiming goroutine takes its resource, and no other, out of the table.
LEMMA InvForget ==
  ASSUME IInv, TypeOK', NEW g \in Goroutine, NEW r \in Resource, Forget(g, r)
  PROVE  IInv'
<1>0. /\ TypeOK /\ TrackedOnce /\ OnlyEntered /\ ClaimedOnce
      /\ CleanedOnce /\ NeverUnreachable /\ DisposedLeaves
  BY DEF IInv
<1>1. /\ pc[g] = "forget" /\ r \in now[g] /\ resources' = resources \ {r}
      /\ now' = [now EXCEPT ![g] = {}] /\ Goto(g, "dispose", item[g])
      /\ UNCHANGED <<running, made, entered, refCount, disposed, cleanups, queue>>
  BY DEF Forget
<1>2. /\ item' = item /\ pc'[g] = "dispose" /\ now'[g] = {}
      /\ \A h \in Goroutine \ {g} : pc'[h] = pc[h] /\ now'[h] = now[h]
  BY <1>0, <1>1 DEF Goto, TypeOK
<1>3. now[g] = {r} /\ r \in disposed
  BY <1>0, <1>1 DEF ClaimedOnce
<1>4. TrackedOnce' /\ OnlyEntered'
  BY <1>0, <1>1, <1>2 DEF TrackedOnce, OnlyEntered, Tracking
<1>5. ClaimedOnce'
  BY <1>0, <1>1, <1>2 DEF ClaimedOnce
<1>6. CleanedOnce'
  BY <1>0, <1>1 DEF CleanedOnce
<1>7. NeverUnreachable'
  <2> SUFFICES ASSUME NEW q \in entered \ disposed, q \notin resources'
               PROVE  \E h \in Goroutine : Disposing(h, q)'
    BY <1>1 DEF NeverUnreachable
  <2>1. PICK h \in Goroutine : Disposing(h, q)
    BY <1>0, <1>1, <1>3 DEF NeverUnreachable
  <2>2. Disposing(h, q)'
    BY <1>0, <1>1, <1>2, <1>3, <2>1 DEF Disposing
  <2>3. QED
    BY <2>2
<1>8. DisposedLeaves'
  <2> SUFFICES ASSUME NEW q \in disposed, q \in resources'
               PROVE  \E h \in Goroutine : q \in now'[h]
    BY <1>1 DEF DisposedLeaves
  <2>1. PICK h \in Goroutine : q \in now[h]
    BY <1>0, <1>1 DEF DisposedLeaves
  <2>2. h # g
    BY <1>1, <1>3, <2>1
  <2>3. QED
    BY <1>2, <2>1, <2>2
<1>9. QED
  BY <1>4, <1>5, <1>6, <1>7, <1>8 DEF IInv

-----------------------------------------------------------------------------
\* Every step keeps the invariant.
LEMMA InvNext == IInv /\ [Next]_vars => IInv'
<1> SUFFICES ASSUME IInv, [Next]_vars PROVE IInv'
  OBVIOUS
<1>0. /\ TypeOK /\ TypeOK' /\ TrackedOnce /\ OnlyEntered /\ ClaimedOnce
      /\ Calls \subseteq Goroutine /\ Workers \subseteq Goroutine /\ Periodic \in Goroutine
  BY TypeNext DEF IInv, Goroutine
<1>1. ASSUME NEW c \in Calls, NEW r \in Resource, Untrack(c, r) PROVE IInv'
  <2>1. /\ Goto(c, "dispose", {r}) /\ pc[c] \in {"idle", "watching"}
        /\ resources' = resources \ {r} /\ r \in resources
        /\ UNCHANGED <<made, entered, disposed, cleanups, queue, now>>
    BY <1>1 DEF Untrack
  <2>2. "dispose" \in Label /\ r \in entered
    BY <1>0, <2>1 DEF Label, TypeOK
  <2>3. QED
    BY <1>0, <2>1, <2>2, InvMove DEF OnlyEntered
<1>2. ASSUME NEW c \in Calls, NEW r \in Resource, Lookup(c, r) PROVE IInv'
  <2>1. PICK l \in {"addref", "release"} : Goto(c, l, {r})
    BY <1>2 DEF Lookup
  <2>2. /\ pc[c] = "idle" /\ r \in entered /\ l \in Label
        /\ UNCHANGED <<made, resources, entered, disposed, cleanups, queue, now>>
    BY <1>0, <1>2 DEF Lookup, table, TypeOK, Label
  <2>3. QED
    BY <1>0, <2>1, <2>2, InvMove DEF OnlyEntered
<1>3. ASSUME NEW c \in Calls, StopBegin(c) PROVE IInv'
  <2>1. /\ Goto(c, "sweep", {}) /\ pc[c] = "idle" /\ "sweep" \in Label
        /\ UNCHANGED <<made, resources, entered, disposed, cleanups, queue, now>>
    BY <1>3 DEF StopBegin, table, Label
  <2>2. QED
    BY <1>0, <2>1, InvMove DEF OnlyEntered
<1>4. ASSUME NEW c \in Calls, CallStep(c) PROVE IInv'
  <2>1. CASE TrackCount(c)
    <3>1. PICK l \in {"refused", "admitted"} : Goto(c, l, item[c])
      BY <2>1 DEF TrackCount
    <3>2. /\ pc[c] = "counting" /\ l \in Label /\ item[c] \in SUBSET Resource
          /\ UNCHANGED <<made, resources, entered, disposed, cleanups, queue, now>>
      BY <1>0, <2>1 DEF TrackCount, table, Label, TypeOK
    <3>3. QED
      BY <1>0, <3>1, <3>2, InvMove DEF OnlyEntered, Tracking
  <2>2. CASE Sweep(c)
    <3>1. /\ Goto(c, "dispose", resources) /\ pc[c] = "sweep" /\ resources' = {}
          /\ UNCHANGED <<made, entered, disposed, cleanups, queue, now>>
      BY <2>2 DEF Sweep
    <3>2. "dispose" \in Label /\ resources \in SUBSET Resource /\ resources \subseteq entered
      BY <1>0 DEF Label, TypeOK
    <3>3. QED
      BY <1>0, <3>1, <3>2, InvMove DEF OnlyEntered
  <2>3. ASSUME NEW r \in Resource, AddRef(c, r) \/ Release(c, r) PROVE IInv'
    <3>1. PICK l \in {"done", "enqueue"}, s \in {{}, {r}} : Goto(c, l, s)
      BY <2>3 DEF AddRef, Release
    <3>2. /\ pc[c] \in {"addref", "release"} /\ r \in item[c] /\ l \in Label
          /\ UNCHANGED <<made, resources, entered, disposed, cleanups, queue, now>>
      BY <2>3 DEF AddRef, Release, Label
    <3>3. r \in entered
      BY <1>0, <3>2 DEF OnlyEntered, Tracking
    <3>4. QED
      BY <1>0, <3>1, <3>2, <3>3, InvMove DEF OnlyEntered
  <2>4. ASSUME NEW r \in Resource, Enqueue(c, r) PROVE IInv'
    <3>1. /\ pc[c] = "enqueue" /\ r \in item[c]
          /\ UNCHANGED <<made, resources, entered, disposed, cleanups, now>>
      BY <2>4 DEF Enqueue, table
    <3>2. PICK l \in {"done", "dispose"}, s \in {{}, {r}} : Goto(c, l, s)
      BY <2>4 DEF Enqueue
    <3>3. r \in entered /\ l \in Label
      BY <1>0, <3>1 DEF OnlyEntered, Tracking, Label
    <3>4. \A k \in DOMAIN queue' : queue'[k] \in entered
      <4>1. CASE UNCHANGED queue
        BY <1>0, <4>1 DEF OnlyEntered
      <4>2. CASE queue' = Append(queue, r)
        <5>1. queue \in Seq(Resource)
          BY <1>0 DEF TypeOK
        <5>2. \A k \in DOMAIN queue' : queue'[k] = r \/ (k \in DOMAIN queue /\ queue'[k] = queue[k])
          BY <4>2, <5>1
        <5>3. QED
          BY <1>0, <3>3, <5>2 DEF OnlyEntered
      <4>3. QED
        BY <2>4, <4>1, <4>2 DEF Enqueue
    <3>5. QED
      BY <1>0, <3>1, <3>2, <3>3, <3>4, InvMove
  <2>5. QED
    BY <1>0, <1>4, <2>1, <2>2, <2>3, <2>4, InvRefused, InvInsert DEF CallStep
<1>5. ASSUME NEW g \in Goroutine, DisposeStep(g) PROVE IInv'
  <2>1. ASSUME NEW r \in Resource, Claim(g, r), r \in disposed PROVE IInv'
    <3>1. /\ Goto(g, "dispose", item[g] \ {r}) /\ pc[g] = "dispose" /\ "dispose" \in Label
          /\ UNCHANGED <<made, resources, entered, disposed, cleanups, queue, now>>
      BY <2>1 DEF Claim, table, Label
    <3>2. item[g] \ {r} \in SUBSET Resource /\ item[g] \subseteq entered
      BY <1>0, <3>1 DEF TypeOK, OnlyEntered, Tracking
    <3>3. QED
      BY <1>0, <2>1, <3>1, <3>2, InvMove DEF OnlyEntered
  <2>2. CASE Disposed(g)
    <3>1. PICK l \in {"idle", "done"} : Goto(g, l, {})
      BY <2>2 DEF Disposed
    <3>2. /\ pc[g] = "dispose" /\ item[g] = {} /\ l \in Label
          /\ UNCHANGED <<made, resources, entered, disposed, cleanups, queue, now>>
      BY <2>2 DEF Disposed, table, Label
    <3>3. QED
      BY <1>0, <3>1, <3>2, InvMove DEF OnlyEntered
  <2>3. QED
    BY <1>0, <1>5, <2>1, <2>2, InvClaim, InvRunCleanup, InvForget DEF DisposeStep
<1>6. ASSUME NEW w \in Workers, Take(w) PROVE IInv'
  <2>1. /\ Goto(w, "dispose", {Head(queue)}) /\ pc[w] = "idle" /\ "dispose" \in Label
        /\ queue # <<>> /\ queue' = Tail(queue)
        /\ UNCHANGED <<made, resources, entered, disposed, cleanups, now>>
    BY <1>6 DEF Take, table, Label
  <2>2. /\ Head(queue) \in Resource /\ Head(queue) \in entered
        /\ \A k \in DOMAIN queue' : queue'[k] \in entered
    BY <1>0, <2>1, SMTT(40) DEF TypeOK, OnlyEntered
  <2>3. QED
    BY <1>0, <2>1, <2>2, InvMove
<1>7. ASSUME NEW g \in Goroutine, Exit(g) PROVE IInv'
  <2>1. /\ Goto(g, "done", {}) /\ pc[g] = "idle" /\ "done" \in Label
        /\ UNCHANGED <<made, resources, entered, disposed, cleanups, queue, now>>
    BY <1>7 DEF Exit, table, Label
  <2>2. QED
    BY <1>0, <2>1, InvMove DEF OnlyEntered
<1>8. CASE IdleScan
  <2>1. PICK s \in SUBSET resources : Goto(Periodic, "idling", s)
    BY <1>8 DEF IdleScan
  <2>2. /\ pc[Periodic] = "idle" /\ "idling" \in Label /\ s \in SUBSET Resource /\ s \subseteq entered
        /\ UNCHANGED <<made, resources, entered, disposed, cleanups, queue, now>>
    BY <1>0, <1>8 DEF IdleScan, table, Label, TypeOK
  <2>3. QED
    BY <1>0, <2>1, <2>2, InvMove DEF OnlyEntered
<1>9. ASSUME NEW r \in Resource, IdleEnqueue(r) PROVE IInv'
  <2>1. /\ pc[Periodic] = "idling" /\ r \in item[Periodic]
        /\ UNCHANGED <<made, resources, entered, disposed, cleanups, now>>
    BY <1>9 DEF IdleEnqueue, table
  <2>2. PICK l \in {"idle", "idling"} : Goto(Periodic, l, item[Periodic] \ {r})
    BY <1>9 DEF IdleEnqueue
  <2>3. item[Periodic] \subseteq entered /\ item[Periodic] \ {r} \in SUBSET Resource /\ l \in Label
    BY <1>0, <2>1 DEF OnlyEntered, Tracking, TypeOK, Label
  <2>4. \A k \in DOMAIN queue' : queue'[k] \in entered
    BY <1>0, <1>9, <2>1, <2>3, SMTT(40) DEF IdleEnqueue, OnlyEntered, TypeOK
  <2>5. QED
    BY <1>0, <2>1, <2>2, <2>3, <2>4, InvMove
<1>10. CASE UNCHANGED vars
  BY <1>0, <1>10 DEF IInv, vars, table, TrackedOnce, OnlyEntered, ClaimedOnce, Tracking,
                     CleanedOnce, NeverUnreachable, DisposedLeaves, Disposing
<1>11. QED
  BY <1>0, <1>1, <1>2, <1>3, <1>4, <1>5, <1>6, <1>7, <1>8, <1>9, <1>10, InvTrackBegin
  DEF Next, Begin, WorkerStep, PeriodicStep

\* The invariant holds throughout every behaviour.
LEMMA Invariant == Safe => []IInv
BY InvInit, InvNext, PTL DEF Safe

-----------------------------------------------------------------------------
\* Every variable of the resource manager keeps its type.
THEOREM TypeCorrect == Safe => []TypeOK
BY Invariant, PTL DEF IInv

\* No cleanup function is called twice, whichever of Release, UntrackResource,
\* idle cleanup, watchers and Stop get hold of the resource, and how often.
THEOREM CleanupAtMostOnce == Safe => []CleanedOnce
BY Invariant, PTL DEF IInv

\* A resource that entered the table is there, or with someone who disposes of
\* it, until it is disposed of.
THEOREM NothingLost == Safe => []NeverUnreachable
BY Invariant, PTL DEF IInv

\* A resource that was disposed of is only in the table while the goroutine that
\* claimed it has still to take it out.
THEOREM DisposedResourcesLeave == Safe => []DisposedLeaves
BY Invariant, PTL DEF IInv
=============================================================================
