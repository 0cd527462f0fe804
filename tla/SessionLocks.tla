----------------------------- MODULE SessionLocks -----------------------------
(***************************************************************************)
(* How the goroutines of two connected sessions share Session.mu and the    *)
(* two bounded channels of the MemoryTransport (session.go,                 *)
(* transport_memory.go): application calls, the message loop and its        *)
(* handlers, Close and the abort it sends.                                  *)
(*                                                                         *)
(* Session.mu is a sync.RWMutex: once a writer has announced itself, RLock  *)
(* waits, also for a goroutine that already holds a read lock.  A critical  *)
(* section that touches nothing but the reference tables is one step.       *)
(*                                                                         *)
(* A thread is one call of the session's API; the message loop of peer p is *)
(* the goroutine p.                                                         *)
(***************************************************************************)
EXTENDS Integers, Sequences

CONSTANTS
  ThreadsA, ThreadsB,  \* the API calls made on each session
  Ops,                 \* the operations they may be
  Deadline,            \* the threads whose context expires
  Cap                  \* capacity of a MemoryTransport channel

Peer == {"A", "B"}
Other(p) == IF p = "A" THEN "B" ELSE "A"

Thread == ThreadsA \cup ThreadsB
Goroutine == Thread \cup Peer
Home(g) == IF g \in ThreadsA \cup {"A"} THEN "A" ELSE "B"

ASSUME ThreadAssumption == ThreadsA \cap ThreadsB = {} /\ Thread \cap Peer = {}
ASSUME CapAssumption == Cap \in Nat

NoOne == "nobody"
ASSUME NoOneAssumption == NoOne \notin Goroutine

\* Operations that start with Send or SendRequest; the others start with mu.Lock.
Sending == {"send", "pull", "pulltarget", "dispose", "request", "target"}
Operation == Sending \cup {"call", "export", "close"}
ASSUME OpsAssumption == Ops \subseteq Operation

\* What the messages do at the receiver: a push, a push with a reference in it,
\* a pull, a pull of an export that holds a function or RpcTarget, a resolve or
\* reject, a release, an abort.
MessageType == {"push", "ref", "pull", "pulltarget", "reply", "release", "abort"}

\* A loop's work is named after the message it handles, a thread's after its
\* operation.  Only these two encode a value that is exported on the way.
ExportsWhileSending(g, o) == o = IF g \in Peer THEN "pulltarget" ELSE "target"

\* The message an operation puts on the wire; a loop only ever replies to pulls.
MessageOf(o) ==
  CASE o \in {"send", "request"} -> "push"
    [] o \in {"call", "target"}  -> "ref"
    [] o = "dispose"             -> "release"
    [] o = "pulltarget"          -> "pulltarget"
    [] OTHER                     -> "pull"

VARIABLES
  pc,         \* where each goroutine is
  op,         \* what it is doing: a thread's operation, the message a loop handles
  reads,      \* read locks on Home(g).mu held by g
  writer,     \* the goroutine that announced a Lock of p's mu, or has it
  closed,     \* Session.closed, set together with the cancelled context
  closeErr,   \* Session.closeErr
  open,       \* the session's transport has not been closed
  inbox       \* inbox[p]: messages sent to p and not yet received

lockVars == <<reads, writer>>
endVars  == <<closed, closeErr, open>>
vars == <<pc, op, reads, writer, closed, closeErr, open, inbox>>

Init ==
  /\ pc = [g \in Goroutine |-> IF g \in Peer THEN "top" ELSE "idle"]
  /\ op = [g \in Goroutine |-> "none"]
  /\ reads = [g \in Goroutine |-> 0]
  /\ writer = [p \in Peer |-> NoOne]
  /\ closed = [p \in Peer |-> FALSE]
  /\ closeErr = [p \in Peer |-> "nil"]
  /\ open = [p \in Peer |-> TRUE]
  /\ inbox = [p \in Peer |-> <<>>]

Goto(g, l) == pc' = [pc EXCEPT ![g] = l]
Put(p, m) == inbox' = [inbox EXCEPT ![Other(p)] = Append(@, m)]
Room(p) == Len(inbox[Other(p)]) < Cap

-----------------------------------------------------------------------------
(* Session.mu.                                                             *)

Unlocked(p) == writer[p] = NoOne
NoReaders(p) == \A g \in Goroutine : Home(g) = p => reads[g] = 0

\* mu.Lock, first half: writers queue among themselves, readers are held off.
Lock(g) ==
  /\ pc[g] = "lock"
  /\ Unlocked(Home(g))
  /\ writer' = [writer EXCEPT ![Home(g)] = g]
  /\ Goto(g, "announced")
  /\ UNCHANGED <<op, reads, endVars, inbox>>

\* mu.Lock returns once the readers have left.
HasLock(g) == pc[g] = "announced" /\ NoReaders(Home(g))

Unlock(g) == writer' = [writer EXCEPT ![Home(g)] = NoOne]

-----------------------------------------------------------------------------
(* API calls and what they share with the handlers.                        *)

Begin(t) ==
  /\ pc[t] = "idle"
  /\ \E o \in Ops :
       /\ op' = [op EXCEPT ![t] = o]
       /\ Goto(t, IF o \in Sending THEN "rlock" ELSE "lock")
  /\ UNCHANGED <<lockVars, endVars, inbox>>

AfterSend(g) ==
  IF g \in Peer THEN "top" ELSE IF op[g] = "dispose" THEN "lock" ELSE "done"

\* The RLock and closed check that open Send and SendRequest.  A value that has
\* to be exported is exported by EncodeMessage, under this read lock.
Enter(g) ==
  /\ pc[g] = "rlock"
  /\ Unlocked(Home(g))
  /\ \/ /\ closed[Home(g)]
        /\ Goto(g, AfterSend(g))
        /\ UNCHANGED reads
     \/ /\ ~closed[Home(g)]
        /\ reads' = [reads EXCEPT ![g] = 1]
        /\ Goto(g, CASE op[g] = "request"               -> "nested"
                     [] ExportsWhileSending(g, op[g]) -> "lock"
                     [] OTHER                         -> "transport")
  /\ UNCHANGED <<op, writer, endVars, inbox>>

\* SendRequest calls Send with its own read lock held.
Nested(t) ==
  /\ pc[t] = "nested"
  /\ Unlocked(Home(t))
  /\ reads' = [reads EXCEPT ![t] = 2]
  /\ Goto(t, "transport")
  /\ UNCHANGED <<op, writer, endVars, inbox>>

\* transport.Send hands the message over and the read locks are given back.
Deliver(g) ==
  /\ pc[g] = "transport"
  /\ Room(Home(g))
  /\ Put(Home(g), IF g \in Peer THEN "reply" ELSE MessageOf(op[g]))
  /\ reads' = [reads EXCEPT ![g] = 0]
  /\ Goto(g, AfterSend(g))
  /\ UNCHANGED <<op, writer, endVars>>

\* transport.Send returns the context's error instead.
GiveUp(t) ==
  /\ pc[t] = "transport"
  /\ t \in Deadline
  /\ reads' = [reads EXCEPT ![t] = 0]
  /\ Goto(t, AfterSend(t))
  /\ UNCHANGED <<op, writer, endVars, inbox>>

\* Mutant: the lock is not given back.
UpdateTablesLocked(g) ==
  /\ HasLock(g)
  /\ op[g] \in {"export", "call", "dispose", "ref", "release"}
  /\ Goto(g, CASE g \in Peer      -> "top"
               [] op[g] = "call"  -> "rlock"
               [] OTHER           -> "done")
  /\ UNCHANGED <<op, lockVars, endVars, inbox>>

\* exportValue, createImportStub, handleRelease and the end of dispose: one
\* critical section over the tables.  Call exports first and sends after.
UpdateTables(g) ==
  /\ HasLock(g)
  /\ op[g] \in {"export", "call", "dispose", "ref", "release"}
  /\ Unlock(g)
  /\ Goto(g, CASE g \in Peer      -> "top"
               [] op[g] = "call"  -> "rlock"
               [] OTHER           -> "done")
  /\ UNCHANGED <<op, reads, endVars, inbox>>

\* Close finds the session closed already and returns closeErr.
CloseAgain(t) ==
  /\ HasLock(t)
  /\ op[t] = "close"
  /\ closed[Home(t)]
  /\ Unlock(t)
  /\ Goto(t, "done")
  /\ UNCHANGED <<op, reads, endVars, inbox>>

\* Mutant: a closed session is closed again.
CloseBeginAgain(t) ==
  /\ HasLock(t)
  /\ op[t] = "close"
  /\ closed' = [closed EXCEPT ![Home(t)] = TRUE]
  /\ Goto(t, "closing")
  /\ UNCHANGED <<op, lockVars, closeErr, open, inbox>>

CloseBegin(t) ==
  /\ HasLock(t)
  /\ op[t] = "close"
  /\ ~closed[Home(t)]
  /\ closed' = [closed EXCEPT ![Home(t)] = TRUE]
  /\ Goto(t, "closing")
  /\ UNCHANGED <<op, lockVars, closeErr, open, inbox>>

\* Still under the lock: the abort goes out if there is room and the select does
\* not prefer the cancelled context; then the transport is closed.
CloseEnd(t) ==
  /\ pc[t] = "closing"
  /\ \/ Room(Home(t)) /\ Put(Home(t), "abort")
     \/ UNCHANGED inbox
  /\ open' = [open EXCEPT ![Home(t)] = FALSE]
  /\ Unlock(t)
  /\ Goto(t, "done")
  /\ UNCHANGED <<op, reads, closed, closeErr>>

-----------------------------------------------------------------------------
(* messageLoop.                                                            *)

\* The select at the top found nothing to do and falls through to Receive.
Poll(p) ==
  /\ pc[p] = "top"
  /\ ~closed[p]
  /\ Goto(p, "receive")
  /\ UNCHANGED <<op, lockVars, endVars, inbox>>

\* The loop sees the cancelled context, at the top or in Receive.
Stop(p) ==
  /\ pc[p] \in {"top", "receive"}
  /\ closed[p]
  /\ Goto(p, "stopped")
  /\ UNCHANGED <<op, lockVars, endVars, inbox>>

\* Receive may return a message even though the session has closed meanwhile.
Receive(p) ==
  /\ pc[p] = "receive"
  /\ inbox[p] # <<>>
  /\ inbox' = [inbox EXCEPT ![p] = Tail(@)]
  /\ op' = [op EXCEPT ![p] = Head(inbox[p])]
  /\ Goto(p, CASE Head(inbox[p]) = "push"                        -> "top"
               [] Head(inbox[p]) \in {"ref", "release", "abort"} -> "lock"
               [] OTHER                                          -> "lookup")
  /\ UNCHANGED <<lockVars, endVars>>

\* handlePull looks the export up, handleResolve and handleReject look for a
\* waiting channel, under a read lock of their own; a pull is then answered.
Lookup(p) ==
  /\ pc[p] = "lookup"
  /\ Unlocked(p)
  /\ Goto(p, IF op[p] = "reply" THEN "top" ELSE "rlock")
  /\ UNCHANGED <<op, lockVars, endVars, inbox>>

\* Mutant: the abort reason replaces the one the session closed for.
HandleAbortOverwriting(p) ==
  /\ HasLock(p)
  /\ op[p] = "abort"
  /\ closed' = [closed EXCEPT ![p] = TRUE]
  /\ closeErr' = [closeErr EXCEPT ![p] = "aborted"]
  /\ Unlock(p)
  /\ Goto(p, "top")
  /\ UNCHANGED <<op, reads, open, inbox>>

HandleAbort(p) ==
  /\ HasLock(p)
  /\ op[p] = "abort"
  /\ closed' = [closed EXCEPT ![p] = TRUE]
  /\ closeErr' = [closeErr EXCEPT ![p] = IF closed[p] THEN @ ELSE "aborted"]
  /\ Unlock(p)
  /\ Goto(p, "top")
  /\ UNCHANGED <<op, reads, open, inbox>>

-----------------------------------------------------------------------------
Step(g) ==
  Lock(g) \/ Enter(g) \/ Deliver(g) \/ UpdateTables(g)

ThreadStep(t) ==
  Step(t) \/ Nested(t) \/ GiveUp(t) \/ CloseAgain(t) \/ CloseBegin(t) \/ CloseEnd(t)

LoopStep(p) ==
  Step(p) \/ Poll(p) \/ Stop(p) \/ Receive(p) \/ Lookup(p) \/ HandleAbort(p)

Next ==
  \/ \E t \in Thread : Begin(t) \/ ThreadStep(t)
  \/ \E p \in Peer : LoopStep(p)

\* The Go scheduler runs every goroutine that can run; calling is up to the
\* application.
Fairness ==
  /\ \A t \in Thread : WF_vars(ThreadStep(t))
  /\ \A p \in Peer : WF_vars(LoopStep(p))

Safe == Init /\ [][Next]_vars
Spec == Safe /\ Fairness

-----------------------------------------------------------------------------
(* Properties.                                                             *)

Label == {"idle", "rlock", "nested", "transport", "lock", "announced", "closing",
          "done", "top", "receive", "lookup", "stopped"}

\* Every variable has its type and no channel exceeds its capacity.
TypeOK ==
  /\ pc \in [Goroutine -> Label]
  /\ op \in [Goroutine -> Operation \cup MessageType \cup {"none"}]
  /\ \A p \in Peer : op[p] \in MessageType \cup {"none"}
  /\ reads \in [Goroutine -> 0 .. 2]
  /\ writer \in [Peer -> Goroutine \cup {NoOne}]
  /\ closed \in [Peer -> BOOLEAN]
  /\ closeErr \in [Peer -> {"nil", "aborted"}]
  /\ open \in [Peer -> BOOLEAN]
  /\ inbox \in [Peer -> Seq(MessageType)]
  /\ \A p \in Peer : Len(inbox[p]) <= Cap

\* The closed check of Send still holds when the message is handed to the
\* transport, however long that takes: nothing is sent on a closed session
\* (session.go:246-264).
SendSeesOpen == \A g \in Goroutine : pc[g] = "transport" => ~closed[Home(g)]

\* The abort is the last thing a session ever puts on the wire, so the other
\* side has seen everything sent before it (Close, Send; session.go:204-264).
AbortIsLast ==
  \A p \in Peer : \A k \in DOMAIN inbox[p] : inbox[p][k] = "abort" => k = Len(inbox[p])

\* The two sessions end as SessionLifecycle says: once, for one reason, an abort
\* only after the other side was closed, and with the message loop gone at last.
Lifecycle == INSTANCE SessionLifecycle WITH stopped <- [p \in Peer |-> pc[p] = "stopped"]
EndsOnce == Lifecycle!Spec

\* Someone holds a read lock of p's mu and cannot go on: it asks for the lock
\* once more, or waits for room in the channel.
Wedged(p) ==
  \E g \in Goroutine :
     /\ Home(g) = p /\ reads[g] > 0
     /\ pc[g] \in {"nested", "lock", "announced"} \/ (pc[g] = "transport" /\ ~Room(p))

\* The only thing that keeps a Close for ever is a reader of its own session's
\* mutex that never leaves: neither the message loop, nor an abort from the other
\* side, nor any other critical section does (session.go:203-243, 281-358).
CloseReturnsUnlessWedged ==
  \A t \in Thread :
     <>[](op[t] = "close" /\ pc[t] # "done") => <>[]Wedged(Home(t))

\* "Close closes the session and cleans up resources" (session.go:203): a call
\* of Close comes to its end.
CloseReturns == \A t \in Thread : op[t] = "close" ~> pc[t] = "done"

\* The same comment: a session that Close has returned from has closed its
\* transport.
CloseClosesTransport ==
  \A t \in Thread : op[t] = "close" /\ pc[t] = "done" => ~open[Home(t)]
=============================================================================
