------------------------- MODULE SessionLocks_proofs -------------------------
(***************************************************************************)
(* Proofs about SessionLocks, for any number of API calls, any choice of    *)
(* operations and deadlines, and any channel capacity.                      *)
(***************************************************************************)
EXTENDS SessionLocks, TLAPS

-----------------------------------------------------------------------------
(* Peers and goroutines.                                                   *)

\* Every goroutine belongs to a peer, and the loops are no API calls.
LEMMA HomeType ==
  /\ \A g \in Goroutine : Home(g) \in Peer
  /\ \A p \in Peer : p \in Goroutine /\ Home(p) = p /\ p \notin Thread
  /\ \A t \in Thread : t \in Goroutine
BY ThreadAssumption DEF Goroutine, Home, Peer, Thread

\* There are two peers.
LEMMA OtherPeer ==
  ASSUME NEW p \in Peer
  PROVE  Other(p) \in Peer /\ Other(p) # p /\ Other(Other(p)) = p
BY DEF Peer, Other

\* No operation but Close sends an abort.
LEMMA MessageOfType ==
  \A o : MessageOf(o) \in MessageType /\ MessageOf(o) # "abort"
BY DEF MessageOf, MessageType

\* What an append and a tail do to a channel.
LEMMA AppendChannel ==
  ASSUME TypeOK, NEW p \in Peer, NEW m \in MessageType, Room(p), Put(p, m)
  PROVE  /\ inbox' \in [Peer -> Seq(MessageType)]
         /\ \A q \in Peer : Len(inbox'[q]) <= Cap
         /\ inbox'[Other(p)] = Append(inbox[Other(p)], m)
         /\ inbox'[p] = inbox[p]
<1>1. inbox \in [Peer -> Seq(MessageType)] /\ \A q \in Peer : Len(inbox[q]) <= Cap
  BY DEF TypeOK
<1>2. Other(p) \in Peer /\ Other(p) # p
  BY OtherPeer
<1>3. /\ inbox' = [inbox EXCEPT ![Other(p)] = Append(inbox[Other(p)], m)]
      /\ Len(inbox[Other(p)]) < Cap
  BY DEF Put, Room
<1>4. /\ Append(inbox[Other(p)], m) \in Seq(MessageType)
      /\ Len(Append(inbox[Other(p)], m)) = Len(inbox[Other(p)]) + 1
      /\ Len(inbox[Other(p)]) \in Nat
  BY <1>1, <1>2
<1>5. QED
  BY <1>1, <1>2, <1>3, <1>4, CapAssumption

\* What receiving does to the channels.
LEMMA ReceiveChannel ==
  ASSUME TypeOK, NEW p \in Peer, Receive(p)
  PROVE  /\ inbox' \in [Peer -> Seq(MessageType)]
         /\ \A q \in Peer : Len(inbox'[q]) <= Cap
         /\ inbox'[p] = Tail(inbox[p])
         /\ inbox[p] \in Seq(MessageType) /\ inbox[p] # <<>>
         /\ Head(inbox[p]) \in MessageType
         /\ inbox'[Other(p)] = inbox[Other(p)]
<1>1. inbox \in [Peer -> Seq(MessageType)] /\ \A q \in Peer : Len(inbox[q]) <= Cap
  BY DEF TypeOK
<1>2. inbox[p] # <<>> /\ inbox' = [inbox EXCEPT ![p] = Tail(inbox[p])]
  BY DEF Receive
<1>3. /\ Head(inbox[p]) \in MessageType
      /\ Tail(inbox[p]) \in Seq(MessageType)
      /\ Len(Tail(inbox[p])) = Len(inbox[p]) - 1
      /\ Len(inbox[p]) \in Nat
  BY <1>1, <1>2
<1>4. QED
  BY <1>1, <1>2, <1>3, CapAssumption, OtherPeer

-----------------------------------------------------------------------------
(***************************************************************************)
(* The inductive invariant.                                                 *)
(***************************************************************************)

\* Only the goroutine that announced itself waits for, or has, the write lock.
WriterIsAnnounced ==
  \A g \in Goroutine : pc[g] \in {"announced", "closing"} => writer[Home(g)] = g

\* A goroutine past the closed check holds a read lock, and as long as anyone
\* does the session is open.
ReadersKeepOpen ==
  \A g \in Goroutine :
     /\ pc[g] \in {"nested", "transport"} => reads[g] > 0
     /\ reads[g] > 0 => ~closed[Home(g)]

\* A session aborted by its peer, or being closed, is closed.
CloseMarks ==
  /\ \A p \in Peer : closeErr[p] = "aborted" => closed[p]
  /\ \A g \in Goroutine :
       pc[g] = "closing" => closed[Home(g)] /\ closeErr[Home(g)] = "nil"

\* q has an abort to handle.
AbortComing(q) ==
  \/ \E k \in DOMAIN inbox[q] : inbox[q][k] = "abort"
  \/ op[q] = "abort" /\ pc[q] \in {"lock", "announced"}

\* An abort on its way, or being handled, comes from a local Close that is over.
AbortComesFromClose ==
  \A p \in Peer :
     AbortComing(Other(p)) =>
       /\ closed[p] /\ closeErr[p] = "nil"
       /\ \A g \in Goroutine : Home(g) = p => pc[g] # "closing"

IInv ==
  /\ TypeOK
  /\ WriterIsAnnounced
  /\ ReadersKeepOpen
  /\ CloseMarks
  /\ AbortComesFromClose
  /\ AbortIsLast

-----------------------------------------------------------------------------
\* The invariant holds before anything is called.
LEMMA InvInit == Init => IInv
<1> SUFFICES ASSUME Init PROVE IInv
  OBVIOUS
<1>1. TypeOK
  BY CapAssumption, HomeType DEF Init, TypeOK, Label, Goroutine, Peer
<1>2. WriterIsAnnounced /\ ReadersKeepOpen /\ CloseMarks
  BY DEF Init, WriterIsAnnounced, ReadersKeepOpen, CloseMarks
<1>3. AbortComesFromClose /\ AbortIsLast
  BY OtherPeer, HomeType DEF Init, AbortComesFromClose, AbortComing, AbortIsLast
<1>4. QED
  BY <1>1, <1>2, <1>3 DEF IInv

\* Every step of a call or a message loop keeps the types.
LEMMA TypeNext == TypeOK /\ [Next]_vars => TypeOK'
<1> SUFFICES ASSUME TypeOK, [Next]_vars PROVE TypeOK'
  OBVIOUS
<1> USE HomeType
<1>1. ASSUME NEW t \in Thread, Begin(t) PROVE TypeOK'
  BY <1>1, OpsAssumption DEF Begin, TypeOK, Goto, Label, lockVars, endVars, Operation, Sending
<1>2. ASSUME NEW g \in Goroutine, Lock(g) PROVE TypeOK'
  BY <1>2 DEF Lock, TypeOK, Goto, Label, endVars
<1>3. ASSUME NEW g \in Goroutine, Enter(g) PROVE TypeOK'
  <2>1. CASE closed[Home(g)]
    BY <1>3, <2>1 DEF Enter, TypeOK, Goto, Label, endVars, AfterSend
  <2>2. PICK l \in Label : Goto(g, l)
    BY <1>3 DEF Enter, Label, AfterSend
  <2>3. CASE reads' = [reads EXCEPT ![g] = 1]
    BY <1>3, <2>2, <2>3 DEF Enter, TypeOK, Goto, endVars
  <2>4. QED
    BY <1>3, <2>1, <2>3 DEF Enter
<1>4. ASSUME NEW g \in Goroutine, Deliver(g) PROVE TypeOK'
  <2>1. PICK m \in MessageType : Put(Home(g), m)
    BY <1>4, MessageOfType DEF Deliver, MessageType
  <2>2. inbox' \in [Peer -> Seq(MessageType)] /\ \A q \in Peer : Len(inbox'[q]) <= Cap
    BY <1>4, <2>1, AppendChannel DEF Deliver
  <2>3. QED
    BY <1>4, <2>2 DEF Deliver, TypeOK, Goto, Label, endVars, AfterSend
<1>5. ASSUME NEW g \in Goroutine, UpdateTables(g) PROVE TypeOK'
  BY <1>5 DEF UpdateTables, TypeOK, Goto, Label, endVars, Unlock
<1>6. ASSUME NEW t \in Thread, Nested(t) \/ GiveUp(t) PROVE TypeOK'
  <2>1. CASE Nested(t)
    BY <2>1 DEF Nested, TypeOK, Goto, Label, endVars
  <2>2. CASE GiveUp(t)
    BY <2>2 DEF GiveUp, TypeOK, Goto, Label, endVars, AfterSend
  <2>3. QED
    BY <1>6, <2>1, <2>2
<1>7. ASSUME NEW t \in Thread, CloseAgain(t) \/ CloseBegin(t) PROVE TypeOK'
  <2>1. CASE CloseAgain(t)
    BY <2>1 DEF CloseAgain, TypeOK, Goto, Label, endVars, Unlock
  <2>2. CASE CloseBegin(t)
    BY <2>2 DEF CloseBegin, TypeOK, Goto, Label, lockVars
  <2>3. QED
    BY <1>7, <2>1, <2>2
<1>8. ASSUME NEW t \in Thread, CloseEnd(t) PROVE TypeOK'
  <2>1. inbox' \in [Peer -> Seq(MessageType)] /\ \A q \in Peer : Len(inbox'[q]) <= Cap
    BY <1>8, AppendChannel DEF CloseEnd, TypeOK, MessageType
  <2>2. QED
    BY <1>8, <2>1 DEF CloseEnd, TypeOK, Goto, Label, Unlock
<1>9. ASSUME NEW p \in Peer, Poll(p) \/ Stop(p) \/ Lookup(p) PROVE TypeOK'
  BY <1>9 DEF Poll, Stop, Lookup, TypeOK, Goto, Label, lockVars, endVars
<1>10. ASSUME NEW p \in Peer, Receive(p) PROVE TypeOK'
  <2>1. /\ inbox' \in [Peer -> Seq(MessageType)] /\ \A q \in Peer : Len(inbox'[q]) <= Cap
        /\ Head(inbox[p]) \in MessageType
    BY <1>10, ReceiveChannel
  <2>2. QED
    BY <1>10, <2>1 DEF Receive, TypeOK, Goto, Label, lockVars, endVars
<1>11. ASSUME NEW p \in Peer, HandleAbort(p) PROVE TypeOK'
  BY <1>11 DEF HandleAbort, TypeOK, Goto, Label, Unlock
<1>12. CASE UNCHANGED vars
  BY <1>12 DEF vars, TypeOK
<1>13. QED
  BY <1>1, <1>2, <1>3, <1>4, <1>5, <1>6, <1>7, <1>8, <1>9, <1>10, <1>11, <1>12
  DEF Next, ThreadStep, LoopStep, Step

\* Session.mu has the writer it says it has.
LEMMA WriterNext == IInv /\ [Next]_vars => WriterIsAnnounced'
<1> SUFFICES ASSUME IInv, [Next]_vars, NEW h \in Goroutine,
                    pc'[h] \in {"announced", "closing"}
             PROVE  writer'[Home(h)] = h
  BY DEF WriterIsAnnounced
<1> USE HomeType
<1>0. /\ \A g \in Goroutine : pc[g] \in {"announced", "closing"} => writer[Home(g)] = g
      /\ pc \in [Goroutine -> Label] /\ writer \in [Peer -> Goroutine \cup {NoOne}]
  BY DEF IInv, TypeOK, WriterIsAnnounced
<1>1. ASSUME UNCHANGED writer, pc'[h] = pc[h] PROVE writer'[Home(h)] = h
  BY <1>0, <1>1
<1>2. ASSUME NEW g \in Goroutine, NEW l \in Label \ {"announced", "closing"}, Goto(g, l), UNCHANGED writer
      PROVE  writer'[Home(h)] = h
  BY <1>0, <1>1, <1>2 DEF Goto
<1>3. ASSUME NEW g \in Goroutine, NEW l \in Label \ {"announced", "closing"}, Goto(g, l),
             pc[g] \in {"announced", "closing"}, Unlock(g)
      PROVE  writer'[Home(h)] = h
  <2>1. h # g /\ pc'[h] = pc[h]
    BY <1>0, <1>3 DEF Goto
  <2>2. Home(h) # Home(g)
    BY <1>0, <1>3, <2>1
  <2>3. QED
    BY <1>0, <1>3, <2>1, <2>2 DEF Unlock
<1>4. ASSUME NEW t \in Thread, Begin(t) PROVE writer'[Home(h)] = h
  <2>1. PICK l \in {"rlock", "lock"} : Goto(t, l)
    BY <1>4 DEF Begin
  <2>2. QED
    BY <1>2, <1>4, <2>1 DEF Begin, lockVars, Label
<1>5. ASSUME NEW g \in Goroutine, Lock(g) PROVE writer'[Home(h)] = h
  <2>1. CASE h = g
    BY <1>0, <1>5, <2>1 DEF Lock
  <2>2. CASE h # g
    <3>1. pc'[h] = pc[h] /\ writer[Home(h)] = h
      BY <1>0, <1>5, <2>2 DEF Lock, Goto
    <3>2. Home(h) # Home(g)
      BY <1>5, <3>1, NoOneAssumption DEF Lock, Unlocked
    <3>3. QED
      BY <1>0, <1>5, <3>1, <3>2 DEF Lock
  <2>3. QED
    BY <2>1, <2>2
<1>6. ASSUME NEW g \in Goroutine, Enter(g) PROVE writer'[Home(h)] = h
  <2>1. PICK l \in Label \ {"announced", "closing"} : Goto(g, l)
    BY <1>6 DEF Enter, AfterSend, Label
  <2>2. QED
    BY <1>2, <1>6, <2>1 DEF Enter
<1>7. ASSUME NEW g \in Goroutine, Deliver(g) \/ GiveUp(g) PROVE writer'[Home(h)] = h
  <2>1. AfterSend(g) \in Label \ {"announced", "closing"}
    BY DEF AfterSend, Label
  <2>2. QED
    BY <1>2, <1>7, <2>1 DEF Deliver, GiveUp
<1>8. ASSUME NEW g \in Goroutine, UpdateTables(g) PROVE writer'[Home(h)] = h
  <2>1. PICK l \in Label \ {"announced", "closing"} : Goto(g, l)
    BY <1>8 DEF UpdateTables, Label
  <2>2. QED
    BY <1>3, <1>8, <2>1 DEF UpdateTables, HasLock
<1>9. ASSUME NEW t \in Thread, Nested(t) PROVE writer'[Home(h)] = h
  BY <1>2, <1>9 DEF Nested, Label
<1>10. ASSUME NEW t \in Thread, CloseAgain(t) \/ CloseEnd(t) PROVE writer'[Home(h)] = h
  BY <1>3, <1>10 DEF CloseAgain, CloseEnd, HasLock, Label
<1>11. ASSUME NEW t \in Thread, CloseBegin(t) PROVE writer'[Home(h)] = h
  BY <1>0, <1>11 DEF CloseBegin, HasLock, Goto, lockVars
<1>12. ASSUME NEW p \in Peer, Poll(p) \/ Stop(p) PROVE writer'[Home(h)] = h
  BY <1>2, <1>12 DEF Poll, Stop, lockVars, Label
<1>13. ASSUME NEW p \in Peer, Lookup(p) PROVE writer'[Home(h)] = h
  <2>1. PICK l \in {"top", "rlock"} : Goto(p, l)
    BY <1>13 DEF Lookup
  <2>2. QED
    BY <1>2, <1>13, <2>1 DEF Lookup, lockVars, Label
<1>14. ASSUME NEW p \in Peer, Receive(p) PROVE writer'[Home(h)] = h
  <2>1. PICK l \in {"top", "lock", "lookup"} : Goto(p, l)
    BY <1>14 DEF Receive
  <2>2. QED
    BY <1>2, <1>14, <2>1 DEF Receive, lockVars, Label
<1>15. ASSUME NEW p \in Peer, HandleAbort(p) PROVE writer'[Home(h)] = h
  BY <1>3, <1>15 DEF HandleAbort, HasLock, Label
<1>16. CASE UNCHANGED vars
  BY <1>1, <1>16 DEF vars
<1>17. QED
  BY <1>4, <1>5, <1>6, <1>7, <1>8, <1>9, <1>10, <1>11, <1>12, <1>13, <1>14, <1>15, <1>16
  DEF Next, ThreadStep, LoopStep, Step

\* A step that closes a session has its write lock, so nobody reads.
LEMMA ClosingStep ==
  ASSUME IInv, [Next]_vars, NEW p \in Peer, closed'[p] # closed[p]
  PROVE  ~closed[p] /\ closed'[p] /\ NoReaders(p) /\ UNCHANGED reads
<1>1. closed \in [Peer -> BOOLEAN]
  BY DEF IInv, TypeOK
<1>2. CASE \E t \in Thread : CloseBegin(t)
  BY <1>1, <1>2, HomeType DEF CloseBegin, HasLock, lockVars
<1>3. CASE \E q \in Peer : HandleAbort(q)
  BY <1>1, <1>3, HomeType DEF HandleAbort, HasLock
<1>4. QED
  BY <1>2, <1>3
  DEF Next, ThreadStep, LoopStep, Step, Begin, Lock, Enter, Deliver, UpdateTables, Nested, GiveUp,
      CloseAgain, CloseEnd, Poll, Stop, Receive, Lookup, endVars, vars

\* A session stays open while somebody holds its read lock.
LEMMA ReadersNext == IInv /\ [Next]_vars => ReadersKeepOpen'
<1> SUFFICES ASSUME IInv, [Next]_vars, NEW h \in Goroutine
             PROVE  /\ pc'[h] \in {"nested", "transport"} => reads'[h] > 0
                    /\ reads'[h] > 0 => ~closed'[Home(h)]
  BY DEF ReadersKeepOpen
<1> USE HomeType
<1>0. /\ pc[h] \in {"nested", "transport"} => reads[h] > 0
      /\ reads[h] > 0 => ~closed[Home(h)]
      /\ pc \in [Goroutine -> Label] /\ reads \in [Goroutine -> 0 .. 2]
      /\ closed \in [Peer -> BOOLEAN]
  BY DEF IInv, TypeOK, ReadersKeepOpen
<1> DEFINE Goal == /\ pc'[h] \in {"nested", "transport"} => reads'[h] > 0
                   /\ reads'[h] > 0 => ~closed'[Home(h)]
<1>1. ASSUME NEW g \in Goroutine, NEW l \in Label \ {"nested", "transport"}, Goto(g, l),
             UNCHANGED <<reads, closed>>
      PROVE  Goal
  BY <1>0, <1>1 DEF Goto
<1>2. ASSUME NEW g \in Goroutine, NEW l \in Label, Goto(g, l), UNCHANGED closed,
             NEW n \in 0 .. 2, reads' = [reads EXCEPT ![g] = n],
             n > 0 => ~closed[Home(g)], l \in {"nested", "transport"} => n > 0
      PROVE  Goal
  BY <1>0, <1>2 DEF Goto
<1>3. ASSUME NEW t \in Thread, Begin(t) PROVE Goal
  <2>1. PICK l \in {"rlock", "lock"} : Goto(t, l)
    BY <1>3 DEF Begin
  <2>2. QED
    BY <1>1, <1>3, <2>1 DEF Begin, lockVars, endVars, Label
<1>4. ASSUME NEW g \in Goroutine, Lock(g) PROVE Goal
  BY <1>1, <1>4 DEF Lock, Label, endVars
<1>5. ASSUME NEW g \in Goroutine, Enter(g) PROVE Goal
  <2>1. CASE closed[Home(g)] /\ Goto(g, AfterSend(g)) /\ UNCHANGED reads
    <3>1. AfterSend(g) \in Label \ {"nested", "transport"}
      BY DEF AfterSend, Label
    <3>2. QED
      BY <1>1, <1>5, <2>1, <3>1 DEF Enter, endVars
  <2>2. CASE ~closed[Home(g)] /\ reads' = [reads EXCEPT ![g] = 1]
    <3>1. PICK l \in Label : Goto(g, l)
      BY <1>5, <2>2 DEF Enter, Label, AfterSend
    <3>2. 1 \in 0 .. 2 /\ UNCHANGED closed
      BY <1>5 DEF Enter, endVars
    <3>3. QED
      BY <1>0, <2>2, <3>1, <3>2 DEF Goto
  <2>3. QED
    BY <1>5, <2>1, <2>2 DEF Enter
<1>6. ASSUME NEW g \in Goroutine, Deliver(g) \/ GiveUp(g) PROVE Goal
  <2>1. AfterSend(g) \in Label \ {"nested", "transport"}
    BY DEF AfterSend, Label
  <2>2. QED
    BY <1>2, <1>6, <2>1 DEF Deliver, GiveUp, endVars
<1>7. ASSUME NEW g \in Goroutine, UpdateTables(g) PROVE Goal
  <2>1. PICK l \in Label \ {"nested", "transport"} : Goto(g, l)
    BY <1>7 DEF UpdateTables, Label
  <2>2. QED
    BY <1>1, <1>7, <2>1 DEF UpdateTables, endVars
<1>8. ASSUME NEW t \in Thread, Nested(t) PROVE Goal
  <2>1. ~closed[Home(t)]
    BY <1>8 DEF Nested, IInv, ReadersKeepOpen
  <2>2. /\ 2 \in 0 .. 2 /\ "transport" \in Label
        /\ Goto(t, "transport") /\ reads' = [reads EXCEPT ![t] = 2] /\ UNCHANGED closed
    BY <1>8 DEF Nested, Label, endVars
  <2>3. QED
    BY <1>0, <2>1, <2>2 DEF Goto
<1>9. ASSUME NEW t \in Thread, CloseAgain(t) \/ CloseEnd(t) PROVE Goal
  BY <1>1, <1>9 DEF CloseAgain, CloseEnd, endVars, Label
<1>10. ASSUME UNCHANGED reads, NEW g \in Goroutine, NEW l \in {"closing", "top"}, Goto(g, l) PROVE Goal
  <2>1. closed'[Home(h)] # closed[Home(h)] => reads[h] = 0
    BY ClosingStep DEF NoReaders
  <2>2. QED
    BY <1>0, <1>10, <2>1 DEF Goto
<1>11. ASSUME NEW t \in Thread, CloseBegin(t) PROVE Goal
  BY <1>10, <1>11 DEF CloseBegin, lockVars
<1>12. ASSUME NEW p \in Peer, HandleAbort(p) PROVE Goal
  BY <1>10, <1>12 DEF HandleAbort
<1>13. ASSUME NEW p \in Peer, Poll(p) \/ Stop(p) PROVE Goal
  BY <1>1, <1>13 DEF Poll, Stop, lockVars, endVars, Label
<1>14. ASSUME NEW p \in Peer, Lookup(p) PROVE Goal
  <2>1. PICK l \in {"top", "rlock"} : Goto(p, l)
    BY <1>14 DEF Lookup
  <2>2. QED
    BY <1>1, <1>14, <2>1 DEF Lookup, lockVars, endVars, Label
<1>15. ASSUME NEW p \in Peer, Receive(p) PROVE Goal
  <2>1. PICK l \in {"top", "lock", "lookup"} : Goto(p, l)
    BY <1>15 DEF Receive
  <2>2. QED
    BY <1>1, <1>15, <2>1 DEF Receive, lockVars, endVars, Label
<1>16. CASE UNCHANGED vars
  BY <1>0, <1>16 DEF vars
<1>17. QED
  BY <1>3, <1>4, <1>5, <1>6, <1>7, <1>8, <1>9, <1>11, <1>12, <1>13, <1>14, <1>15, <1>16
  DEF Next, ThreadStep, LoopStep, Step

\* Only CloseBegin and HandleAbort touch closed and closeErr or start closing.
LEMMA QuietSteps ==
  ASSUME IInv, [Next]_vars,
         ~ \E t \in Thread : CloseBegin(t),
         ~ \E p \in Peer : HandleAbort(p)
  PROVE  /\ UNCHANGED <<closed, closeErr>>
         /\ \A h \in Goroutine : pc'[h] = "closing" => pc[h] = "closing"
<1> USE HomeType
<1>1. UNCHANGED <<closed, closeErr>>
  BY DEF Next, ThreadStep, LoopStep, Step, Begin, Lock, Enter, Deliver, UpdateTables, Nested, GiveUp,
         CloseAgain, CloseEnd, Poll, Stop, Receive, Lookup, endVars, vars
<1>2. pc \in [Goroutine -> Label]
  BY DEF IInv, TypeOK
<1>3. ASSUME NEW g \in Goroutine, Step(g) PROVE \A h \in Goroutine : pc'[h] = "closing" => pc[h] = "closing"
  BY <1>2, <1>3 DEF Step, Lock, Enter, Deliver, UpdateTables, Goto, AfterSend
<1>4. ASSUME NEW t \in Thread, Begin(t) \/ ThreadStep(t)
      PROVE  \A h \in Goroutine : pc'[h] = "closing" => pc[h] = "closing"
  <2>1. CASE Begin(t)
    BY <1>2, <2>1 DEF Begin, Goto
  <2>2. CASE Nested(t) \/ GiveUp(t) \/ CloseAgain(t) \/ CloseEnd(t)
    BY <1>2, <2>2 DEF Nested, GiveUp, CloseAgain, CloseEnd, Goto, AfterSend
  <2>3. QED
    BY <1>3, <1>4, <2>1, <2>2 DEF ThreadStep
<1>5. ASSUME NEW p \in Peer, LoopStep(p)
      PROVE  \A h \in Goroutine : pc'[h] = "closing" => pc[h] = "closing"
  <2>1. CASE Poll(p) \/ Stop(p) \/ Receive(p) \/ Lookup(p)
    BY <1>2, <2>1 DEF Poll, Stop, Receive, Lookup, Goto
  <2>2. QED
    BY <1>3, <1>5, <2>1 DEF LoopStep
<1>6. CASE UNCHANGED vars
  BY <1>6 DEF vars
<1>7. QED
  BY <1>1, <1>4, <1>5, <1>6 DEF Next

\* Nobody else is closing while a goroutine of the same session has announced
\* itself.
LEMMA OneWriter ==
  ASSUME IInv, NEW g \in Goroutine, NEW h \in Goroutine, Home(g) = Home(h),
         pc[g] \in {"announced", "closing"}, pc[h] \in {"announced", "closing"}
  PROVE  g = h
BY DEF IInv, WriterIsAnnounced

\* A goroutine in the second half of Close has marked its session closed.
LEMMA CloseMarksNext == IInv /\ [Next]_vars => CloseMarks'
<1> SUFFICES ASSUME IInv, [Next]_vars PROVE CloseMarks'
  OBVIOUS
<1> USE HomeType
<1>0. /\ CloseMarks
      /\ pc \in [Goroutine -> Label]
      /\ closed \in [Peer -> BOOLEAN] /\ closeErr \in [Peer -> {"nil", "aborted"}]
  BY DEF IInv, TypeOK
<1>1. ASSUME NEW t \in Thread, CloseBegin(t) PROVE CloseMarks'
  <2>1. /\ closed' = [closed EXCEPT ![Home(t)] = TRUE] /\ closeErr' = closeErr
        /\ closeErr[Home(t)] = "nil"
        /\ pc' = [pc EXCEPT ![t] = "closing"]
    BY <1>0, <1>1 DEF CloseBegin, CloseMarks, Goto
  <2>2. QED
    BY <1>0, <2>1 DEF CloseMarks
<1>2. ASSUME NEW p \in Peer, HandleAbort(p) PROVE CloseMarks'
  <2>1. /\ closed' = [closed EXCEPT ![p] = TRUE]
        /\ closeErr' = [closeErr EXCEPT ![p] = IF closed[p] THEN closeErr[p] ELSE "aborted"]
        /\ pc' = [pc EXCEPT ![p] = "top"]
        /\ pc[p] = "announced"
    BY <1>2 DEF HandleAbort, Goto, HasLock
  <2>2. \A g \in Goroutine : Home(g) = p => pc[g] # "closing"
    BY <2>1, OneWriter
  <2>3. QED
    BY <1>0, <2>1, <2>2 DEF CloseMarks
<1>3. CASE UNCHANGED <<closed, closeErr>> /\ \A h \in Goroutine : pc'[h] = "closing" => pc[h] = "closing"
  BY <1>0, <1>3 DEF CloseMarks
<1>4. QED
  BY <1>1, <1>2, <1>3, QuietSteps

-----------------------------------------------------------------------------
\* Where aborts come from.
AbortIn(q) == \E k \in DOMAIN inbox[q] : inbox[q][k] = "abort"
HandlingAbort(q) == op[q] = "abort" /\ pc[q] \in {"lock", "announced"}

\* Only sending an abort puts one into a channel.
LEMMA AbortPut ==
  ASSUME TypeOK, NEW p \in Peer, NEW m \in MessageType, Room(p), Put(p, m), NEW q \in Peer
  PROVE  AbortIn(q)' => AbortIn(q) \/ (m = "abort" /\ q = Other(p))
<1>1. q = p \/ q = Other(p)
  BY DEF Peer, Other
<1>2. CASE q = p
  BY <1>2, AppendChannel DEF AbortIn
<1>3. CASE q = Other(p)
  <2>1. inbox[q] \in Seq(MessageType) /\ inbox'[q] = Append(inbox[q], m)
    BY <1>3, AppendChannel DEF TypeOK
  <2>2. \A k \in DOMAIN inbox'[q] : (k \in DOMAIN inbox[q] /\ inbox'[q][k] = inbox[q][k]) \/ inbox'[q][k] = m
    BY <2>1
  <2>3. QED
    BY <1>3, <2>2 DEF AbortIn
<1>4. QED
  BY <1>1, <1>2, <1>3

\* Receiving brings no abort into a channel.
LEMMA AbortTaken ==
  ASSUME TypeOK, NEW p \in Peer, Receive(p), NEW q \in Peer
  PROVE  /\ AbortIn(q)' => AbortIn(q)
         /\ Head(inbox[p]) = "abort" => AbortIn(p)
<1>1. /\ inbox[p] \in Seq(MessageType) /\ inbox[p] # <<>>
      /\ inbox'[p] = Tail(inbox[p]) /\ inbox'[Other(p)] = inbox[Other(p)]
  BY ReceiveChannel
<1>2. 1 \in DOMAIN inbox[p] /\ Head(inbox[p]) = inbox[p][1]
  BY <1>1
<1>3. \A k \in DOMAIN inbox'[p] : k + 1 \in DOMAIN inbox[p] /\ inbox'[p][k] = inbox[p][k + 1]
  BY <1>1
<1>4. AbortIn(p)' => AbortIn(p)
  BY <1>3 DEF AbortIn
<1>5. q = p \/ q = Other(p)
  BY DEF Peer, Other
<1>6. QED
  BY <1>1, <1>2, <1>4, <1>5 DEF AbortIn

\* A step that makes an abort come is the end of a Close on the other side.
LEMMA AbortSource ==
  ASSUME IInv, [Next]_vars, NEW q \in Peer, AbortComing(q)'
  PROVE  AbortComing(q) \/ \E t \in Thread : CloseEnd(t) /\ Home(t) = Other(q)
<1> USE HomeType
<1>0. /\ TypeOK /\ pc \in [Goroutine -> Label]
      /\ op \in [Goroutine -> Operation \cup MessageType \cup {"none"}]
      /\ AbortComing(q) <=> AbortIn(q) \/ HandlingAbort(q)
      /\ AbortIn(q)' \/ HandlingAbort(q)'
  BY DEF IInv, TypeOK, AbortComing, AbortIn, HandlingAbort
<1>1. ASSUME UNCHANGED inbox, NEW g \in Goroutine, NEW l \in Label, Goto(g, l),
             UNCHANGED op \/ g \in Thread,
             \A h \in Peer : op'[h] = op[h],
             g \in Peer /\ op[g] = "abort" /\ l \in {"lock", "announced"} => pc[g] \in {"lock", "announced"}
      PROVE  AbortComing(q)
  BY <1>0, <1>1 DEF AbortIn, HandlingAbort, Goto
<1>2. ASSUME NEW t \in Thread, Begin(t) PROVE AbortComing(q)
  <2>1. PICK l \in {"rlock", "lock"} : Goto(t, l)
    BY <1>2 DEF Begin
  <2>2. \A h \in Peer : op'[h] = op[h]
    BY <1>0, <1>2 DEF Begin
  <2>3. QED
    BY <1>1, <1>2, <2>1, <2>2 DEF Begin, Label
<1>3. ASSUME NEW g \in Goroutine, Lock(g) PROVE AbortComing(q)
  BY <1>1, <1>3 DEF Lock, Label
<1>4. ASSUME NEW g \in Goroutine, Enter(g) PROVE AbortComing(q)
  <2>1. PICK l \in Label : Goto(g, l) /\ (g \in Peer /\ l = "lock" => op[g] = "pulltarget") /\ l # "announced"
    BY <1>4 DEF Enter, Label, AfterSend, ExportsWhileSending
  <2>2. UNCHANGED op /\ UNCHANGED inbox
    BY <1>4 DEF Enter
  <2>3. QED
    BY <1>1, <2>1, <2>2
<1>5. ASSUME NEW g \in Goroutine, Deliver(g) PROVE AbortComing(q)
  <2>1. PICK m \in MessageType : Put(Home(g), m) /\ m # "abort"
    BY <1>5, MessageOfType DEF Deliver, MessageType
  <2>2. AbortIn(q)' => AbortIn(q)
    BY <1>0, <1>5, <2>1, AbortPut DEF Deliver
  <2>3. HandlingAbort(q)' => HandlingAbort(q)
    BY <1>0, <1>5 DEF Deliver, HandlingAbort, Goto, AfterSend
  <2>4. QED
    BY <1>0, <2>2, <2>3
<1>6. ASSUME NEW g \in Goroutine, UpdateTables(g) PROVE AbortComing(q)
  <2>1. PICK l \in Label : Goto(g, l) /\ l \notin {"lock", "announced"}
    BY <1>6 DEF UpdateTables, Label
  <2>2. UNCHANGED op /\ UNCHANGED inbox
    BY <1>6 DEF UpdateTables
  <2>3. QED
    BY <1>1, <2>1, <2>2
<1>7. ASSUME NEW t \in Thread, Nested(t) \/ CloseAgain(t) \/ CloseBegin(t) PROVE AbortComing(q)
  BY <1>1, <1>7 DEF Nested, CloseAgain, CloseBegin, Label
<1>8. ASSUME NEW t \in Thread, GiveUp(t) PROVE AbortComing(q)
  <2>1. AfterSend(t) \in Label
    BY DEF AfterSend, Label
  <2>2. QED
    BY <1>1, <1>8, <2>1 DEF GiveUp
<1>9. ASSUME NEW t \in Thread, CloseEnd(t) PROVE AbortComing(q) \/ Home(t) = Other(q)
  <2>1. HandlingAbort(q)' => HandlingAbort(q)
    BY <1>0, <1>9 DEF CloseEnd, HandlingAbort, Goto
  <2>2. CASE UNCHANGED inbox
    BY <1>0, <2>1, <2>2 DEF AbortIn
  <2>3. CASE Room(Home(t)) /\ Put(Home(t), "abort")
    <3>1. "abort" \in MessageType
      BY DEF MessageType
    <3>2. AbortIn(q)' => AbortIn(q) \/ q = Other(Home(t))
      BY <1>0, <2>3, <3>1, AbortPut
    <3>3. QED
      BY <1>0, <2>1, <3>2, OtherPeer
  <2>4. QED
    BY <1>9, <2>2, <2>3 DEF CloseEnd
<1>10. ASSUME NEW p \in Peer, Poll(p) \/ Stop(p) \/ HandleAbort(p) PROVE AbortComing(q)
  BY <1>1, <1>10 DEF Poll, Stop, HandleAbort, Label
<1>11. ASSUME NEW p \in Peer, Lookup(p) PROVE AbortComing(q)
  <2>1. PICK l \in {"top", "rlock"} : Goto(p, l)
    BY <1>11 DEF Lookup
  <2>2. QED
    BY <1>1, <1>11, <2>1 DEF Lookup, Label
<1>12. ASSUME NEW p \in Peer, Receive(p) PROVE AbortComing(q)
  <2>1. AbortIn(q)' => AbortIn(q)
    BY <1>0, <1>12, AbortTaken
  <2>2. HandlingAbort(q)' => HandlingAbort(q) \/ (q = p /\ Head(inbox[p]) = "abort")
    BY <1>0, <1>12 DEF Receive, HandlingAbort, Goto
  <2>3. QED
    BY <1>0, <1>12, <2>1, <2>2, AbortTaken
<1>13. CASE UNCHANGED vars
  BY <1>0, <1>13 DEF vars, AbortIn, HandlingAbort
<1>14. QED
  BY <1>2, <1>3, <1>4, <1>5, <1>6, <1>7, <1>8, <1>9, <1>10, <1>11, <1>12, <1>13
  DEF Next, ThreadStep, LoopStep, Step

\* An abort comes only from a session that was closed by its own side.
LEMMA AbortComesNext == IInv /\ [Next]_vars => AbortComesFromClose'
<1> SUFFICES ASSUME IInv, [Next]_vars, NEW p \in Peer, AbortComing(Other(p))'
             PROVE  /\ closed'[p] /\ closeErr'[p] = "nil"
                    /\ \A g \in Goroutine : Home(g) = p => pc'[g] # "closing"
  BY DEF AbortComesFromClose
<1> USE HomeType
<1>0. /\ pc \in [Goroutine -> Label]
      /\ closed \in [Peer -> BOOLEAN] /\ closeErr \in [Peer -> {"nil", "aborted"}]
      /\ Other(p) \in Peer /\ Other(Other(p)) = p
  BY OtherPeer DEF IInv, TypeOK
<1>1. CASE AbortComing(Other(p))
  <2>1. /\ closed[p] /\ closeErr[p] = "nil"
        /\ \A g \in Goroutine : Home(g) = p => pc[g] # "closing"
    BY <1>1 DEF IInv, AbortComesFromClose
  <2>2. CASE UNCHANGED <<closed, closeErr>> /\ \A h \in Goroutine : pc'[h] = "closing" => pc[h] = "closing"
    BY <2>1, <2>2
  <2>3. ASSUME NEW t \in Thread, CloseBegin(t)
        PROVE  /\ closed'[p] /\ closeErr'[p] = "nil"
               /\ \A g \in Goroutine : Home(g) = p => pc'[g] # "closing"
    BY <1>0, <2>1, <2>3 DEF CloseBegin, Goto
  <2>4. ASSUME NEW r \in Peer, HandleAbort(r)
        PROVE  /\ closed'[p] /\ closeErr'[p] = "nil"
               /\ \A g \in Goroutine : Home(g) = p => pc'[g] # "closing"
    BY <1>0, <2>1, <2>4 DEF HandleAbort, Goto
  <2>5. QED
    BY <2>2, <2>3, <2>4, QuietSteps
<1>2. ASSUME NEW t \in Thread, CloseEnd(t), Home(t) = p
      PROVE  /\ closed'[p] /\ closeErr'[p] = "nil"
             /\ \A g \in Goroutine : Home(g) = p => pc'[g] # "closing"
  <2>1. pc[t] = "closing" /\ UNCHANGED <<closed, closeErr>> /\ pc' = [pc EXCEPT ![t] = "done"]
    BY <1>2 DEF CloseEnd, Goto
  <2>2. closed[p] /\ closeErr[p] = "nil"
    BY <1>2, <2>1 DEF IInv, CloseMarks
  <2>3. \A g \in Goroutine : Home(g) = p /\ pc[g] = "closing" => g = t
    BY <1>2, <2>1, OneWriter
  <2>4. QED
    BY <1>0, <2>1, <2>2, <2>3
<1>3. QED
  BY <1>0, <1>1, <1>2, AbortSource

\* Nothing is put behind an abort.
LEMMA AbortIsLastNext == IInv /\ [Next]_vars => AbortIsLast'
<1> SUFFICES ASSUME IInv, [Next]_vars, NEW q \in Peer, NEW k \in DOMAIN inbox'[q],
                    inbox'[q][k] = "abort"
             PROVE  k = Len(inbox'[q])
  BY DEF AbortIsLast
<1> USE HomeType
<1>0. /\ TypeOK /\ inbox[q] \in Seq(MessageType)
      /\ \A j \in DOMAIN inbox[q] : inbox[q][j] = "abort" => j = Len(inbox[q])
      /\ Other(q) \in Peer /\ Other(Other(q)) = q
  BY OtherPeer DEF IInv, TypeOK, AbortIsLast
<1>1. CASE inbox'[q] = inbox[q]
  BY <1>0, <1>1
<1>2. ASSUME NEW g \in Goroutine, NEW m \in MessageType, Room(Home(g)), Put(Home(g), m),
             AbortIn(q) => q # Other(Home(g))
      PROVE  k = Len(inbox'[q])
  <2>1. CASE q = Home(g)
    BY <1>0, <1>1, <1>2, <2>1, AppendChannel
  <2>2. CASE q # Home(g)
    <3>1. q = Other(Home(g))
      BY <2>2 DEF Peer, Other
    <3>2. inbox'[q] = Append(inbox[q], m) /\ ~AbortIn(q)
      BY <1>0, <1>2, <3>1, AppendChannel
    <3>3. (k \in DOMAIN inbox[q] /\ inbox'[q][k] = inbox[q][k]) \/ k = Len(inbox'[q])
      BY <1>0, <3>2
    <3>4. QED
      BY <3>2, <3>3 DEF AbortIn
  <2>3. QED
    BY <2>1, <2>2
<1>3. ASSUME NEW g \in Goroutine, Deliver(g) PROVE k = Len(inbox'[q])
  <2>1. PICK m \in MessageType : Put(Home(g), m)
    BY <1>3, MessageOfType DEF Deliver, MessageType
  <2>2. ~closed[Home(g)]
    BY <1>3 DEF Deliver, IInv, ReadersKeepOpen
  <2>3. AbortIn(q) => q # Other(Home(g))
    BY <2>2 DEF IInv, AbortComesFromClose, AbortComing, AbortIn
  <2>4. QED
    BY <1>2, <1>3, <2>1, <2>3 DEF Deliver
<1>4. ASSUME NEW t \in Thread, CloseEnd(t) PROVE k = Len(inbox'[q])
  <2>1. AbortIn(q) => q # Other(Home(t))
    BY <1>4 DEF CloseEnd, IInv, AbortComesFromClose, AbortComing, AbortIn
  <2>2. "abort" \in MessageType
    BY DEF MessageType
  <2>3. QED
    BY <1>1, <1>2, <1>4, <2>1, <2>2 DEF CloseEnd
<1>5. ASSUME NEW p \in Peer, Receive(p) PROVE k = Len(inbox'[q])
  <2>1. CASE q = p
    <3>1. inbox'[q] = Tail(inbox[q]) /\ inbox[q] # <<>>
      BY <1>0, <1>5, <2>1, ReceiveChannel
    <3>2. k + 1 \in DOMAIN inbox[q] /\ inbox'[q][k] = inbox[q][k + 1] /\ Len(inbox'[q]) = Len(inbox[q]) - 1
      BY <1>0, <3>1
    <3>3. QED
      BY <1>0, <3>2
  <2>2. CASE q # p
    BY <1>1, <1>5, <2>2 DEF Receive
  <2>3. QED
    BY <2>1, <2>2
<1>6. CASE UNCHANGED inbox
  BY <1>1, <1>6
<1>7. QED
  BY <1>3, <1>4, <1>5, <1>6
  DEF Next, ThreadStep, LoopStep, Step, Begin, Lock, Enter, UpdateTables, Nested, GiveUp,
      CloseAgain, CloseBegin, Poll, Stop, Lookup, HandleAbort, vars

\* Every step keeps the invariant.
LEMMA InvNext == IInv /\ [Next]_vars => IInv'
<1>1. IInv => TypeOK
  BY DEF IInv
<1>2. QED
  BY <1>1, TypeNext, WriterNext, ReadersNext, CloseMarksNext, AbortComesNext, AbortIsLastNext DEF IInv

\* The invariant holds throughout every behaviour.
LEMMA Invariant == Safe => []IInv
BY InvInit, InvNext, PTL DEF Safe

(***************************************************************************)
(* Type correctness (session.go:12-45).                                     *)
(***************************************************************************)
THEOREM TypeCorrect == Safe => []TypeOK
<1>1. IInv => TypeOK
  BY DEF IInv
<1>2. QED
  BY <1>1, Invariant, PTL

(***************************************************************************)
(* The closed check of Send still holds when the transport takes the        *)
(* message, however many calls, closes and aborts interleave with it        *)
(* (session.go:246-264).                                                    *)
(***************************************************************************)
THEOREM SendNeverStale == Safe => []SendSeesOpen
<1>1. IInv => SendSeesOpen
  BY DEF IInv, ReadersKeepOpen, SendSeesOpen
<1>2. QED
  BY <1>1, Invariant, PTL

(***************************************************************************)
(* No message follows an abort on the wire (session.go:204-264).            *)
(***************************************************************************)
THEOREM AbortEndsStream == Safe => []AbortIsLast
<1>1. IInv => AbortIsLast
  BY DEF IInv
<1>2. QED
  BY <1>1, Invariant, PTL

-----------------------------------------------------------------------------
(***************************************************************************)
(* Refinement of SessionLifecycle: a step of the code is one of its steps   *)
(* or a stutter.                                                            *)
(***************************************************************************)
LEMMA StepRefines == IInv /\ IInv' /\ [Next]_vars => [Lifecycle!Next]_(Lifecycle!vars)
<1> SUFFICES ASSUME IInv, IInv', [Next]_vars
             PROVE  Lifecycle!Next \/ UNCHANGED Lifecycle!vars
  BY DEF Lifecycle!Next, Lifecycle!vars
<1> USE HomeType
<1> DEFINE stopped == [p \in Peer |-> pc[p] = "stopped"]
<1>0. /\ pc \in [Goroutine -> Label]
      /\ closed \in [Peer -> BOOLEAN] /\ closeErr \in [Peer -> {"nil", "aborted"}]
      /\ Lifecycle!Peer = Peer /\ \A p \in Peer : Lifecycle!Other(p) = Other(p)
  BY DEF IInv, TypeOK, Lifecycle!Peer, Peer, Lifecycle!Other, Other
<1>1. ASSUME UNCHANGED <<closed, closeErr>>, \A p \in Peer : (pc'[p] = "stopped") = (pc[p] = "stopped")
      PROVE  UNCHANGED Lifecycle!vars
  BY <1>1 DEF Lifecycle!vars
<1>2. ASSUME NEW g \in Goroutine, NEW l \in Label \ {"stopped"}, Goto(g, l), pc[g] # "stopped"
      PROVE  \A p \in Peer : (pc'[p] = "stopped") = (pc[p] = "stopped")
  BY <1>0, <1>2 DEF Goto
<1>3. ASSUME NEW t \in Thread, CloseBegin(t) PROVE Lifecycle!Next
  <2>1. \A p \in Peer : (pc'[p] = "stopped") = (pc[p] = "stopped")
    BY <1>2, <1>3 DEF CloseBegin, HasLock, Label
  <2>2. Lifecycle!CloseLocally(Home(t))
    BY <1>3, <2>1 DEF CloseBegin, Lifecycle!CloseLocally
  <2>3. QED
    BY <1>0, <2>2 DEF Lifecycle!Next
<1>4. ASSUME NEW p \in Peer, HandleAbort(p) PROVE Lifecycle!Next \/ UNCHANGED Lifecycle!vars
  <2>1. \A q \in Peer : (pc'[q] = "stopped") = (pc[q] = "stopped")
    BY <1>2, <1>4 DEF HandleAbort, HasLock, Label
  <2>2. CASE closed[p]
    <3>1. UNCHANGED <<closed, closeErr>>
      BY <1>0, <1>4, <2>2 DEF HandleAbort
    <3>2. QED
      BY <1>1, <2>1, <3>1
  <2>3. CASE ~closed[p]
    <3>1. closed[Other(p)] /\ closeErr[Other(p)] = "nil"
      <4>1. AbortComing(p) /\ Other(p) \in Peer /\ Other(Other(p)) = p
        BY <1>4, OtherPeer DEF HandleAbort, HasLock, AbortComing
      <4>2. QED
        BY <4>1 DEF IInv, AbortComesFromClose
    <3>2. /\ closed' = [closed EXCEPT ![p] = TRUE]
          /\ closeErr' = [closeErr EXCEPT ![p] = "aborted"]
      BY <1>0, <1>4, <2>3 DEF HandleAbort
    <3>3. Lifecycle!CloseOnAbort(p)
      BY <1>0, <2>1, <2>3, <3>1, <3>2 DEF Lifecycle!CloseOnAbort
    <3>4. QED
      BY <1>0, <3>3 DEF Lifecycle!Next
  <2>4. QED
    BY <2>2, <2>3
<1>5. ASSUME NEW p \in Peer, Stop(p) PROVE Lifecycle!Next
  <2>1. /\ stopped' = [stopped EXCEPT ![p] = TRUE]
        /\ closed[p] /\ ~stopped[p] /\ UNCHANGED <<closed, closeErr>>
    BY <1>0, <1>5 DEF Stop, Goto, endVars
  <2>2. Lifecycle!Stop(p)
    BY <2>1 DEF Lifecycle!Stop
  <2>3. QED
    BY <1>0, <2>2 DEF Lifecycle!Next
<1>6. ASSUME NEW g \in Goroutine, Step(g) PROVE UNCHANGED Lifecycle!vars
  <2>1. PICK l \in Label \ {"stopped"} : Goto(g, l)
    <3>1. CASE Lock(g)
      BY <3>1 DEF Lock, Label
    <3>2. CASE Enter(g)
      BY <3>2 DEF Enter, Label, AfterSend
    <3>3. CASE Deliver(g)
      BY <3>3 DEF Deliver, Label, AfterSend
    <3>4. CASE UpdateTables(g)
      BY <3>4 DEF UpdateTables, Label
    <3>5. QED
      BY <1>6, <3>1, <3>2, <3>3, <3>4 DEF Step
  <2>2. pc[g] # "stopped" /\ UNCHANGED <<closed, closeErr>>
    BY <1>6 DEF Step, Lock, Enter, Deliver, UpdateTables, HasLock, endVars
  <2>3. QED
    BY <1>1, <1>2, <2>1, <2>2
<1>7. ASSUME NEW t \in Thread, Begin(t) \/ Nested(t) \/ GiveUp(t) \/ CloseAgain(t) \/ CloseEnd(t)
      PROVE  UNCHANGED Lifecycle!vars
  <2>1. UNCHANGED <<closed, closeErr>>
    BY <1>7 DEF Begin, Nested, GiveUp, CloseAgain, CloseEnd, endVars
  <2>2. \A p \in Peer : pc'[p] = pc[p]
    BY <1>0, <1>7 DEF Begin, Nested, GiveUp, CloseAgain, CloseEnd, Goto
  <2>3. QED
    BY <1>1, <2>1, <2>2
<1>8. ASSUME NEW p \in Peer, Poll(p) \/ Receive(p) \/ Lookup(p) PROVE UNCHANGED Lifecycle!vars
  <2>1. PICK l \in {"top", "receive", "lock", "lookup", "rlock"} : Goto(p, l)
    BY <1>8 DEF Poll, Receive, Lookup
  <2>2. l \in Label \ {"stopped"}
    BY <2>1 DEF Label
  <2>3. pc[p] # "stopped" /\ UNCHANGED <<closed, closeErr>>
    BY <1>8 DEF Poll, Receive, Lookup, endVars
  <2>4. QED
    BY <1>1, <1>2, <2>1, <2>2, <2>3
<1>9. CASE UNCHANGED vars
  BY <1>1, <1>9 DEF vars
<1>10. QED
  BY <1>3, <1>4, <1>5, <1>6, <1>7, <1>8, <1>9 DEF Next, ThreadStep, LoopStep

(***************************************************************************)
(* Two sessions with all their goroutines end as SessionLifecycle allows:   *)
(* each closes once, keeps the reason it closed for, and reports an abort   *)
(* only after the other side's own Close (session.go:204-243, 520-535).     *)
(***************************************************************************)
THEOREM LifecycleRefined == Safe => Lifecycle!Init /\ [][Lifecycle!Next]_(Lifecycle!vars)
<1>1. Init => Lifecycle!Init
  BY HomeType DEF Init, Lifecycle!Init, Lifecycle!Peer, Peer
<1>2. QED
  BY <1>1, Invariant, StepRefines, PTL DEF Safe
=============================================================================
