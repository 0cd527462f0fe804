-------------------------- MODULE SessionRefs_proofs --------------------------
(***************************************************************************)
(* Proofs about SessionRefs, for every set of stubs, every number of        *)
(* exports and every channel capacity.                                      *)
(***************************************************************************)
EXTENDS SessionRefs, FiniteSetTheorems, TLAPS

(***************************************************************************)
(* Sending and receiving keep the channels well typed and within capacity.  *)
(***************************************************************************)
LEMMA OtherPeer == \A p \in Peer : Other(p) \in Peer /\ Other(p) # p /\ Other(Other(p)) = p
  BY DEF Other, Peer

\* Appending to a channel that has room.
LEMMA AppendType ==
  ASSUME TypeOK, NEW q \in Peer, NEW m \in Message,
         Len(inbox[q]) < Cap,
         inbox' = [inbox EXCEPT ![q] = Append(@, m)]
  PROVE  /\ inbox' \in [Peer -> Seq(Message)]
         /\ \A r \in Peer : Len(inbox'[r]) <= Cap
<1>1. inbox[q] \in Seq(Message) /\ Len(inbox[q]) \in Nat
  BY DEF TypeOK
<1>2. /\ Append(inbox[q], m) \in Seq(Message)
      /\ Len(Append(inbox[q], m)) = Len(inbox[q]) + 1
  BY <1>1
<1>3. QED
  BY <1>1, <1>2, BoundAssumption DEF TypeOK

\* What Send does to the channels.
LEMMA SendType ==
  ASSUME TypeOK, NEW p \in Peer, NEW m \in Message, Send(p, m)
  PROVE  /\ inbox' \in [Peer -> Seq(Message)]
         /\ \A q \in Peer : Len(inbox'[q]) <= Cap
<1>1. CASE closed[p] /\ UNCHANGED inbox
  BY <1>1 DEF TypeOK
<1>2. CASE /\ Len(inbox[Other(p)]) < Cap
           /\ inbox' = [inbox EXCEPT ![Other(p)] = Append(@, m)]
  BY <1>2, OtherPeer, AppendType
<1>3. QED
  BY <1>1, <1>2 DEF Send

\* What receiving does to the channels and to the loop.
LEMMA ReceiveType ==
  ASSUME TypeOK, NEW p \in Peer, NEW stop \in BOOLEAN, Receive(p, stop)
  PROVE  /\ inbox' \in [Peer -> Seq(Message)]
         /\ \A q \in Peer : Len(inbox'[q]) <= Cap
         /\ looping' \in [Peer -> BOOLEAN]
         /\ Head(inbox[p]) \in Message
<1>1. inbox[p] \in Seq(Message) /\ inbox[p] # <<>>
  BY DEF TypeOK, Receive
<1>2. Head(inbox[p]) \in Message /\ Tail(inbox[p]) \in Seq(Message)
      /\ Len(Tail(inbox[p])) = Len(inbox[p]) - 1
  BY <1>1
<1>3. QED
  BY <1>2, BoundAssumption DEF TypeOK, Receive

\* The initial tables have their types.
LEMMA InitType == Init => TypeOK
  BY BoundAssumption
  DEF Init, TypeOK, FreeSlot, StubRecord, StubState, Peer, ExportId, NoId

\* exportValue keeps the types of its table.
LEMMA AddExportType ==
  ASSUME TypeOK, NEW p \in Peer, AddExport(p)
  PROVE  /\ exports' \in [Peer -> [ExportId -> Nat]]
         /\ nextExportID' \in [Peer -> 0 .. MaxExports]
         /\ exportsActive' \in [Peer -> Int]
<1>1. /\ nextExportID[p] + 1 \in ExportId
      /\ nextExportID' = [nextExportID EXCEPT ![p] = nextExportID[p] + 1]
      /\ exports' = [exports EXCEPT ![p][nextExportID[p] + 1] = 1]
      /\ exportsActive' = [exportsActive EXCEPT ![p] = @ + 1]
  BY DEF AddExport
<1>2. exports' \in [Peer -> [ExportId -> Nat]]
  BY <1>1 DEF TypeOK
<1>3. nextExportID' \in [Peer -> 0 .. MaxExports]
  <2>1. nextExportID[p] + 1 \in 0 .. MaxExports
    BY <1>1, BoundAssumption DEF ExportId, TypeOK
  <2>2. QED
    BY <1>1, <2>1 DEF TypeOK
<1>4. exportsActive' \in [Peer -> Int]
  BY <1>1 DEF TypeOK
<1>5. QED
  BY <1>2, <1>3, <1>4

\* A new stub is well formed.
LEMMA NewStubType ==
  ASSUME TypeOK, NEW s \in Stub, NEW p \in Peer, NEW i \in ExportId, NewStub(s, p, i)
  PROVE  /\ stubs' \in [Stub -> StubRecord]
         /\ \A t \in Stub : stubs'[t].state # "free" => stubs'[t].id \in ExportId
  BY DEF TypeOK, NewStub, LiveStub, StubRecord, StubState

\* What can be mentioned in a message is an ID or nothing.
LEMMA MentionableType ==
  ASSUME TypeOK, NEW p \in Peer, NEW r \in Mentionable(p)
  PROVE  r \in ExportId \cup {NoId}
<1>1. CASE r = NoId
  BY <1>1
<1>2. CASE r \in 1 .. nextExportID[p]
  <2>1. nextExportID[p] \in 0 .. MaxExports
    BY DEF TypeOK
  <2>2. QED
    BY <1>2, <2>1, BoundAssumption DEF ExportId
<1>3. ASSUME NEW s \in Stub, LiveAt(s, p), r = stubs[s].id
      PROVE  r \in ExportId
  BY <1>3 DEF LiveAt, TypeOK
<1>4. QED
  BY <1>1, <1>2, <1>3 DEF Mentionable

\* Every step keeps the types.
LEMMA NextType == TypeOK /\ [Next]_vars => TypeOK'
<1> SUFFICES ASSUME TypeOK, [Next]_vars PROVE TypeOK'
  OBVIOUS
<1>1. ASSUME NEW p \in Peer, ExportValue(p) PROVE TypeOK'
  BY <1>1, AddExportType DEF TypeOK, ExportValue
<1>2. ASSUME NEW p \in Peer, NEW r \in Mentionable(p), SendRequest(p, r) PROVE TypeOK'
  <2>1. Push(r) \in Message
    BY MentionableType DEF Push, Message
  <2>2. QED
    BY <1>2, <2>1, SendType DEF TypeOK, SendRequest, tables
<1>3. ASSUME NEW p \in Peer, NEW s \in Stub, NEW r \in Mentionable(p), Call(p, s, r)
      PROVE  TypeOK'
  <2>1. Push(r) \in Message
    BY MentionableType DEF Push, Message
  <2>2. QED
    BY <1>3, <2>1, SendType, AddExportType DEF TypeOK, Call
<1>4. ASSUME NEW p \in Peer, NEW i \in ExportId, NEW s \in Stub, FactoryStub(p, i, s)
      PROVE  TypeOK'
  BY <1>4, NewStubType DEF TypeOK, FactoryStub, tables
<1>5. ASSUME NEW p \in Peer, NEW t \in Stub, NEW s \in Stub, ImportTarget(p, t, s)
      PROVE  TypeOK'
  <2>1. stubs[t].id \in ExportId
    BY <1>5 DEF TypeOK, ImportTarget, LiveAt
  <2>2. QED
    BY <1>5, <2>1, NewStubType DEF TypeOK, ImportTarget, AddImport
<1>6. ASSUME NEW s \in Stub, NEW t \in Stub, Clone(s, t) PROVE TypeOK'
  <2>1. stubs[s].id \in ExportId /\ stubs[s].at \in Peer
    BY <1>6 DEF TypeOK, Clone, StubRecord
  <2>2. QED
    BY <1>6, <2>1, NewStubType DEF TypeOK, Clone
<1>7. ASSUME NEW s \in Stub, NEW t \in Stub, GetProperty(s, t) PROVE TypeOK'
  <2>1. stubs[s].id \in ExportId /\ stubs[s].at \in Peer
    BY <1>7 DEF TypeOK, GetProperty, StubRecord
  <2>2. QED
    BY <1>7, <2>1, NewStubType DEF TypeOK, GetProperty, tables
<1>8. ASSUME NEW s \in Stub, Dispose(s) PROVE TypeOK'
  <2>1. stubs[s].id \in ExportId /\ stubs[s].at \in Peer
    BY <1>8 DEF TypeOK, Dispose, StubRecord
  <2>2. Release(stubs[s].id) \in Message
    BY <2>1 DEF Release, Message
  <2>3. /\ stubs' \in [Stub -> StubRecord]
        /\ \A t \in Stub : stubs'[t].state # "free" => stubs'[t].id \in ExportId
    BY <1>8, <2>1 DEF TypeOK, Dispose, StubRecord, StubState
  <2>4. QED
    BY <1>8, <2>1, <2>2, <2>3, SendType DEF TypeOK, Dispose, tables
<1>9. ASSUME NEW s \in Stub, DropImport(s) PROVE TypeOK'
  <2>1. stubs[s].id \in ExportId /\ stubs[s].at \in Peer
    BY <1>9 DEF TypeOK, DropImport, StubRecord
  <2>2. /\ stubs' \in [Stub -> StubRecord]
        /\ \A t \in Stub : stubs'[t].state # "free" => stubs'[t].id \in ExportId
    BY <1>9, <2>1 DEF TypeOK, DropImport, StubRecord, StubState
  <2>3. QED
    BY <1>9, <2>1, <2>2, SMTT(40) DEF TypeOK, DropImport
<1>10. ASSUME NEW p \in Peer, Close(p) PROVE TypeOK'
  <2>1. Abort \in Message
    BY DEF Abort, Message
  <2>2. CASE UNCHANGED inbox
    BY <1>10, <2>2 DEF TypeOK, Close, tables
  <2>3. CASE /\ Len(inbox[Other(p)]) < Cap
             /\ inbox' = [inbox EXCEPT ![Other(p)] = Append(@, Abort)]
    <3>1. /\ inbox' \in [Peer -> Seq(Message)]
          /\ \A q \in Peer : Len(inbox'[q]) <= Cap
      BY <2>1, <2>3, OtherPeer, AppendType
    <3>2. QED
      BY <1>10, <3>1 DEF TypeOK, Close, tables
  <2>4. QED
    BY <1>10, <2>2, <2>3 DEF Close
<1>11. ASSUME NEW p \in Peer, HandlePush(p) PROVE TypeOK'
  <2>1. closed[p] \in BOOLEAN
    BY DEF TypeOK
  <2>2. CASE Head(inbox[p]).id = NoId /\ UNCHANGED <<imports, importsActive, stubs>>
    BY <1>11, <2>1, <2>2, ReceiveType DEF TypeOK, HandlePush
  <2>3. CASE /\ Head(inbox[p]).id # NoId
             /\ \E s \in Stub : NewStub(s, p, Head(inbox[p]).id)
             /\ AddImport(p, Head(inbox[p]).id)
    <3>1. Head(inbox[p]).id \in ExportId
      BY <1>11, <2>1, <2>3, ReceiveType DEF HandlePush, Message, Abort, NoId
    <3>2. QED
      BY <1>11, <2>1, <2>3, <3>1, ReceiveType, NewStubType, SMTT(40) DEF TypeOK, HandlePush, AddImport
  <2>4. QED
    BY <1>11, <2>2, <2>3 DEF HandlePush
<1>12. ASSUME NEW p \in Peer, HandleRelease(p) PROVE TypeOK'
  <2>1. closed[p] \in BOOLEAN
    BY DEF TypeOK
  <2>2. exports' \in [Peer -> [ExportId -> Nat]]
    <3> DEFINE i == Head(inbox[p]).id
    <3>1. exports' = [exports EXCEPT ![p][i] = IF @ > 0 THEN @ - 1 ELSE @]
      BY <1>12 DEF HandleRelease
    <3>2. CASE i \in ExportId
      <4>1. (IF exports[p][i] > 0 THEN exports[p][i] - 1 ELSE exports[p][i]) \in Nat
        BY <3>2 DEF TypeOK
      <4>2. QED
        BY <3>1, <3>2, <4>1 DEF TypeOK
    <3>3. CASE i \notin ExportId
      BY <3>1, <3>3 DEF TypeOK
    <3>4. QED
      BY <3>2, <3>3
  <2>3. exportsActive' \in [Peer -> Int]
    BY <1>12 DEF TypeOK, HandleRelease
  <2>4. QED
    BY <1>12, <2>1, <2>2, <2>3, ReceiveType DEF TypeOK, HandleRelease
<1>13. ASSUME NEW p \in Peer, HandleAbort(p) PROVE TypeOK'
  BY <1>13, ReceiveType DEF TypeOK, HandleAbort, tables
<1>14. ASSUME NEW p \in Peer, StopLoop(p) PROVE TypeOK'
  BY <1>14 DEF TypeOK, StopLoop, tables
<1>15. CASE UNCHANGED vars
  BY <1>15 DEF TypeOK, vars
<1>16. QED
  BY <1>1, <1>2, <1>3, <1>4, <1>5, <1>6, <1>7, <1>8, <1>9, <1>10, <1>11, <1>12,
     <1>13, <1>14, <1>15 DEF Next, PeerStep, StubStep

(***************************************************************************)
(* Type correctness: tables, stubs and channels keep their types, and no    *)
(* channel ever holds more than Cap messages (session.go:12-45).            *)
(***************************************************************************)
THEOREM TypeCorrect == Spec => []TypeOK
  BY InitType, NextType, PTL DEF Spec

-----------------------------------------------------------------------------
(***************************************************************************)
(* How the sets of stubs that hold, or have released, an ID change.         *)
(***************************************************************************)
LEMMA StubSetsFinite ==
  ASSUME NEW p, NEW i
  PROVE  /\ IsFiniteSet(Holding(p, i)) /\ Cardinality(Holding(p, i)) \in Nat
         /\ IsFiniteSet(Released(p, i)) /\ Cardinality(Released(p, i)) \in Nat
<1>1. Holding(p, i) \in SUBSET Stub /\ Released(p, i) \in SUBSET Stub
  BY DEF Holding, Released, StubsOf
<1>2. IsFiniteSet(Holding(p, i)) /\ IsFiniteSet(Released(p, i))
  BY <1>1, FS_Subset, StubAssumption
<1>3. QED
  BY <1>2, FS_CardinalityType

\* A new stub is one more holder of its ID.
LEMMA NewStubSets ==
  ASSUME TypeOK, NEW s \in Stub, NEW p \in Peer, NEW i \in ExportId, NewStub(s, p, i),
         NEW q \in Peer, NEW j \in ExportId
  PROVE  /\ Released(q, j)' = Released(q, j)
         /\ Cardinality(Holding(q, j)') =
              IF q = p /\ j = i THEN Cardinality(Holding(q, j)) + 1
                                ELSE Cardinality(Holding(q, j))
<1>1. /\ stubs[s].state = "free"
      /\ stubs' = [stubs EXCEPT ![s] = [state |-> "live", at |-> p, id |-> i]]
  BY DEF NewStub, LiveStub
<1>2. \A t \in Stub : stubs'[t] = IF t = s THEN [state |-> "live", at |-> p, id |-> i]
                                          ELSE stubs[t]
  BY <1>1 DEF TypeOK
<1>3. Released(q, j)' = Released(q, j)
  BY <1>1, <1>2 DEF Released, StubsOf
<1>4. s \notin Holding(q, j)
  BY <1>1 DEF Holding
<1>5. CASE q = p /\ j = i
  <2>1. Holding(q, j)' = Holding(q, j) \cup {s}
    BY <1>1, <1>2, <1>5 DEF Holding, StubsOf
  <2>2. QED
    BY <1>3, <1>4, <1>5, <2>1, StubSetsFinite, FS_AddElement
<1>6. CASE ~(q = p /\ j = i)
  <2>1. Holding(q, j)' = Holding(q, j)
    BY <1>1, <1>2, <1>6 DEF Holding, StubsOf
  <2>2. QED
    BY <1>3, <1>6, <2>1
<1>7. QED
  BY <1>5, <1>6

\* Disposing of a stub makes it one more that has sent its release.
LEMMA DisposeSets ==
  ASSUME TypeOK, NEW s \in Stub, Dispose(s), NEW q \in Peer, NEW j \in ExportId
  PROVE  /\ Holding(q, j)' = Holding(q, j)
         /\ Cardinality(Released(q, j)') =
              IF q = stubs[s].at /\ j = stubs[s].id THEN Cardinality(Released(q, j)) + 1
                                                    ELSE Cardinality(Released(q, j))
<1>1. /\ stubs[s].state = "live"
      /\ stubs' = [stubs EXCEPT ![s].state = "releasing"]
  BY DEF Dispose
<1>2. /\ \A t \in Stub : t # s => stubs'[t] = stubs[t]
      /\ stubs'[s].state = "releasing" /\ stubs'[s].at = stubs[s].at
      /\ stubs'[s].id = stubs[s].id
  BY <1>1 DEF TypeOK, StubRecord
<1>3. Holding(q, j)' = Holding(q, j)
  BY <1>1, <1>2 DEF Holding, StubsOf
<1>4. s \notin Released(q, j)
  BY <1>1 DEF Released
<1>5. CASE q = stubs[s].at /\ j = stubs[s].id
  <2>1. Released(q, j)' = Released(q, j) \cup {s}
    BY <1>1, <1>2, <1>5 DEF Released, StubsOf
  <2>2. QED
    BY <1>3, <1>4, <1>5, <2>1, StubSetsFinite, FS_AddElement, ZenonT(60)
<1>6. CASE ~(q = stubs[s].at /\ j = stubs[s].id)
  <2>1. Released(q, j)' = Released(q, j)
    BY <1>1, <1>2, <1>6 DEF Released, StubsOf
  <2>2. QED
    BY <1>3, <1>6, <2>1
<1>7. QED
  BY <1>5, <1>6

\* The end of dispose takes one holder away.
LEMMA DropImportSets ==
  ASSUME TypeOK, NEW s \in Stub, DropImport(s), NEW q \in Peer, NEW j \in ExportId
  PROVE  /\ Released(q, j)' = Released(q, j)
         /\ Cardinality(Holding(q, j)') =
              IF q = stubs[s].at /\ j = stubs[s].id THEN Cardinality(Holding(q, j)) - 1
                                                    ELSE Cardinality(Holding(q, j))
<1>1. /\ stubs[s].state = "releasing"
      /\ stubs' = [stubs EXCEPT ![s].state = "disposed"]
  BY DEF DropImport
<1>2. /\ \A t \in Stub : t # s => stubs'[t] = stubs[t]
      /\ stubs'[s].state = "disposed" /\ stubs'[s].at = stubs[s].at
      /\ stubs'[s].id = stubs[s].id
  BY <1>1 DEF TypeOK, StubRecord
<1>3. Released(q, j)' = Released(q, j)
  BY <1>1, <1>2 DEF Released, StubsOf
<1>4. CASE q = stubs[s].at /\ j = stubs[s].id
  <2>1. s \in Holding(q, j)
    BY <1>1, <1>4 DEF Holding, StubsOf
  <2>2. Holding(q, j)' = Holding(q, j) \ {s}
    BY <1>1, <1>2, <1>4 DEF Holding, StubsOf
  <2>3. Cardinality(Holding(q, j) \ {s}) = Cardinality(Holding(q, j)) - 1
    BY <2>1, StubSetsFinite, FS_RemoveElement
  <2>4. QED
    BY <1>3, <1>4, <2>2, <2>3
<1>5. CASE ~(q = stubs[s].at /\ j = stubs[s].id)
  <2>1. Holding(q, j)' = Holding(q, j)
    BY <1>1, <1>2, <1>5 DEF Holding, StubsOf
  <2>2. QED
    BY <1>3, <1>5, <2>1
<1>6. QED
  BY <1>4, <1>5

-----------------------------------------------------------------------------
(***************************************************************************)
(* No import entry outlives the stubs that will give its references back.   *)
(***************************************************************************)
LEMMA HolderInit == Init => ImportNeedsHolder
  BY StubSetsFinite DEF Init, ImportNeedsHolder

\* No step leaves an import entry with more references than holders.
LEMMA HolderNext ==
  ASSUME TypeOK, ImportNeedsHolder, [Next]_vars
  PROVE  ImportNeedsHolder'
<1> SUFFICES ASSUME NEW q \in Peer, NEW j \in ExportId
             PROVE  imports'[q][j] <= Cardinality(Holding(q, j)')
  BY DEF ImportNeedsHolder
<1>0. /\ imports[q][j] <= Cardinality(Holding(q, j))
      /\ imports[q][j] \in Nat /\ Cardinality(Holding(q, j)) \in Nat
  BY StubSetsFinite DEF ImportNeedsHolder, TypeOK
<1>1. ASSUME UNCHANGED <<imports, stubs>>
      PROVE  imports'[q][j] <= Cardinality(Holding(q, j)')
  <2>1. Holding(q, j)' = Holding(q, j)
    BY <1>1 DEF Holding, StubsOf
  <2>2. QED
    BY <1>0, <1>1, <2>1
<1>2. ASSUME NEW p \in Peer, NEW i \in ExportId, NEW s \in Stub,
             NewStub(s, p, i), UNCHANGED imports
      PROVE  imports'[q][j] <= Cardinality(Holding(q, j)')
  BY <1>0, <1>2, NewStubSets
<1>3. ASSUME NEW p \in Peer, NEW i \in ExportId, NEW s \in Stub,
             NewStub(s, p, i), AddImport(p, i)
      PROVE  imports'[q][j] <= Cardinality(Holding(q, j)')
  <2>1. imports'[q][j] = IF q = p /\ j = i THEN 1 ELSE imports[q][j]
    BY <1>3 DEF AddImport, TypeOK
  <2>2. QED
    BY <1>0, <1>3, <2>1, NewStubSets
<1>4. ASSUME NEW s \in Stub, NEW t \in Stub, Clone(s, t)
      PROVE  imports'[q][j] <= Cardinality(Holding(q, j)')
  <2>1. stubs[s].id \in ExportId /\ stubs[s].at \in Peer
    BY <1>4 DEF TypeOK, Clone, StubRecord
  <2>2. imports'[q][j] <= IF q = stubs[s].at /\ j = stubs[s].id THEN imports[q][j] + 1
                                                               ELSE imports[q][j]
    BY <1>0, <1>4, <2>1, SMTT(40) DEF Clone, TypeOK
  <2>3. NewStub(t, stubs[s].at, stubs[s].id)
    BY <1>4 DEF Clone
  <2>4. /\ q = stubs[s].at /\ j = stubs[s].id => Cardinality(Holding(q, j)') = Cardinality(Holding(q, j)) + 1
        /\ ~(q = stubs[s].at /\ j = stubs[s].id) => Cardinality(Holding(q, j)') = Cardinality(Holding(q, j))
    BY <2>1, <2>3, NewStubSets
  <2>5. CASE q = stubs[s].at /\ j = stubs[s].id
    <3>1. imports'[q][j] <= imports[q][j] + 1
      BY <2>2, <2>5
    <3>2. imports'[q][j] \in Nat
      BY <1>4, NextType DEF Next, StubStep, TypeOK
    <3>3. QED
      BY <1>0, <2>4, <2>5, <3>1, <3>2
  <2>6. CASE ~(q = stubs[s].at /\ j = stubs[s].id)
    <3>1. imports'[q][j] = imports[q][j]
      BY <1>0, <1>4, <2>1, <2>6 DEF Clone, TypeOK
    <3>2. QED
      BY <1>0, <2>4, <2>6, <3>1
  <2>7. QED
    BY <2>5, <2>6
<1>5. ASSUME NEW s \in Stub, DropImport(s)
      PROVE  imports'[q][j] <= Cardinality(Holding(q, j)')
  <2>1. stubs[s].id \in ExportId /\ stubs[s].at \in Peer
    BY <1>5 DEF TypeOK, DropImport, StubRecord
  <2>2. CASE q = stubs[s].at /\ j = stubs[s].id
    <3>1. imports'[q][j] = IF imports[q][j] > 0 THEN imports[q][j] - 1 ELSE imports[q][j]
      BY <1>5, <2>1, <2>2 DEF DropImport, TypeOK
    <3>2. s \in Holding(q, j)
      BY <1>5, <2>2 DEF Holding, StubsOf, DropImport
    <3>3. Cardinality(Holding(q, j)) > 0
      BY <1>0, <3>2, StubSetsFinite, FS_EmptySet
    <3>4. Cardinality(Holding(q, j)') = Cardinality(Holding(q, j)) - 1
      BY <1>5, <2>2, DropImportSets
    <3>5. QED
      BY <1>0, <3>1, <3>3, <3>4
  <2>3. CASE ~(q = stubs[s].at /\ j = stubs[s].id)
    <3>1. imports'[q][j] = imports[q][j]
      BY <1>0, <1>5, <2>1, <2>3 DEF DropImport, TypeOK
    <3>2. QED
      BY <1>0, <1>5, <2>3, <3>1, DropImportSets
  <2>4. QED
    BY <2>2, <2>3
<1>6. ASSUME NEW s \in Stub, Dispose(s)
      PROVE  imports'[q][j] <= Cardinality(Holding(q, j)')
  BY <1>0, <1>6, DisposeSets DEF Dispose, tables
<1>7. ASSUME NEW s \in Stub, NEW t \in Stub, GetProperty(s, t)
      PROVE  imports'[q][j] <= Cardinality(Holding(q, j)')
  <2>1. stubs[s].id \in ExportId /\ stubs[s].at \in Peer
    BY <1>7 DEF TypeOK, GetProperty, StubRecord
  <2>2. QED
    BY <1>2, <1>7, <2>1 DEF GetProperty, tables
<1>8. ASSUME NEW p \in Peer, NEW i \in ExportId, NEW s \in Stub, FactoryStub(p, i, s)
      PROVE  imports'[q][j] <= Cardinality(Holding(q, j)')
  BY <1>2, <1>8 DEF FactoryStub, tables
<1>9. ASSUME NEW p \in Peer, NEW t \in Stub, NEW s \in Stub, ImportTarget(p, t, s)
      PROVE  imports'[q][j] <= Cardinality(Holding(q, j)')
  <2>1. stubs[t].id \in ExportId
    BY <1>9 DEF TypeOK, ImportTarget, LiveAt
  <2>2. QED
    BY <1>3, <1>9, <2>1 DEF ImportTarget
<1>10. ASSUME NEW p \in Peer, HandlePush(p)
       PROVE  imports'[q][j] <= Cardinality(Holding(q, j)')
  <2>1. CASE Head(inbox[p]).id # NoId
    <3>1. closed[p] \in BOOLEAN
      BY DEF TypeOK
    <3>2. Head(inbox[p]).id \in ExportId
      BY <1>10, <2>1, <3>1, ReceiveType DEF HandlePush, Message, Abort, NoId
    <3>3. QED
      BY <1>3, <1>10, <2>1, <3>2 DEF HandlePush
  <2>2. CASE Head(inbox[p]).id = NoId
    BY <1>1, <1>10, <2>2 DEF HandlePush
  <2>3. QED
    BY <2>1, <2>2
<1>11. ASSUME NEW p \in Peer,
              \/ ExportValue(p) \/ \E r \in Mentionable(p) : SendRequest(p, r)
              \/ \E s \in Stub, r \in Mentionable(p) : Call(p, s, r)
              \/ Close(p) \/ HandleRelease(p) \/ HandleAbort(p) \/ StopLoop(p)
       PROVE  UNCHANGED <<imports, stubs>>
  BY <1>11 DEF ExportValue, SendRequest, Call, Close, HandleRelease, HandleAbort, StopLoop, tables
<1>12. CASE UNCHANGED vars
  BY <1>1, <1>12 DEF vars
<1>13. QED
  BY <1>1, <1>4, <1>5, <1>6, <1>7, <1>8, <1>9, <1>10, <1>11, <1>12
  DEF Next, PeerStep, StubStep

(***************************************************************************)
(* An import entry never counts more references than there are stubs still  *)
(* to give one back: entries are not leaked by cloning, re-importing and    *)
(* disposing in any order (session.go:563-589, stub.go:191-299).            *)
(***************************************************************************)
THEOREM ImportsHaveHolders == Spec => []ImportNeedsHolder
<1>1. TypeOK /\ ImportNeedsHolder /\ [Next]_vars => ImportNeedsHolder'
  BY HolderNext
<1>2. QED
  BY HolderInit, <1>1, TypeCorrect, PTL DEF Spec

-----------------------------------------------------------------------------
(***************************************************************************)
(* How the releases in flight change when a channel grows or shrinks.       *)
(***************************************************************************)
LEMMA InFlightFinite ==
  ASSUME TypeOK, NEW p \in Peer, NEW i
  PROVE  IsFiniteSet(InFlight(p, i)) /\ Cardinality(InFlight(p, i)) \in Nat
<1>1. inbox[p] \in Seq(Message)
  BY DEF TypeOK
<1>2. DOMAIN inbox[p] = 1 .. Len(inbox[p]) /\ Len(inbox[p]) \in Nat
  BY <1>1
<1>3. IsFiniteSet(1 .. Len(inbox[p]))
  BY <1>2, FS_Interval
<1>4. InFlight(p, i) \in SUBSET (1 .. Len(inbox[p]))
  BY <1>2 DEF InFlight
<1>5. QED
  BY <1>3, <1>4, FS_Subset, FS_CardinalityType

\* m was put into the channel from s.
Sent(s, m) == inbox' = [inbox EXCEPT ![Other(s)] = Append(@, m)]

\* A sent message counts as in flight where it is a release for the ID.
LEMMA InFlightAppend ==
  ASSUME TypeOK, NEW s \in Peer, NEW m \in Message,
         Sent(s, m),
         NEW p \in Peer, NEW i \in ExportId
  PROVE  Cardinality(InFlight(p, i)') =
           IF p = Other(s) /\ m = Release(i) THEN Cardinality(InFlight(p, i)) + 1
                                      ELSE Cardinality(InFlight(p, i))
<1>1. CASE p # Other(s)
  <2>1. inbox'[p] = inbox[p]
    BY <1>1 DEF TypeOK, Sent
  <2>2. QED
    BY <1>1, <2>1 DEF InFlight
<1>2. CASE p = Other(s)
  <2> DEFINE n == Len(inbox[p])
  <2>1. inbox[p] \in Seq(Message) /\ inbox'[p] = Append(inbox[p], m)
    BY <1>2 DEF TypeOK, Sent
  <2>2. /\ n \in Nat /\ DOMAIN inbox[p] = 1 .. n /\ DOMAIN inbox'[p] = 1 .. (n + 1)
        /\ inbox'[p][n + 1] = m
        /\ \A k \in 1 .. n : inbox'[p][k] = inbox[p][k]
    BY <2>1
  <2>3. n + 1 \notin InFlight(p, i)
    BY <2>2 DEF InFlight
  <2>4. CASE m = Release(i)
    <3>1. InFlight(p, i)' = InFlight(p, i) \cup {n + 1}
      BY <2>2, <2>4 DEF InFlight, Release
    <3>2. QED
      BY <1>2, <2>3, <2>4, <3>1, InFlightFinite, FS_AddElement
  <2>5. CASE m # Release(i)
    <3>1. InFlight(p, i)' = InFlight(p, i)
      BY <2>2, <2>5 DEF InFlight, Release
    <3>2. QED
      BY <2>5, <3>1
  <2>6. QED
    BY <2>4, <2>5
<1>3. QED
  BY <1>1, <1>2

\* Sending anything but a release for the ID puts no release for it in flight.
LEMMA InFlightSend ==
  ASSUME TypeOK, NEW p \in Peer, NEW m \in Message,
         Sent(p, m),
         NEW q \in Peer, NEW i \in ExportId, m # Release(i)
  PROVE  Cardinality(InFlight(q, i)') = Cardinality(InFlight(q, i))
<1>1. Cardinality(InFlight(q, i)') =
        IF q = Other(p) /\ m = Release(i) THEN Cardinality(InFlight(q, i)) + 1
                                          ELSE Cardinality(InFlight(q, i))
  BY InFlightAppend
<1>2. QED
  BY <1>1

\* Receiving a release takes it out of the flight.
LEMMA InFlightTail ==
  ASSUME TypeOK, NEW q \in Peer, NEW stop \in BOOLEAN, Receive(q, stop),
         NEW p \in Peer, NEW i \in ExportId
  PROVE  /\ Cardinality(InFlight(p, i)') \in Nat
         /\ Cardinality(InFlight(p, i)') <=
              IF p = q /\ Head(inbox[q]) = Release(i) THEN Cardinality(InFlight(p, i)) - 1
                                                      ELSE Cardinality(InFlight(p, i))
<1>1. CASE p # q
  <2>1. inbox'[p] = inbox[p]
    BY <1>1 DEF TypeOK, Receive
  <2>2. InFlight(p, i)' = InFlight(p, i)
    BY <2>1 DEF InFlight
  <2>3. QED
    BY <1>1, <2>2, InFlightFinite
<1>2. CASE p = q
  <2> DEFINE n == Len(inbox[p])
             S == InFlight(p, i) \ {1}
             T == InFlight(p, i)'
             f == [k \in S |-> k - 1]
  <2>1. /\ inbox[p] \in Seq(Message) /\ inbox[p] # <<>>
        /\ inbox'[p] = Tail(inbox[p])
    BY <1>2 DEF TypeOK, Receive
  <2>2. /\ n \in Nat /\ n > 0 /\ DOMAIN inbox[p] = 1 .. n
        /\ Head(inbox[p]) = inbox[p][1]
        /\ DOMAIN inbox'[p] = 1 .. (n - 1)
        /\ \A k \in 1 .. (n - 1) : inbox'[p][k] = inbox[p][k + 1]
    BY <2>1
  <2>3. \A k \in S : k - 1 \in T
    BY <2>2 DEF InFlight, Release
  <2>4. \A k \in T : k + 1 \in S /\ (k + 1) - 1 = k
    BY <2>2 DEF InFlight, Release
  <2>5. f \in Surjection(S, T)
    BY <2>3, <2>4 DEF Surjection
  <2>6. IsFiniteSet(S) /\ Cardinality(S) =
          IF 1 \in InFlight(p, i) THEN Cardinality(InFlight(p, i)) - 1
                                  ELSE Cardinality(InFlight(p, i))
    BY InFlightFinite, FS_RemoveElement
  <2>7. IsFiniteSet(T) /\ Cardinality(T) <= Cardinality(S)
    BY <2>5, <2>6, FS_Surjection
  <2>8. Cardinality(T) \in Nat /\ Cardinality(S) \in Nat /\ Cardinality(InFlight(p, i)) \in Nat
    BY <2>6, <2>7, InFlightFinite, FS_CardinalityType
  <2>9. Head(inbox[p]) = Release(i) => 1 \in InFlight(p, i)
    BY <2>2 DEF InFlight
  <2>10. QED
    BY <1>2, <2>6, <2>7, <2>8, <2>9
<1>3. QED
  BY <1>1, <1>2

-----------------------------------------------------------------------------
(***************************************************************************)
(* Conservation of releases.                                                *)
(***************************************************************************)
Gone(p, i) == IF Dropped(p, i) THEN 1 ELSE 0

\* exportValue neither drops an export nor brings a dropped one back.
LEMMA AddExportDrops ==
  ASSUME TypeOK, NEW p \in Peer, AddExport(p), NEW q \in Peer, NEW j \in ExportId
  PROVE  Dropped(q, j)' <=> Dropped(q, j)
<1>1. /\ nextExportID[p] + 1 \in ExportId
      /\ nextExportID' = [nextExportID EXCEPT ![p] = nextExportID[p] + 1]
      /\ exports' = [exports EXCEPT ![p][nextExportID[p] + 1] = 1]
  BY DEF AddExport
<1>2. nextExportID[p] \in Nat /\ j \in Nat /\ nextExportID[q] \in Nat
  BY BoundAssumption DEF TypeOK, ExportId
<1>3. CASE q # p
  BY <1>1, <1>3 DEF TypeOK, Dropped, Exported
<1>4. CASE q = p /\ j = nextExportID[p] + 1
  <2>1. exports'[q][j] = 1
    BY <1>1, <1>4 DEF TypeOK
  <2>2. QED
    BY <1>2, <1>4, <2>1 DEF Dropped, Exported
<1>5. CASE q = p /\ j # nextExportID[p] + 1
  <2>1. exports'[q][j] = exports[q][j] /\ nextExportID'[q] = nextExportID[q] + 1
    BY <1>1, <1>5 DEF TypeOK
  <2>2. QED
    BY <1>2, <1>5, <2>1 DEF Dropped, Exported
<1>6. QED
  BY <1>3, <1>4, <1>5

\* Nothing was released at the start.
LEMMA AccountInit == Init => ReleaseAccounting
<1> SUFFICES ASSUME Init, NEW p \in Peer, NEW i \in ExportId
             PROVE  Cardinality(InFlight(p, i)) + Gone(p, i) <= Cardinality(Released(Other(p), i))
  BY DEF ReleaseAccounting, Gone
<1>1. InFlight(p, i) = {}
  BY DEF Init, InFlight
<1>2. ~Dropped(p, i)
  BY BoundAssumption DEF Init, Dropped, Exported, ExportId
<1>3. QED
  BY <1>1, <1>2, FS_EmptySet, StubSetsFinite DEF Gone

\* Every step keeps the account of releases.
LEMMA AccountNext ==
  ASSUME TypeOK, ReleaseAccounting, [Next]_vars
  PROVE  ReleaseAccounting'
<1> SUFFICES ASSUME NEW q \in Peer, NEW j \in ExportId
             PROVE  Cardinality(InFlight(q, j)') + Gone(q, j)'
                      <= Cardinality(Released(Other(q), j)')
  BY DEF ReleaseAccounting, Gone
<1> DEFINE Goal == Cardinality(InFlight(q, j)') + Gone(q, j)' <= Cardinality(Released(Other(q), j)')
<1>0. /\ Cardinality(InFlight(q, j)) + Gone(q, j) <= Cardinality(Released(Other(q), j))
      /\ Cardinality(InFlight(q, j)) \in Nat /\ Cardinality(Released(Other(q), j)) \in Nat
      /\ Gone(q, j) \in Nat
      /\ Other(q) \in Peer
  BY OtherPeer, InFlightFinite, StubSetsFinite DEF ReleaseAccounting, Gone
<1>1. ASSUME UNCHANGED <<exports, nextExportID, inbox>>,
             Cardinality(Released(Other(q), j)') = Cardinality(Released(Other(q), j))
      PROVE  Goal
  <2>1. InFlight(q, j)' = InFlight(q, j) /\ Gone(q, j)' = Gone(q, j)
    BY <1>1 DEF InFlight, Gone, Dropped, Exported
  <2>2. QED
    BY <1>0, <1>1, <2>1
<1>2. ASSUME NEW p \in Peer, NEW r, Send(p, Push(r)) \/ UNCHANGED inbox, r \in ExportId \cup {NoId}
      PROVE  InFlight(q, j)' = InFlight(q, j) \/ Cardinality(InFlight(q, j)') = Cardinality(InFlight(q, j))
  <2>1. CASE UNCHANGED inbox
    BY <2>1 DEF InFlight
  <2>2. CASE Sent(p, Push(r))
    <3>1. Push(r) \in Message /\ Push(r) # Release(j)
      BY <1>2 DEF Push, Message, Release
    <3>2. QED
      BY <2>2, <3>1, InFlightSend
  <2>3. QED
    BY <1>2, <2>1, <2>2 DEF Send, Sent
<1>3. ASSUME UNCHANGED stubs PROVE Released(Other(q), j)' = Released(Other(q), j)
  BY <1>3 DEF Released, StubsOf
<1>4. ASSUME NEW p \in Peer, ExportValue(p) PROVE Goal
  <2>1. Gone(q, j)' = Gone(q, j)
    BY <1>4, AddExportDrops DEF ExportValue, Gone
  <2>2. InFlight(q, j)' = InFlight(q, j)
    BY <1>4 DEF ExportValue, InFlight
  <2>3. QED
    BY <1>0, <1>3, <1>4, <2>1, <2>2 DEF ExportValue
<1>5. ASSUME NEW p \in Peer, NEW r \in Mentionable(p), SendRequest(p, r) PROVE Goal
  <2>1. Gone(q, j)' = Gone(q, j)
    BY <1>5 DEF SendRequest, tables, Gone, Dropped, Exported
  <2>2. Cardinality(InFlight(q, j)') = Cardinality(InFlight(q, j))
    BY <1>2, <1>5, MentionableType DEF SendRequest
  <2>3. QED
    BY <1>0, <1>3, <1>5, <2>1, <2>2 DEF SendRequest
<1>6. ASSUME NEW p \in Peer, NEW s \in Stub, NEW r \in Mentionable(p), Call(p, s, r) PROVE Goal
  <2>1. Gone(q, j)' = Gone(q, j)
    BY <1>6, AddExportDrops DEF Call, Gone
  <2>2. Cardinality(InFlight(q, j)') = Cardinality(InFlight(q, j))
    BY <1>2, <1>6, MentionableType DEF Call
  <2>3. QED
    BY <1>0, <1>3, <1>6, <2>1, <2>2 DEF Call
<1>7. ASSUME NEW p \in Peer, NEW i \in ExportId, NEW s \in Stub, FactoryStub(p, i, s) PROVE Goal
  BY <1>0, <1>1, <1>7, NewStubSets DEF FactoryStub, tables
<1>8. ASSUME NEW p \in Peer, NEW t \in Stub, NEW s \in Stub, ImportTarget(p, t, s) PROVE Goal
  <2>1. stubs[t].id \in ExportId
    BY <1>8 DEF TypeOK, ImportTarget, LiveAt
  <2>2. QED
    BY <1>0, <1>1, <1>8, <2>1, NewStubSets DEF ImportTarget
<1>9. ASSUME NEW s \in Stub, NEW t \in Stub, Clone(s, t) \/ GetProperty(s, t) PROVE Goal
  <2>1. stubs[s].id \in ExportId /\ stubs[s].at \in Peer
    BY <1>9 DEF TypeOK, Clone, GetProperty, StubRecord
  <2>2. NewStub(t, stubs[s].at, stubs[s].id) /\ UNCHANGED <<exports, nextExportID, inbox>>
    BY <1>9 DEF Clone, GetProperty, tables
  <2>3. QED
    BY <1>0, <1>1, <2>1, <2>2, NewStubSets
<1>10. ASSUME NEW s \in Stub, Dispose(s) PROVE Goal
  <2> DEFINE p == stubs[s].at
             i == stubs[s].id
  <2>1. i \in ExportId /\ p \in Peer
    BY <1>10 DEF TypeOK, Dispose, StubRecord
  <2>2. Release(i) \in Message /\ (Release(i) = Release(j) <=> i = j)
    BY <2>1 DEF Release, Message
  <2>3. Gone(q, j)' = Gone(q, j)
    BY <1>10 DEF Dispose, tables, Gone, Dropped, Exported
  <2>4. Cardinality(Released(Other(q), j)') =
          IF Other(q) = p /\ j = i THEN Cardinality(Released(Other(q), j)) + 1
                                   ELSE Cardinality(Released(Other(q), j))
    BY <1>0, <1>10, DisposeSets
  <2>5. CASE UNCHANGED inbox
    <3>1. InFlight(q, j)' = InFlight(q, j)
      BY <2>5 DEF InFlight
    <3>2. QED
      BY <1>0, <2>3, <2>4, <3>1
  <2>6. CASE Sent(p, Release(i))
    <3> HIDE DEF p, i
    <3>1. Cardinality(InFlight(q, j)') =
            IF q = Other(p) /\ i = j THEN Cardinality(InFlight(q, j)) + 1
                                     ELSE Cardinality(InFlight(q, j))
      <4>1. Cardinality(InFlight(q, j)') =
              IF q = Other(p) /\ Release(i) = Release(j)
              THEN Cardinality(InFlight(q, j)) + 1
              ELSE Cardinality(InFlight(q, j))
        BY <2>1, <2>2, <2>6, InFlightAppend
      <4>2. QED
        BY <2>2, <4>1
    <3>2. q = Other(p) <=> Other(q) = p
      BY <2>1, OtherPeer
    <3>3. QED
      BY <1>0, <2>3, <2>4, <3>1, <3>2
  <2>7. QED
    BY <1>10, <2>5, <2>6 DEF Dispose, Send, Sent
<1>11. ASSUME NEW s \in Stub, DropImport(s) PROVE Goal
  BY <1>0, <1>1, <1>11, DropImportSets DEF DropImport
<1>12. ASSUME NEW p \in Peer, Close(p) PROVE Goal
  <2>1. Gone(q, j)' = Gone(q, j)
    BY <1>12 DEF Close, tables, Gone, Dropped, Exported
  <2>2. CASE UNCHANGED inbox
    BY <1>1, <1>3, <1>12, <2>2 DEF Close, tables
  <2>3. CASE Sent(p, Abort)
    <3>1. Abort \in Message /\ Abort # Release(j)
      BY DEF Abort, Message, Release
    <3>2. Cardinality(InFlight(q, j)') = Cardinality(InFlight(q, j))
      BY <2>3, <3>1, InFlightSend
    <3>3. QED
      BY <1>0, <1>3, <1>12, <2>1, <3>2 DEF Close
  <2>4. QED
    BY <1>12, <2>2, <2>3 DEF Close, Sent
<1>13. ASSUME NEW p \in Peer, HandlePush(p) \/ HandleAbort(p) PROVE Goal
  <2>1. PICK stop \in BOOLEAN : Receive(p, stop)
    BY <1>13 DEF HandlePush, HandleAbort, TypeOK
  <2>2. Cardinality(InFlight(q, j)') \in Nat /\ Cardinality(InFlight(q, j)') <= Cardinality(InFlight(q, j))
    BY <1>0, <2>1, InFlightTail
  <2>3. Gone(q, j)' = Gone(q, j)
    BY <1>13 DEF HandlePush, HandleAbort, tables, Gone, Dropped, Exported
  <2>4. Cardinality(Released(Other(q), j)') = Cardinality(Released(Other(q), j))
    <3>1. CASE UNCHANGED stubs
      BY <1>3, <3>1
    <3>2. ASSUME NEW s \in Stub, Head(inbox[p]).id # NoId, NewStub(s, p, Head(inbox[p]).id)
          PROVE  Cardinality(Released(Other(q), j)') = Cardinality(Released(Other(q), j))
      <4>1. Head(inbox[p]).id \in ExportId
        BY <2>1, <3>2, ReceiveType DEF Message, Abort, NoId
      <4>2. QED
        BY <1>0, <3>2, <4>1, NewStubSets
    <3>3. QED
      BY <1>13, <3>1, <3>2 DEF HandlePush, HandleAbort
  <2>5. QED
    BY <1>0, <2>2, <2>3, <2>4
<1>14. ASSUME NEW p \in Peer, HandleRelease(p) PROVE Goal
  <2> DEFINE i == Head(inbox[p]).id
  <2>1. closed[p] \in BOOLEAN /\ Receive(p, closed[p])
    BY <1>14 DEF HandleRelease, TypeOK
  <2>2. Head(inbox[p]) = Release(i)
    <3>1. Head(inbox[p]) \in Message /\ Head(inbox[p]).type = "release"
      BY <1>14, <2>1, ReceiveType DEF HandleRelease
    <3>2. QED
      BY <3>1 DEF Message, Abort, Release
  <2>3. /\ Cardinality(InFlight(q, j)') \in Nat
        /\ Cardinality(InFlight(q, j)') <=
             IF q = p /\ i = j THEN Cardinality(InFlight(q, j)) - 1
                               ELSE Cardinality(InFlight(q, j))
    <3>1. Release(i) = Release(j) <=> i = j
      BY DEF Release
    <3>2. /\ Cardinality(InFlight(q, j)') \in Nat
          /\ Cardinality(InFlight(q, j)') <=
               IF q = p /\ Head(inbox[p]) = Release(j)
               THEN Cardinality(InFlight(q, j)) - 1
               ELSE Cardinality(InFlight(q, j))
      BY <2>1, InFlightTail
    <3>3. QED
      BY <2>2, <3>1, <3>2
  <2>4. CASE q = p /\ i = j
    <3>1. Gone(q, j)' \in {0, 1}
      BY DEF Gone
    <3>2. Gone(q, j)' <= Gone(q, j) + 1
      BY <3>1 DEF Gone
    <3>3. Cardinality(InFlight(q, j)') <= Cardinality(InFlight(q, j)) - 1
      BY <2>3, <2>4
    <3>4. QED
      BY <1>0, <1>3, <1>14, <2>3, <3>1, <3>2, <3>3 DEF HandleRelease
  <2>5. CASE ~(q = p /\ i = j)
    <3>1. exports'[q][j] = exports[q][j] /\ nextExportID' = nextExportID
      BY <1>14, <2>5 DEF HandleRelease, TypeOK
    <3>2. Gone(q, j)' = Gone(q, j)
      BY <3>1 DEF Gone, Dropped, Exported
    <3>3. Cardinality(InFlight(q, j)') <= Cardinality(InFlight(q, j))
      BY <2>3, <2>5
    <3>4. QED
      BY <1>0, <1>3, <1>14, <2>3, <3>2, <3>3 DEF HandleRelease
  <2>6. QED
    BY <2>4, <2>5
<1>15. ASSUME NEW p \in Peer, StopLoop(p) PROVE Goal
  BY <1>1, <1>3, <1>15 DEF StopLoop, tables
<1>16. CASE UNCHANGED vars
  BY <1>1, <1>3, <1>16 DEF vars
<1>17. QED
  BY <1>4, <1>5, <1>6, <1>7, <1>8, <1>9, <1>10, <1>11, <1>12, <1>13, <1>14, <1>15, <1>16
  DEF Next, PeerStep, StubStep

(***************************************************************************)
(* Releases are conserved: every release in flight, and the drop of the     *)
(* export it caused, is backed by a stub that was disposed; so no stub      *)
(* releases twice and an export is not dropped while all the stubs for it   *)
(* are undisposed (stub.go:191-225, session.go:490-517).                    *)
(***************************************************************************)
THEOREM ReleasesConserved == Spec => []ReleaseAccounting
<1>1. TypeOK /\ ReleaseAccounting /\ [Next]_vars => ReleaseAccounting'
  BY AccountNext
<1>2. QED
  BY AccountInit, <1>1, TypeCorrect, PTL DEF Spec

-----------------------------------------------------------------------------
(***************************************************************************)
(* Export IDs are never reused.                                             *)
(***************************************************************************)
LEMMA DroppedStays ==
  ASSUME TypeOK, [Next]_vars, NEW q \in Peer, NEW j \in ExportId, Dropped(q, j)
  PROVE  Dropped(q, j)'
<1>1. ASSUME UNCHANGED <<exports, nextExportID>> PROVE Dropped(q, j)'
  BY <1>1 DEF Dropped, Exported
<1>2. ASSUME NEW p \in Peer, AddExport(p) PROVE Dropped(q, j)'
  BY <1>2, AddExportDrops
<1>3. ASSUME NEW p \in Peer, HandleRelease(p) PROVE Dropped(q, j)'
  <2>1. exports'[q][j] = exports[q][j] \/ exports'[q][j] = IF exports[q][j] > 0 THEN exports[q][j] - 1
                                                                             ELSE exports[q][j]
    BY <1>3 DEF HandleRelease, TypeOK
  <2>2. nextExportID' = nextExportID
    BY <1>3 DEF HandleRelease
  <2>3. QED
    BY <2>1, <2>2 DEF Dropped, Exported
<1>4. ASSUME NEW p \in Peer, PeerStep(p) PROVE Dropped(q, j)'
  BY <1>1, <1>2, <1>3, <1>4
  DEF PeerStep, ExportValue, SendRequest, Call, FactoryStub, ImportTarget, Close,
      HandlePush, HandleAbort, StopLoop, tables
<1>5. ASSUME StubStep PROVE Dropped(q, j)'
  BY <1>1, <1>5 DEF StubStep, Clone, GetProperty, Dispose, DropImport, tables
<1>6. ASSUME UNCHANGED vars PROVE Dropped(q, j)'
  BY <1>1, <1>6 DEF vars
<1>7. QED
  BY <1>4, <1>5, <1>6 DEF Next

(***************************************************************************)
(* An export ID that was dropped stays dropped: no operation gives it to    *)
(* another value (exportValue; session.go:538-560).                         *)
(***************************************************************************)
THEOREM ExportIDsNotReused == Spec => ExportNeverReborn
<1>1. TypeOK /\ [Next]_vars => [\A p \in Peer, i \in ExportId : Dropped(p, i) => Dropped(p, i)']_vars
  BY DroppedStays
<1>2. QED
  BY <1>1, TypeCorrect, PTL DEF Spec, ExportNeverReborn

-----------------------------------------------------------------------------
(***************************************************************************)
(* The export gauge.  That an entry is only ever added at an ID that has    *)
(* none needs the invariant that IDs not yet handed out have no entry.      *)
(***************************************************************************)
Entries(p) == {i \in ExportId : exports[p][i] > 0}
FreshIDsEmpty == \A p \in Peer, i \in ExportId : exports[p][i] > 0 => i <= nextExportID[p]
GaugeInv == ExportGaugeExact /\ FreshIDsEmpty

\* The export table is finite.
LEMMA EntriesFinite ==
  ASSUME NEW p \in Peer
  PROVE  IsFiniteSet(Entries(p)) /\ Cardinality(Entries(p)) \in Nat
<1>1. IsFiniteSet(ExportId)
  BY BoundAssumption, FS_Interval DEF ExportId
<1>2. QED
  BY <1>1, FS_Subset, FS_CardinalityType DEF Entries

\* The gauge starts at zero, with an empty table.
LEMMA GaugeInit == Init => GaugeInv
<1>1. ASSUME Init, NEW p \in Peer PROVE Entries(p) = {} /\ exportsActive[p] = 0
  BY <1>1 DEF Init, Entries
<1>2. QED
  BY <1>1, FS_EmptySet DEF Init, GaugeInv, ExportGaugeExact, FreshIDsEmpty, Entries

\* Every step moves the export gauge as it moves the table.
LEMMA GaugeNext ==
  ASSUME TypeOK, GaugeInv, [Next]_vars
  PROVE  GaugeInv'
<1>1. ASSUME UNCHANGED <<exports, nextExportID, exportsActive>> PROVE GaugeInv'
  BY <1>1 DEF GaugeInv, ExportGaugeExact, FreshIDsEmpty
<1>2. ASSUME NEW p \in Peer, AddExport(p) PROVE GaugeInv'
  <2> DEFINE n == nextExportID[p] + 1
  <2>1. n \in ExportId /\ nextExportID[p] \in Nat
    BY <1>2, BoundAssumption DEF AddExport, TypeOK, ExportId
  <2>2. /\ nextExportID'[p] = n /\ exportsActive'[p] = exportsActive[p] + 1
        /\ exports'[p] = [exports[p] EXCEPT ![n] = 1]
        /\ \A q \in Peer \ {p} : /\ nextExportID'[q] = nextExportID[q]
                                 /\ exportsActive'[q] = exportsActive[q]
                                 /\ exports'[q] = exports[q]
    BY <1>2 DEF AddExport, TypeOK
  <2>3. exports[p][n] = 0
    <3>1. exports[p][n] \in Nat /\ ~(n <= nextExportID[p])
      BY <2>1 DEF TypeOK
    <3>2. QED
      BY <2>1, <3>1 DEF GaugeInv, FreshIDsEmpty
  <2>4. Entries(p)' = Entries(p) \cup {n} /\ n \notin Entries(p)
    BY <2>1, <2>2, <2>3 DEF Entries, TypeOK
  <2>5. \A q \in Peer \ {p} : Entries(q)' = Entries(q)
    BY <2>2 DEF Entries
  <2>6. Cardinality(Entries(p)') = Cardinality(Entries(p)) + 1
    BY <2>4, EntriesFinite, FS_AddElement
  <2>7. \A q \in Peer : exportsActive'[q] = Cardinality(Entries(q)')
    BY <2>2, <2>5, <2>6 DEF GaugeInv, ExportGaugeExact, Entries
  <2>8. ExportGaugeExact'
    BY <2>7 DEF ExportGaugeExact, Entries
  <2>9. FreshIDsEmpty'
    <3>1. SUFFICES ASSUME NEW q \in Peer, NEW j \in ExportId, exports'[q][j] > 0
                   PROVE  j <= nextExportID'[q]
      BY DEF FreshIDsEmpty
    <3>2. j \in Nat /\ (exports[q][j] > 0 => j <= nextExportID[q])
      BY BoundAssumption DEF GaugeInv, FreshIDsEmpty, ExportId
    <3>3. CASE q # p
      BY <2>2, <3>1, <3>2, <3>3
    <3>4. CASE q = p
      <4>1. j = n \/ exports'[q][j] = exports[q][j]
        BY <2>2, <3>4 DEF TypeOK
      <4>2. QED
        BY <2>1, <2>2, <3>1, <3>2, <3>4, <4>1
    <3>5. QED
      BY <3>3, <3>4
  <2>10. QED
    BY <2>8, <2>9 DEF GaugeInv
<1>3. ASSUME NEW p \in Peer, HandleRelease(p) PROVE GaugeInv'
  <2> DEFINE i == Head(inbox[p]).id
  <2>1. /\ exports'[p] = [exports[p] EXCEPT ![i] = IF @ > 0 THEN @ - 1 ELSE @]
        /\ exportsActive'[p] = IF exports[p][i] = 1 THEN exportsActive[p] - 1 ELSE exportsActive[p]
        /\ nextExportID' = nextExportID
        /\ \A q \in Peer \ {p} : /\ exportsActive'[q] = exportsActive[q]
                                 /\ exports'[q] = exports[q]
    BY <1>3 DEF HandleRelease, TypeOK
  <2>2. i \in ExportId
    <3>1. closed[p] \in BOOLEAN /\ Receive(p, closed[p])
      BY <1>3 DEF HandleRelease, TypeOK
    <3>2. Head(inbox[p]) \in Message /\ Head(inbox[p]).type = "release"
      BY <1>3, <3>1, ReceiveType DEF HandleRelease
    <3>3. QED
      BY <3>2 DEF Message, Abort
  <2> HIDE DEF i
  <2>3. exports[p][i] \in Nat /\ exports[p] \in [ExportId -> Nat]
    BY <2>2 DEF TypeOK
  <2>4. Cardinality(Entries(p)') = exportsActive'[p]
    <3>1. CASE exports[p][i] = 1
      <4>1. Entries(p)' = Entries(p) \ {i} /\ i \in Entries(p)
        BY <2>1, <2>2, <2>3, <3>1 DEF Entries
      <4>2. Cardinality(Entries(p)') = Cardinality(Entries(p)) - 1
        BY <4>1, EntriesFinite, FS_RemoveElement
      <4>3. QED
        BY <2>1, <3>1, <4>2 DEF GaugeInv, ExportGaugeExact, Entries
    <3>2. CASE exports[p][i] # 1
      <4>1. Entries(p)' = Entries(p)
        BY <2>1, <2>2, <2>3, <3>2 DEF Entries
      <4>2. QED
        BY <2>1, <3>2, <4>1 DEF GaugeInv, ExportGaugeExact, Entries
    <3>3. QED
      BY <3>1, <3>2
  <2>5. \A q \in Peer \ {p} : Entries(q)' = Entries(q)
    BY <2>1 DEF Entries
  <2>6. ExportGaugeExact'
    BY <2>1, <2>4, <2>5 DEF GaugeInv, ExportGaugeExact, Entries
  <2>7. FreshIDsEmpty'
    BY <2>1, <2>2, <2>3 DEF GaugeInv, FreshIDsEmpty
  <2>8. QED
    BY <2>6, <2>7 DEF GaugeInv
<1>4. ASSUME NEW p \in Peer, PeerStep(p) PROVE GaugeInv'
  BY <1>1, <1>2, <1>3, <1>4
  DEF PeerStep, ExportValue, SendRequest, Call, FactoryStub, ImportTarget, Close,
      HandlePush, HandleAbort, StopLoop, tables
<1>5. ASSUME StubStep PROVE GaugeInv'
  BY <1>1, <1>5 DEF StubStep, Clone, GetProperty, Dispose, DropImport, tables
<1>6. ASSUME UNCHANGED vars PROVE GaugeInv'
  BY <1>1, <1>6 DEF vars
<1>7. QED
  BY <1>4, <1>5, <1>6 DEF Next

(***************************************************************************)
(* stats.ExportsActive always equals the number of export entries, whatever *)
(* the interleaving of exports, calls and releases (session.go:490-560).    *)
(***************************************************************************)
THEOREM ExportGaugeCorrect == Spec => []ExportGaugeExact
<1>1. TypeOK /\ GaugeInv /\ [Next]_vars => GaugeInv'
  BY GaugeNext
<1>2. GaugeInv => ExportGaugeExact
  BY DEF GaugeInv
<1>3. QED
  BY GaugeInit, <1>1, <1>2, TypeCorrect, PTL DEF Spec

-----------------------------------------------------------------------------
(***************************************************************************)
(* The import gauge.                                                        *)
(***************************************************************************)
Imported(p) == {i \in ExportId : imports[p][i] > 0}

\* The import table is finite.
LEMMA ImportedFinite ==
  ASSUME NEW p \in Peer
  PROVE  IsFiniteSet(Imported(p)) /\ Cardinality(Imported(p)) \in Nat
<1>1. IsFiniteSet(ExportId)
  BY BoundAssumption, FS_Interval DEF ExportId
<1>2. QED
  BY <1>1, FS_Subset, FS_CardinalityType DEF Imported

\* The import gauge starts at zero, with an empty table.
LEMMA ImportGaugeInit == Init => ImportGaugeNeverLow
<1>1. ASSUME Init, NEW p \in Peer PROVE Imported(p) = {} /\ importsActive[p] = 0
  BY <1>1 DEF Init, Imported
<1>2. QED
  BY <1>1, FS_EmptySet DEF ImportGaugeNeverLow, Imported

\* Every step keeps the import gauge at or above the size of the table.
LEMMA ImportGaugeNext ==
  ASSUME TypeOK, ImportGaugeNeverLow, [Next]_vars
  PROVE  ImportGaugeNeverLow'
<1> SUFFICES ASSUME NEW q \in Peer PROVE importsActive'[q] >= Cardinality(Imported(q)')
  BY DEF ImportGaugeNeverLow, Imported
<1>0. /\ importsActive[q] >= Cardinality(Imported(q))
      /\ importsActive[q] \in Int
      /\ IsFiniteSet(Imported(q)) /\ Cardinality(Imported(q)) \in Nat
  BY ImportedFinite DEF TypeOK, ImportGaugeNeverLow, Imported
<1> DEFINE Goal == importsActive'[q] >= Cardinality(Imported(q)')
<1>1. ASSUME UNCHANGED <<imports, importsActive>> PROVE Goal
  BY <1>0, <1>1 DEF Imported
<1>2. ASSUME NEW p \in Peer, NEW i \in ExportId, AddImport(p, i) PROVE Goal
  <2>1. CASE q # p
    <3>1. imports'[q] = imports[q] /\ importsActive'[q] = importsActive[q]
      BY <1>2, <2>1 DEF AddImport, TypeOK
    <3>2. QED
      BY <1>0, <3>1 DEF Imported
  <2>2. CASE q = p
    <3>1. importsActive'[q] = importsActive[q] + 1 /\ Imported(q)' = Imported(q) \cup {i}
      BY <1>2, <2>2 DEF AddImport, Imported, TypeOK
    <3>2. Cardinality(Imported(q) \cup {i}) <= Cardinality(Imported(q)) + 1
      <4>1. CASE i \in Imported(q)
        <5>1. Imported(q) \cup {i} = Imported(q)
          BY <4>1
        <5>2. Cardinality(Imported(q) \cup {i}) = Cardinality(Imported(q))
          BY <5>1, Zenon
        <5>3. QED
          BY <1>0, <5>2
      <4>2. CASE i \notin Imported(q)
        <5>1. Cardinality(Imported(q) \cup {i}) = Cardinality(Imported(q)) + 1
          BY <1>0, <4>2, FS_AddElement
        <5>2. QED
          BY <1>0, <5>1
      <4>3. QED
        BY <4>1, <4>2
    <3>3. Cardinality(Imported(q)') \in Nat
      BY <1>0, <3>1, FS_AddElement, FS_CardinalityType
    <3>4. QED
      BY <1>0, <3>1, <3>2, <3>3
  <2>3. QED
    BY <2>1, <2>2
<1>3. ASSUME NEW s \in Stub, NEW t \in Stub, Clone(s, t) PROVE Goal
  <2>1. imports[q] \in [ExportId -> Nat] /\ importsActive' = importsActive
    BY <1>3 DEF Clone, TypeOK
  <2>2. \A i \in ExportId : imports'[q][i] = imports[q][i]
                         \/ (imports[q][i] > 0 /\ imports'[q][i] = imports[q][i] + 1)
    BY <1>3 DEF Clone, TypeOK
  <2>3. Imported(q)' = Imported(q)
    BY <2>1, <2>2 DEF Imported
  <2>4. QED
    BY <1>0, <2>1, <2>3
<1>4. ASSUME NEW s \in Stub, DropImport(s) PROVE Goal
  <2> DEFINE p == stubs[s].at
             i == stubs[s].id
  <2>1. i \in ExportId /\ p \in Peer
    BY <1>4 DEF TypeOK, DropImport, StubRecord
  <2>2. /\ imports' = [imports EXCEPT ![p][i] = IF @ > 0 THEN @ - 1 ELSE @]
        /\ importsActive' = [importsActive EXCEPT ![p] = IF imports[p][i] = 1 THEN @ - 1 ELSE @]
    BY <1>4 DEF DropImport
  <2> HIDE DEF p, i
  <2>3. CASE q # p
    BY <1>0, <2>1, <2>2, <2>3 DEF Imported, TypeOK
  <2>4. CASE q = p
    <3>1. /\ imports[q] \in [ExportId -> Nat]
          /\ imports'[q] = [imports[q] EXCEPT ![i] = IF @ > 0 THEN @ - 1 ELSE @]
          /\ importsActive'[q] = IF imports[q][i] = 1 THEN importsActive[q] - 1 ELSE importsActive[q]
      BY <2>1, <2>2, <2>4 DEF TypeOK
    <3>2. CASE imports[q][i] = 1
      <4>1. Imported(q)' = Imported(q) \ {i} /\ i \in Imported(q)
        BY <2>1, <3>1, <3>2 DEF Imported
      <4>2. Cardinality(Imported(q)') = Cardinality(Imported(q)) - 1
        BY <1>0, <4>1, FS_RemoveElement
      <4>3. QED
        BY <1>0, <3>1, <3>2, <4>2
    <3>3. CASE imports[q][i] # 1
      <4>1. Imported(q)' = Imported(q)
        BY <2>1, <3>1, <3>3 DEF Imported
      <4>2. QED
        BY <1>0, <3>1, <3>3, <4>1
    <3>4. QED
      BY <3>2, <3>3
  <2>5. QED
    BY <2>3, <2>4
<1>5. ASSUME NEW p \in Peer, HandlePush(p) PROVE Goal
  <2>1. CASE Head(inbox[p]).id = NoId
    BY <1>1, <1>5, <2>1 DEF HandlePush
  <2>2. CASE Head(inbox[p]).id # NoId
    <3>1. closed[p] \in BOOLEAN
      BY DEF TypeOK
    <3>2. Head(inbox[p]).id \in ExportId
      BY <1>5, <2>2, <3>1, ReceiveType DEF HandlePush, Message, Abort, NoId
    <3>3. QED
      BY <1>2, <1>5, <2>2, <3>2 DEF HandlePush
  <2>3. QED
    BY <2>1, <2>2
<1>6. ASSUME NEW p \in Peer, NEW t \in Stub, NEW s \in Stub, ImportTarget(p, t, s) PROVE Goal
  <2>1. stubs[t].id \in ExportId
    BY <1>6 DEF TypeOK, ImportTarget, LiveAt
  <2>2. QED
    BY <1>2, <1>6, <2>1 DEF ImportTarget
<1>7. ASSUME NEW p \in Peer, PeerStep(p) PROVE Goal
  BY <1>1, <1>5, <1>6, <1>7
  DEF PeerStep, ExportValue, SendRequest, Call, FactoryStub, Close,
      HandleRelease, HandleAbort, StopLoop, tables
<1>8. ASSUME StubStep PROVE Goal
  BY <1>1, <1>3, <1>4, <1>8 DEF StubStep, GetProperty, Dispose, tables
<1>9. ASSUME UNCHANGED vars PROVE Goal
  BY <1>1, <1>9 DEF vars
<1>10. QED
  BY <1>7, <1>8, <1>9 DEF Next

(***************************************************************************)
(* stats.ImportsActive is never below the number of import entries          *)
(* (createImportStub, dispose; session.go:576-581, stub.go:204-224).        *)
(***************************************************************************)
THEOREM ImportGaugeBound == Spec => []ImportGaugeNeverLow
<1>1. TypeOK /\ ImportGaugeNeverLow /\ [Next]_vars => ImportGaugeNeverLow'
  BY ImportGaugeNext
<1>2. QED
  BY ImportGaugeInit, <1>1, TypeCorrect, PTL DEF Spec
=============================================================================
