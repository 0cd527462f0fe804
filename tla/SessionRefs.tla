----------------------------- MODULE SessionRefs -----------------------------
(***************************************************************************)
(* The reference tables of two connected sessions (session.go, stub.go,    *)
(* serialize.go): who exports what, which stubs the other side holds, and  *)
(* the release messages that travel between them.                          *)
(*                                                                         *)
(* Each peer runs one Session over an in-memory transport: a FIFO channel  *)
(* of capacity Cap in each direction.  An export is a table entry with a   *)
(* RefCount; a stub is a handle on an import ID; disposing a stub sends    *)
(* ["release", id, 1] and then, in a second critical section, drops one    *)
(* local import reference.                                                 *)
(*                                                                         *)
(* The slots of Stub are handed out once and never recycled, so a disposed *)
(* stub is remembered together with the ID it stood for.                   *)
(***************************************************************************)
EXTENDS Integers, Sequences, FiniteSets

CONSTANTS
  Stub,        \* stub objects the two peers may ever create (bounds the model)
  MaxExports,  \* how many values each peer may export (bounds nextExportID)
  Cap          \* capacity of a MemoryTransport channel

ASSUME StubAssumption == IsFiniteSet(Stub)
ASSUME BoundAssumption == MaxExports \in Nat /\ Cap \in Nat

Peer == {"A", "B"}
Other(p) == IF p = "A" THEN "B" ELSE "A"

ExportId == 1 .. MaxExports
NoId == 0

\* What a message says about references.  A push carries the ID it mentions,
\* or NoId; ["import", i] and ["export", i] decode alike, so the tag is not kept.
Push(i)    == [type |-> "push",    id |-> i]
Release(i) == [type |-> "release", id |-> i]
Abort      == [type |-> "abort",   id |-> NoId]
Message    == [type : {"push"}, id : ExportId \cup {NoId}] \cup [type : {"release"}, id : ExportId]
                \cup {Abort}

StubState == {"free", "live", "releasing", "disposed"}
StubRecord == [state : StubState, at : Peer, id : ExportId \cup {NoId}]
FreeSlot == [state |-> "free", at |-> "A", id |-> NoId]
LiveStub(p, i) == [state |-> "live", at |-> p, id |-> i]

VARIABLES
  exports,        \* exports[p][i]: RefCount of p's export i, 0 if there is no entry
  nextExportID,   \* nextExportID[p]: the last export ID p has handed out
  exportsActive,  \* stats.ExportsActive of each session
  imports,        \* imports[p][i]: RefCount of p's import i, 0 if there is no entry
  importsActive,  \* stats.ImportsActive of each session
  stubs,          \* every stub object of either peer
  inbox,          \* inbox[p]: messages sent to p and not yet received
  closed,         \* Session.closed
  looping         \* the session's messageLoop goroutine is still running

tables == <<exports, nextExportID, exportsActive, imports, importsActive>>
vars == <<exports, nextExportID, exportsActive, imports, importsActive,
          stubs, inbox, closed, looping>>

Init ==
  /\ exports = [p \in Peer |-> [i \in ExportId |-> 0]]
  /\ nextExportID = [p \in Peer |-> 0]
  /\ exportsActive = [p \in Peer |-> 0]
  /\ imports = [p \in Peer |-> [i \in ExportId |-> 0]]
  /\ importsActive = [p \in Peer |-> 0]
  /\ stubs = [s \in Stub |-> FreeSlot]
  /\ inbox = [p \in Peer |-> <<>>]
  /\ closed = [p \in Peer |-> FALSE]
  /\ looping = [p \in Peer |-> TRUE]

-----------------------------------------------------------------------------
(* What the operations are made of.                                        *)

\* Session.Send of m by p: refused once p is closed, else it waits for room.
Send(p, m) ==
  \/ /\ closed[p]
     /\ UNCHANGED inbox
  \/ /\ ~closed[p]
     /\ Len(inbox[Other(p)]) < Cap
     /\ inbox' = [inbox EXCEPT ![Other(p)] = Append(@, m)]

\* Mutant: the first ID without an entry is handed out again.
AddExportRecycling(p) ==
  \E i \in ExportId :
     /\ exports[p][i] = 0 /\ i <= nextExportID[p] + 1
     /\ nextExportID' = [nextExportID EXCEPT ![p] = IF i > @ THEN i ELSE @]
     /\ exports' = [exports EXCEPT ![p][i] = 1]
     /\ exportsActive' = [exportsActive EXCEPT ![p] = @ + 1]

\* exportValue: a fresh ID and an entry with RefCount 1, on open and closed
\* sessions alike.
AddExport(p) ==
  LET i == nextExportID[p] + 1
  IN  /\ i \in ExportId
      /\ nextExportID' = [nextExportID EXCEPT ![p] = i]
      /\ exports' = [exports EXCEPT ![p][i] = 1]
      /\ exportsActive' = [exportsActive EXCEPT ![p] = @ + 1]

\* createImportStub: a NEW entry with RefCount 1 replaces whatever was there,
\* and the gauge goes up in either case.
AddImport(p, i) ==
  /\ imports' = [imports EXCEPT ![p][i] = 1]
  /\ importsActive' = [importsActive EXCEPT ![p] = @ + 1]

\* Stub slot s becomes a live stub for import i of p.
NewStub(s, p, i) ==
  /\ stubs[s].state = "free"
  /\ stubs' = [stubs EXCEPT ![s] = LiveStub(p, i)]

LiveAt(s, p) == stubs[s].state = "live" /\ stubs[s].at = p

\* What p can mention in a message it sends: nothing, a local stub for one of
\* its exports (even one whose entry is gone), or an import stub it holds.
Mentionable(p) ==
  {NoId} \cup 1 .. nextExportID[p]
         \cup {stubs[s].id : s \in {t \in Stub : LiveAt(t, p)}}

-----------------------------------------------------------------------------
(* The application.                                                        *)

ExportValue(p) ==
  /\ AddExport(p)
  /\ UNCHANGED <<imports, importsActive, stubs, inbox, closed, looping>>

\* Session.Send / SendRequest of a push that mentions r.
SendRequest(p, r) ==
  /\ ~closed[p]
  /\ Send(p, Push(r))
  /\ UNCHANGED <<tables, stubs, closed, looping>>

\* stubImpl.Call: exports a placeholder for the result, then sends the push;
\* a failed send leaves the placeholder behind.
Call(p, s, r) ==
  /\ LiveAt(s, p)
  /\ AddExport(p)
  /\ Send(p, Push(r))
  /\ UNCHANGED <<imports, importsActive, stubs, closed, looping>>

\* BasicStubFactory.CreateImportStub: a stub with no import entry of its own.
FactoryStub(p, i, s) ==
  /\ i <= nextExportID[Other(p)]
  /\ NewStub(s, p, i)
  /\ UNCHANGED <<tables, inbox, closed, looping>>

\* PipelineManager.executeOperation imports its target again for each operation.
ImportTarget(p, t, s) ==
  /\ LiveAt(t, p)
  /\ NewStub(s, p, stubs[t].id)
  /\ AddImport(p, stubs[t].id)
  /\ UNCHANGED <<exports, nextExportID, exportsActive, inbox, closed, looping>>

\* stubImpl.Clone (also Promise.Then and Promise.Get): one more import
\* reference, if the entry is still there.
Clone(s, t) ==
  LET p == stubs[s].at
      i == stubs[s].id
  IN  /\ stubs[s].state = "live"
      /\ NewStub(t, p, i)
      /\ imports' = [imports EXCEPT ![p][i] = IF @ > 0 THEN @ + 1 ELSE @]
      /\ UNCHANGED <<exports, nextExportID, exportsActive, importsActive,
                     inbox, closed, looping>>

\* stubImpl.Get: the derived stub takes no import reference.
GetProperty(s, t) ==
  /\ stubs[s].state = "live"
  /\ NewStub(t, stubs[s].at, stubs[s].id)
  /\ UNCHANGED <<tables, inbox, closed, looping>>

\* Mutant: the disposed flag is not swapped before the release is sent.
DisposeAgain(s) ==
  /\ stubs[s].state \in {"live", "releasing"}
  /\ stubs' = [stubs EXCEPT ![s].state = "releasing"]
  /\ Send(stubs[s].at, Release(stubs[s].id))
  /\ UNCHANGED <<tables, closed, looping>>

\* stubImpl.dispose up to its Send: the disposed flag is swapped once, then the
\* release goes out; a refused send is ignored.
Dispose(s) ==
  /\ stubs[s].state = "live"
  /\ stubs' = [stubs EXCEPT ![s].state = "releasing"]
  /\ Send(stubs[s].at, Release(stubs[s].id))
  /\ UNCHANGED <<tables, closed, looping>>

\* Mutant: dispose gives no import reference back.
DropImportNothing(s) ==
  /\ stubs[s].state = "releasing"
  /\ stubs' = [stubs EXCEPT ![s].state = "disposed"]
  /\ UNCHANGED <<tables, inbox, closed, looping>>

\* The rest of dispose: give back one import reference under session.mu.
DropImport(s) ==
  LET p == stubs[s].at
      i == stubs[s].id
  IN  /\ stubs[s].state = "releasing"
      /\ stubs' = [stubs EXCEPT ![s].state = "disposed"]
      /\ imports' = [imports EXCEPT ![p][i] = IF @ > 0 THEN @ - 1 ELSE @]
      /\ importsActive' = [importsActive EXCEPT ![p] = IF imports[p][i] = 1 THEN @ - 1 ELSE @]
      /\ UNCHANGED <<exports, nextExportID, exportsActive, inbox, closed, looping>>

\* Session.Close: the context is cancelled before the abort is sent, so the
\* transport's select may drop the message even when there is room.
Close(p) ==
  /\ ~closed[p]
  /\ closed' = [closed EXCEPT ![p] = TRUE]
  /\ \/ UNCHANGED inbox
     \/ /\ Len(inbox[Other(p)]) < Cap
        /\ inbox' = [inbox EXCEPT ![Other(p)] = Append(@, Abort)]
  /\ UNCHANGED <<tables, stubs, looping>>

-----------------------------------------------------------------------------
(* messageLoop and its handlers.                                           *)

\* p's loop takes the next message.  A loop that was already inside Receive when
\* the session closed may still get one, and stops after it.
Receive(p, stop) ==
  /\ looping[p]
  /\ inbox[p] # <<>>
  /\ inbox' = [inbox EXCEPT ![p] = Tail(@)]
  /\ looping' = [looping EXCEPT ![p] = ~stop]

\* DecodeMessage imports the reference a push mentions; handlePush does nothing.
HandlePush(p) ==
  /\ Receive(p, closed[p])
  /\ Head(inbox[p]).type = "push"
  /\ \/ /\ Head(inbox[p]).id = NoId
        /\ UNCHANGED <<imports, importsActive, stubs>>
     \/ /\ Head(inbox[p]).id # NoId
        /\ \E s \in Stub : NewStub(s, p, Head(inbox[p]).id)
        /\ AddImport(p, Head(inbox[p]).id)
  /\ UNCHANGED <<exports, nextExportID, exportsActive, closed>>

\* An entry that reaches zero is deleted; a release for an unknown ID is ignored.
HandleRelease(p) ==
  LET i == Head(inbox[p]).id
  IN  /\ Receive(p, closed[p])
      /\ Head(inbox[p]).type = "release"
      /\ exports' = [exports EXCEPT ![p][i] = IF @ > 0 THEN @ - 1 ELSE @]
      /\ exportsActive' = [exportsActive EXCEPT ![p] = IF exports[p][i] = 1 THEN @ - 1 ELSE @]
      /\ UNCHANGED <<nextExportID, imports, importsActive, stubs, closed>>

HandleAbort(p) ==
  /\ Receive(p, TRUE)
  /\ Head(inbox[p]).type = "abort"
  /\ closed' = [closed EXCEPT ![p] = TRUE]
  /\ UNCHANGED <<tables, stubs>>

\* The loop sees the cancelled context and returns.
StopLoop(p) ==
  /\ looping[p]
  /\ closed[p]
  /\ looping' = [looping EXCEPT ![p] = FALSE]
  /\ UNCHANGED <<tables, stubs, inbox, closed>>

-----------------------------------------------------------------------------
PeerStep(p) ==
  \/ ExportValue(p)
  \/ \E r \in Mentionable(p) : SendRequest(p, r)
  \/ \E s \in Stub, r \in Mentionable(p) : Call(p, s, r)
  \/ \E i \in ExportId, s \in Stub : FactoryStub(p, i, s)
  \/ \E t, s \in Stub : ImportTarget(p, t, s)
  \/ Close(p)
  \/ HandlePush(p)
  \/ HandleRelease(p)
  \/ HandleAbort(p)
  \/ StopLoop(p)

StubStep ==
  \/ \E s, t \in Stub : Clone(s, t) \/ GetProperty(s, t)
  \/ \E s \in Stub : Dispose(s) \/ DropImport(s)

Next == StubStep \/ \E p \in Peer : PeerStep(p)

Spec == Init /\ [][Next]_vars

-----------------------------------------------------------------------------
(* Properties.                                                             *)

\* Every variable has its type: tables count upwards from zero, messages and
\* stubs are well formed, and no channel exceeds its capacity (session.go:12-45).
TypeOK ==
  /\ exports \in [Peer -> [ExportId -> Nat]]
  /\ nextExportID \in [Peer -> 0 .. MaxExports]
  /\ exportsActive \in [Peer -> Int]
  /\ imports \in [Peer -> [ExportId -> Nat]]
  /\ importsActive \in [Peer -> Int]
  /\ stubs \in [Stub -> StubRecord]
  /\ \A s \in Stub : stubs[s].state # "free" => stubs[s].id \in ExportId
  /\ inbox \in [Peer -> Seq(Message)]
  /\ \A p \in Peer : Len(inbox[p]) <= Cap
  /\ closed \in [Peer -> BOOLEAN]
  /\ looping \in [Peer -> BOOLEAN]

StubsOf(p, i) == {s \in Stub : stubs[s].state # "free" /\ stubs[s].at = p /\ stubs[s].id = i}
Holding(p, i) == {s \in StubsOf(p, i) : stubs[s].state \in {"live", "releasing"}}
Released(p, i) == {s \in StubsOf(p, i) : stubs[s].state \in {"releasing", "disposed"}}
InFlight(p, i) == {k \in DOMAIN inbox[p] : inbox[p][k] = Release(i)}
Exported(p, i) == i <= nextExportID[p]
Dropped(p, i) == Exported(p, i) /\ exports[p][i] = 0

\* stats.ExportsActive is exact: it always equals the number of entries in the
\* export table (exportValue, handleRelease; session.go:508-515, 553-556).
ExportGaugeExact ==
  \A p \in Peer : exportsActive[p] = Cardinality({i \in ExportId : exports[p][i] > 0})

\* stats.ImportsActive never under-reports, although re-importing an ID makes it
\* drift upwards (createImportStub, dispose; session.go:576-581, stub.go:210-215).
ImportGaugeNeverLow ==
  \A p \in Peer : importsActive[p] >= Cardinality({i \in ExportId : imports[p][i] > 0})

\* An import entry never counts more references than there are stubs that will
\* still give one back, so no entry outlives its last stub, however stubs are
\* cloned, derived, re-imported and disposed (session.go:563-589, stub.go:191-299).
ImportNeedsHolder ==
  \A p \in Peer, i \in ExportId : imports[p][i] <= Cardinality(Holding(p, i))

\* Releases are conserved: those in flight to p for an export, plus one if the
\* export is gone, are backed by as many disposed stubs on the other side.  No
\* stub releases twice and no export is dropped while every stub for it is
\* still undisposed (dispose and handleRelease; stub.go:191-225, session.go:490-517).
ReleaseAccounting ==
  \A p \in Peer, i \in ExportId :
     Cardinality(InFlight(p, i)) + (IF Dropped(p, i) THEN 1 ELSE 0)
        <= Cardinality(Released(Other(p), i))

\* An export ID that was dropped is never given to another value: a late release
\* or pull can miss its target but not hit a younger one (exportValue; session.go:543).
ExportNeverReborn ==
  [][\A p \in Peer, i \in ExportId : Dropped(p, i) => Dropped(p, i)']_vars

\* "RefCount tracks how many remote references exist" (session.go:81): while the
\* other side holds a live stub for an ID this side exported, the entry is there.
LiveStubHasExport ==
  \A s \in Stub :
     LET p == Other(stubs[s].at)
     IN  stubs[s].state = "live" /\ Exported(p, stubs[s].id) => exports[p][stubs[s].id] > 0
=============================================================================
