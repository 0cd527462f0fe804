-------------------------------- MODULE InProcess --------------------------------
(***************************************************************************)
(* InProcessTransport (custom_transports.go): two ends, each with a channel *)
(* it sends into, a channel it receives from, and a goroutine that forwards *)
(* from the one to the other end's.  Send holds closeMux for reading while  *)
(* it waits for room; Close wants it for writing.                           *)
(***************************************************************************)
EXTENDS Integers, Sequences, FiniteSets

CONSTANTS
  Ends,          \* the two transports of a pair
  PairSends,     \* calls of Send, which stand for their messages
  EndOf,         \* the end each call is made on
  PairSendSize, PairReceiveSize

ASSUME InProcessAssumption ==
  /\ \E e, f \in Ends : e # f /\ Ends = {e, f}
  /\ EndOf \in [PairSends -> Ends]
  /\ PairSendSize \in Nat \ {0} /\ PairReceiveSize \in Nat \ {0}

VARIABLES
  end,       \* per end: its flag, its channels, how far Close is
  forwarder, \* per end: where messageForwarder is, and the message it has
  pairSend,  \* per Send: "new", "holding" the lock, or how it returned
  accepted,  \* per end: what Send took, in order
  delivered  \* per end: what Receive returned, in order

pairVars == <<end, forwarder, pairSend, accepted, delivered>>

Peer(e) == CHOOSE f \in Ends : f # e

PairInit ==
  /\ end = [e \in Ends |-> [closed |-> FALSE, close |-> "new", sendCh |-> <<>>, receiveCh |-> <<>>]]
  /\ forwarder = [e \in Ends |-> [pc |-> "select", message |-> <<>>]]
  /\ pairSend = [s \in PairSends |-> "new"]
  /\ accepted = [e \in Ends |-> <<>>]
  /\ delivered = [e \in Ends |-> <<>>]

-----------------------------------------------------------------------------
(* Send, Receive and Close.                                                *)

\* A Close that waits for the lock keeps new calls of Send out.
PairSendBegins(s) ==
  /\ pairSend[s] = "new" /\ end[EndOf[s]].close # "waiting"
  /\ pairSend' = [pairSend EXCEPT ![s] = IF end[EndOf[s]].closed THEN "refused" ELSE "holding"]
  /\ UNCHANGED <<end, forwarder, accepted, delivered>>

PairSendQueues(s) ==
  LET e == EndOf[s] IN
  /\ pairSend[s] = "holding" /\ Len(end[e].sendCh) < PairSendSize
  /\ pairSend' = [pairSend EXCEPT ![s] = "sent"]
  /\ end' = [end EXCEPT ![e].sendCh = Append(@, s)]
  /\ accepted' = [accepted EXCEPT ![e] = Append(@, s)]
  /\ UNCHANGED <<forwarder, delivered>>

\* The caller's context may end, and need not.
PairSendGivesUp(s) ==
  /\ pairSend[s] = "holding"
  /\ pairSend' = [pairSend EXCEPT ![s] = "refused"]
  /\ UNCHANGED <<end, forwarder, accepted, delivered>>

\* On a closed end the select may still choose a message.
PairReceive(e) ==
  /\ end[e].receiveCh # <<>>
  /\ end' = [end EXCEPT ![e].receiveCh = Tail(@)]
  /\ delivered' = [delivered EXCEPT ![e] = Append(@, Head(end[e].receiveCh))]
  /\ UNCHANGED <<forwarder, pairSend, accepted>>

PairWantsClose(e) ==
  /\ end[e].close = "new"
  /\ end' = [end EXCEPT ![e].close = "waiting"]
  /\ UNCHANGED <<forwarder, pairSend, accepted, delivered>>

PairClose(e) ==
  /\ end[e].close = "waiting"
  /\ \A s \in PairSends : EndOf[s] = e => pairSend[s] # "holding"
  /\ end' = [end EXCEPT ![e].close = "returned", ![e].closed = TRUE]
  /\ UNCHANGED <<forwarder, pairSend, accepted, delivered>>

-----------------------------------------------------------------------------
(* messageForwarder.                                                       *)

ForwarderTakes(e) ==
  /\ forwarder[e].pc = "select" /\ end[e].sendCh # <<>>
  /\ forwarder' = [forwarder EXCEPT ![e] = [pc |-> "look", message |-> <<Head(end[e].sendCh)>>]]
  /\ end' = [end EXCEPT ![e].sendCh = Tail(@)]
  /\ UNCHANGED <<pairSend, accepted, delivered>>

ForwarderStops(e) ==
  /\ forwarder[e].pc = "select" /\ end[e].closed
  /\ forwarder' = [forwarder EXCEPT ![e].pc = "gone"]
  /\ UNCHANGED <<end, pairSend, accepted, delivered>>

\* The peer's flag is read without its lock.
ForwarderLooks(e) ==
  /\ forwarder[e].pc = "look"
  /\ forwarder' = [forwarder EXCEPT ![e] =
       IF end[Peer(e)].closed THEN [pc |-> "select", message |-> <<>>] ELSE [@ EXCEPT !.pc = "put"]]
  /\ UNCHANGED <<end, pairSend, accepted, delivered>>

\* Mutant: a message may be dropped although the peer has room.
ForwarderPutsOrDrops(e) ==
  LET p == Peer(e) IN
  /\ forwarder[e].pc = "put"
  /\ forwarder' = [forwarder EXCEPT ![e] = [pc |-> "select", message |-> <<>>]]
  /\ \/ Len(end[p].receiveCh) < PairReceiveSize
        /\ end' = [end EXCEPT ![p].receiveCh = @ \o forwarder[e].message]
     \/ UNCHANGED end
  /\ UNCHANGED <<pairSend, accepted, delivered>>

\* Mutant: the forwarder waits for room.
ForwarderPutsPatiently(e) ==
  LET p == Peer(e) IN
  /\ forwarder[e].pc = "put"
  /\ \/ /\ Len(end[p].receiveCh) < PairReceiveSize
        /\ end' = [end EXCEPT ![p].receiveCh = @ \o forwarder[e].message]
        /\ forwarder' = [forwarder EXCEPT ![e] = [pc |-> "select", message |-> <<>>]]
     \/ /\ end[p].closed
        /\ forwarder' = [forwarder EXCEPT ![e] = [pc |-> "gone", message |-> <<>>]]
        /\ UNCHANGED end
  /\ UNCHANGED <<pairSend, accepted, delivered>>

\* The select puts the message when there is room, ends the goroutine when the
\* peer is closed, and otherwise drops the message.
ForwarderPuts(e) ==
  LET p == Peer(e)
      room == Len(end[p].receiveCh) < PairReceiveSize IN
  /\ forwarder[e].pc = "put"
  /\ \/ /\ room
        /\ end' = [end EXCEPT ![p].receiveCh = @ \o forwarder[e].message]
        /\ forwarder' = [forwarder EXCEPT ![e] = [pc |-> "select", message |-> <<>>]]
     \/ /\ end[p].closed
        /\ forwarder' = [forwarder EXCEPT ![e] = [pc |-> "gone", message |-> <<>>]]
        /\ UNCHANGED end
     \/ /\ ~room /\ ~end[p].closed
        /\ forwarder' = [forwarder EXCEPT ![e] = [pc |-> "select", message |-> <<>>]]
        /\ UNCHANGED end
  /\ UNCHANGED <<pairSend, accepted, delivered>>

ForwarderStep(e) == ForwarderTakes(e) \/ ForwarderStops(e) \/ ForwarderLooks(e) \/ ForwarderPuts(e)

PairNext ==
  \/ \E s \in PairSends : PairSendBegins(s) \/ PairSendQueues(s) \/ PairSendGivesUp(s)
  \/ \E e \in Ends : PairReceive(e) \/ PairWantsClose(e) \/ PairClose(e) \/ ForwarderStep(e)

\* Goroutines run, and a lock that is free is had; nobody needs to receive.
\* Every call returns once, so that some one goes on is fairness enough.
PairFairness ==
  /\ WF_pairVars(\E s \in PairSends : PairSendQueues(s))
  /\ WF_pairVars(\E e \in Ends : PairClose(e))
  /\ WF_pairVars(\E e \in Ends : ForwarderStep(e))

PairSpec == PairInit /\ [][PairNext]_pairVars /\ PairFairness

-----------------------------------------------------------------------------
(* Properties.                                                             *)

\* What Send took at one end reaches the other in order, and whole as long as
\* nobody has closed and no more was sent than the receive channel holds; past
\* that messages are dropped and Send has still reported success
\* (custom_transports.go:564-600, 618-635).
PairInOrder ==
  \A e \in Ends :
    LET p == Peer(e)
        passed == delivered[p] \o end[p].receiveCh \o forwarder[e].message \o end[e].sendCh
        place(s) == CHOOSE i \in DOMAIN accepted[e] : accepted[e][i] = s IN
    /\ \A i, j \in DOMAIN passed : i < j => place(passed[i]) < place(passed[j])
    /\ ~end[e].closed /\ ~end[p].closed /\ Len(accepted[e]) <= PairReceiveSize => passed = accepted[e]

\* Close returns although a Send may hold the lock while it waits for room, for
\* nobody has to receive for the forwarder to make room; only a forwarder that
\* has left, because it met the peer just as that closed, can leave a Send, and
\* the Close behind it, waiting.  An end is closed once, so it is enough that
\* time and again no other Close waits (custom_transports.go:564-635).
PairCloseReturns ==
  []<>(\A e \in Ends : end[e].close = "waiting" =>
         forwarder[e].pc = "gone" /\ end[Peer(e)].closed /\ Len(end[e].sendCh) = PairSendSize)
=============================================================================
