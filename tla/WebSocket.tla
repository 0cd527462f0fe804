-------------------------------- MODULE WebSocket --------------------------------
(***************************************************************************)
(* WebSocketTransport (websocket_transport.go): one connection, a pump that *)
(* reads, a pump that writes, a keep-alive loop, and a goroutine that tries *)
(* to reconnect.  Send holds closeMux for reading while it waits for room,  *)
(* and Close and Connect want closeMux for writing.                         *)
(***************************************************************************)
EXTENDS Integers, Sequences, FiniteSets

CONSTANTS
  Senders,               \* calls of Send
  SendSize,              \* capacity of sendCh
  ReceiveSize,           \* capacity of receiveCh
  MaxReconnectAttempts,
  MaxRead                \* bound: messages that arrive

\* Who may want closeMux for writing.
Lockers == {"user", "readPump", "keepAlive", "reconnect"}

ASSUME WebSocketAssumption ==
  /\ SendSize \in Nat \ {0} /\ ReceiveSize \in Nat \ {0}
  /\ MaxReconnectAttempts \in Nat /\ MaxRead \in Nat

VARIABLES
  connected, closed,     \* closed: closeCh and sendCh are closed with it
  conns,                 \* connections made so far
  locker,                \* per Locker: wants nothing, "connect" or "close"
  sending,               \* per Send: "new", "holding" closeMux, or how it returned
  sendCh, receiveCh,     \* how many messages they hold
  readPump, writePump, keepAlive, \* of the last connection
  attempt,               \* of reconnect; 0 when it does not run
  read                   \* messages that arrived

wsVars == <<connected, closed, conns, locker, sending, sendCh, receiveCh,
            readPump, writePump, keepAlive, attempt, read>>
pumps == <<readPump, writePump, keepAlive>>

\* NewWebSocketTransport, or NewWebSocketTransportWithConn.
WSInit ==
  /\ connected \in BOOLEAN /\ closed = FALSE
  /\ conns = IF connected THEN 1 ELSE 0
  /\ locker = [l \in Lockers |-> "none"]
  /\ sending = [s \in Senders |-> "new"]
  /\ sendCh = 0 /\ receiveCh = 0
  /\ readPump = (IF connected THEN "running" ELSE "none")
  /\ writePump = readPump /\ keepAlive = readPump
  /\ attempt = 0 /\ read = 0

Holders == {s \in Senders : sending[s] = "holding"}
Wanting == {l \in Lockers : locker[l] # "none"}

-----------------------------------------------------------------------------
(* Connect and Close, under the write lock.                                *)

WantsConnect ==
  /\ locker["user"] = "none"
  /\ locker' = [locker EXCEPT !["user"] = "connect"]
  /\ UNCHANGED <<connected, closed, conns, sending, sendCh, receiveCh, pumps, attempt, read>>

\* reconnect goes on with its next attempt, or gives up.
AfterAttempt(l) ==
  IF l # "reconnect" THEN UNCHANGED attempt
  ELSE attempt' = IF attempt < MaxReconnectAttempts THEN attempt + 1 ELSE -1

\* Mutant: Connect does not look whether the transport is connected.
ConnectTwice(l) ==
  /\ locker[l] = "connect" /\ Holders = {}
  /\ locker' = [locker EXCEPT ![l] = "none"]
  /\ connected' = TRUE
  /\ conns' = conns + 1
  /\ readPump' = "running" /\ writePump' = "running" /\ keepAlive' = "running"
  /\ attempt' = 0
  /\ UNCHANGED <<closed, sending, sendCh, receiveCh, read>>

Connect(l) ==
  /\ locker[l] = "connect" /\ Holders = {}
  /\ locker' = [locker EXCEPT ![l] = "none"]
  /\ \/ /\ connected \/ closed
        /\ AfterAttempt(l)
        /\ UNCHANGED <<connected, conns, pumps>>
     \/ /\ ~connected /\ ~closed
        /\ connected' = TRUE
        /\ conns' = conns + 1
        /\ readPump' = "running" /\ writePump' = "running" /\ keepAlive' = "running"
        /\ attempt' = 0
  /\ UNCHANGED <<closed, sending, sendCh, receiveCh, read>>

WantsClose ==
  /\ locker["user"] = "none"
  /\ locker' = [locker EXCEPT !["user"] = "close"]
  /\ UNCHANGED <<connected, closed, conns, sending, sendCh, receiveCh, pumps, attempt, read>>

Close(l) ==
  /\ locker[l] = "close" /\ Holders = {}
  /\ locker' = [locker EXCEPT ![l] = "none"]
  /\ closed' = TRUE
  /\ connected' = FALSE
  /\ UNCHANGED <<conns, sending, sendCh, receiveCh, pumps, attempt, read>>

-----------------------------------------------------------------------------
(* Send and Receive.                                                       *)

\* The read lock is not to be had while somebody waits for the write lock.
SendBegins(s) ==
  /\ sending[s] = "new" /\ Wanting = {}
  /\ sending' = [sending EXCEPT ![s] = IF closed \/ ~connected THEN "refused" ELSE "holding"]
  /\ UNCHANGED <<connected, closed, conns, locker, sendCh, receiveCh, pumps, attempt, read>>

SendQueues(s) ==
  /\ sending[s] = "holding" /\ sendCh < SendSize
  /\ sending' = [sending EXCEPT ![s] = "sent"]
  /\ sendCh' = sendCh + 1
  /\ UNCHANGED <<connected, closed, conns, locker, receiveCh, pumps, attempt, read>>

\* The caller's context may end, and need not.
SendGivesUp(s) ==
  /\ sending[s] = "holding"
  /\ sending' = [sending EXCEPT ![s] = "refused"]
  /\ UNCHANGED <<connected, closed, conns, locker, sendCh, receiveCh, pumps, attempt, read>>

ReceiveWS ==
  /\ receiveCh > 0
  /\ receiveCh' = receiveCh - 1
  /\ UNCHANGED <<connected, closed, conns, locker, sending, sendCh, pumps, attempt, read>>

-----------------------------------------------------------------------------
(* The pumps.                                                              *)

\* A message is dropped when receiveCh is full.
ReadMessage ==
  /\ readPump = "running" /\ ~closed /\ read < MaxRead
  /\ read' = read + 1
  /\ receiveCh' = IF receiveCh < ReceiveSize THEN receiveCh + 1 ELSE receiveCh
  /\ UNCHANGED <<connected, closed, conns, locker, sending, sendCh, pumps, attempt>>

\* An error, which a closed connection is, or a close frame: the deferred Close
\* wants the lock; on an error before Close, reconnect is started as well.
ReadEnds ==
  /\ readPump = "running"
  /\ readPump' = "ended"
  /\ locker' = [locker EXCEPT !["readPump"] = "close"]
  /\ \/ ~closed /\ attempt = 0 /\ attempt' = IF MaxReconnectAttempts > 0 THEN 1 ELSE -1
     \/ UNCHANGED attempt
  /\ UNCHANGED <<connected, closed, conns, sending, sendCh, receiveCh, writePump, keepAlive, read>>

\* Mutant: the pump also returns when somebody is about to close.
WriteLosesHeart ==
  /\ writePump = "running"
  /\ \/ sendCh > 0 /\ Wanting = {} /\ sendCh' = sendCh - 1 /\ UNCHANGED writePump
     \/ sendCh > 0 /\ Wanting # {} /\ writePump' = "ended" /\ UNCHANGED sendCh
     \/ closed /\ writePump' = "ended" /\ UNCHANGED sendCh
  /\ UNCHANGED <<connected, closed, conns, locker, sending, receiveCh, readPump, keepAlive, attempt, read>>

\* A message is written; on an error the pump returns, and nobody is told.
WriteMessage ==
  /\ writePump = "running"
  /\ \/ sendCh > 0 /\ sendCh' = sendCh - 1 /\ UNCHANGED writePump
     \/ sendCh > 0 /\ sendCh' = sendCh - 1 /\ writePump' = "failed"
     \/ closed /\ writePump' = "ended" /\ UNCHANGED sendCh
  /\ UNCHANGED <<connected, closed, conns, locker, sending, receiveCh, readPump, keepAlive, attempt, read>>

\* The loop pings, and returns on an error; without a pong in time it closes
\* the transport; closeCh ends it.
KeepAlive ==
  /\ \/ keepAlive = "running" /\ ~closed /\ keepAlive' \in {"pinged", "ended"} /\ UNCHANGED locker
     \/ keepAlive = "pinged" /\ ~closed /\ keepAlive' = "running" /\ UNCHANGED locker
     \/ keepAlive = "pinged" /\ keepAlive' = "ended"
        /\ locker' = [locker EXCEPT !["keepAlive"] = "close"]
     \/ keepAlive \in {"running", "pinged"} /\ closed /\ keepAlive' = "ended" /\ UNCHANGED locker
  /\ UNCHANGED <<connected, closed, conns, sending, sendCh, receiveCh, readPump, writePump, attempt, read>>

\* reconnect: one attempt after the other until the transport is closed; after
\* the last it closes the transport itself.
Reconnect ==
  /\ attempt # 0 /\ locker["reconnect"] = "none"
  /\ \/ closed /\ attempt' = 0 /\ UNCHANGED locker
     \/ attempt > 0 /\ UNCHANGED attempt
        /\ locker' = [locker EXCEPT !["reconnect"] = "connect"]
     \/ attempt = -1 /\ attempt' = 0
        /\ locker' = [locker EXCEPT !["reconnect"] = "close"]
  /\ UNCHANGED <<connected, closed, conns, sending, sendCh, receiveCh, pumps, read>>

WSNext ==
  \/ WantsConnect \/ WantsClose \/ ReceiveWS \/ ReadMessage \/ ReadEnds
  \/ WriteMessage \/ KeepAlive \/ Reconnect
  \/ \E l \in Lockers : Connect(l) \/ Close(l)
  \/ \E s \in Senders : SendBegins(s) \/ SendQueues(s) \/ SendGivesUp(s)

\* Goroutines keep running; whoever can have the lock, or put a message, goes on.
WSFairness ==
  /\ WF_wsVars(WriteMessage) /\ WF_wsVars(closed /\ ReadEnds)
  /\ \A l \in Lockers : WF_wsVars(Connect(l)) /\ WF_wsVars(Close(l))
  /\ \A s \in Senders : WF_wsVars(SendQueues(s))

WSSpec == WSInit /\ [][WSNext]_wsVars /\ WSFairness

-----------------------------------------------------------------------------
(* Properties.                                                             *)

\* Every variable has its type.
WSTypeOK ==
  /\ connected \in BOOLEAN /\ closed \in BOOLEAN /\ conns \in Nat
  /\ locker \in [Lockers -> {"none", "connect", "close"}]
  /\ sending \in [Senders -> {"new", "holding", "sent", "refused"}]
  /\ sendCh \in 0..SendSize /\ receiveCh \in 0..ReceiveSize
  /\ readPump \in {"none", "running", "ended"}
  /\ writePump \in {"none", "running", "failed", "ended"}
  /\ keepAlive \in {"none", "running", "pinged", "ended"}
  /\ attempt \in -1..MaxReconnectAttempts /\ read \in Nat

\* However a lost connection, reconnect, Connect and Close interleave, the pumps
\* are started for one connection only, so no two of them share a channel
\* (websocket_transport.go:186-228, 295-311, 405-433).
OneConnection == conns <= 1 /\ (connected => conns = 1)

\* Whoever closes the transport, or connects it, gets the lock: a Send that
\* waits for room keeps it away no longer than the write pump lives
\* (websocket_transport.go:231-251, 266-292, 340-368).
LockIsHad == \A l \in Lockers :
  locker[l] # "none" ~> (locker[l] = "none" \/ writePump = "failed")
=============================================================================
