----------------------------- MODULE Subscriptions -----------------------------
(***************************************************************************)
(* Event subscriptions of a BidirectionalSession (bidirectional.go): the    *)
(* table, one goroutine and one channel per subscription, and handleEvent.  *)
(*                                                                         *)
(* Session.Send succeeds or fails and may take its time.  Nothing in the    *)
(* package calls the session's processBidirectionalMessage: Handlers are    *)
(* the threads of a program that does.                                      *)
(***************************************************************************)
EXTENDS Integers

CONSTANTS
  Subs,      \* Subscribe calls; each makes one subscription
  Events,    \* event IDs
  Buffer,    \* EventBufferSize
  MaxData,   \* bound: events that arrive
  Handlers,  \* threads that handle messages
  None

ASSUME SubscriptionsAssumption ==
  /\ None \notin Subs
  /\ Buffer \in Nat \ {0} /\ MaxData \in Nat

VARIABLES
  subscriptions, \* the table: event -> subscription
  sub,           \* per subscription: its event, Active and its channel
  stage,         \* where Subscribe and the subscription's Unsubscribe are
  mux,           \* the Unsubscribe that holds subscriptionsMux for writing
  loop,          \* per subscription: where processSubscription is
  spawned,       \* per subscription: callbacks whose goroutine has not run yet
  due,           \* per subscription: those there were when Unsubscribe closed the channel
  late,          \* per subscription: callbacks that ran after that
  handler,       \* handleEvent: where each handler is
  arrived        \* events that arrived so far

eventVars == <<handler, arrived>>
callbackVars == <<spawned, due, late>>
subVars == <<subscriptions, sub, stage, mux, loop, callbackVars, eventVars>>

Subscription == [event : Events \cup {None}, active : BOOLEAN,
                 chan : {"none", "open", "closed"}, pending : 0..Buffer]

Free == [pc |-> "idle", found |-> None]

SubInit ==
  /\ subscriptions = [e \in Events |-> None]
  /\ sub = [s \in Subs |-> [event |-> None, active |-> FALSE, chan |-> "none", pending |-> 0]]
  /\ stage = [s \in Subs |-> "idle"]
  /\ mux = None
  /\ loop = [s \in Subs |-> "none"]
  /\ spawned = [s \in Subs |-> 0] /\ due = [s \in Subs |-> 0] /\ late = [s \in Subs |-> 0]
  /\ handler = [h \in Handlers |-> Free]
  /\ arrived = 0

-----------------------------------------------------------------------------
(* Subscribe and Unsubscribe.                                              *)

\* Subscribe stores the subscription under its event, whatever is there, and
\* starts the goroutine.
Subscribe(s, e) ==
  /\ stage[s] = "idle"
  /\ mux = None
  /\ subscriptions' = [subscriptions EXCEPT ![e] = s]
  /\ sub' = [sub EXCEPT ![s] = [event |-> e, active |-> TRUE, chan |-> "open", pending |-> 0]]
  /\ loop' = [loop EXCEPT ![s] = "receive"]
  /\ stage' = [stage EXCEPT ![s] = "sending"]
  /\ UNCHANGED <<mux, callbackVars, eventVars>>

\* The subscribe message went out, or failed and Subscribe calls Unsubscribe.
SubscribeSent(s) ==
  /\ stage[s] = "sending"
  /\ stage' \in {[stage EXCEPT ![s] = "subscribed"], [stage EXCEPT ![s] = "undo"]}
  /\ UNCHANGED <<subscriptions, sub, mux, loop, callbackVars, eventVars>>

\* Mutant: the entry stays in the table.
UnsubscribeKeepsEntry(s) ==
  /\ stage[s] \in {"subscribed", "undo"}
  /\ mux = None
  /\ \/ /\ \A e \in Events : subscriptions[e] # s
        /\ stage' = [stage EXCEPT ![s] = "notfound"]
        /\ UNCHANGED <<subscriptions, sub, mux, due>>
     \/ /\ \E e \in Events : subscriptions[e] = s
        /\ sub' = [sub EXCEPT ![s].active = FALSE, ![s].chan = "closed"]
        /\ due' = [due EXCEPT ![s] = spawned[s]]
        /\ mux' = s
        /\ stage' = [stage EXCEPT ![s] = "unsubscribing"]
        /\ UNCHANGED subscriptions
  /\ UNCHANGED <<loop, spawned, late, eventVars>>

\* Mutant: the subscription is marked, and its goroutine not woken.
UnsubscribeQuietly(s) ==
  /\ stage[s] \in {"subscribed", "undo"}
  /\ mux = None
  /\ \/ /\ \A e \in Events : subscriptions[e] # s
        /\ stage' = [stage EXCEPT ![s] = "notfound"]
        /\ UNCHANGED <<subscriptions, sub, mux, due>>
     \/ \E e \in Events :
        /\ subscriptions[e] = s
        /\ sub' = [sub EXCEPT ![s].active = FALSE]
        /\ subscriptions' = [subscriptions EXCEPT ![e] = None]
        /\ due' = [due EXCEPT ![s] = spawned[s]]
        /\ mux' = s
        /\ stage' = [stage EXCEPT ![s] = "unsubscribing"]
  /\ UNCHANGED <<loop, spawned, late, eventVars>>

\* Unsubscribe looks the subscription up by its ID, ends it and removes the
\* entry, and keeps the table locked while it sends the message.
Unsubscribe(s) ==
  /\ stage[s] \in {"subscribed", "undo"}
  /\ mux = None
  /\ \/ /\ \A e \in Events : subscriptions[e] # s
        /\ stage' = [stage EXCEPT ![s] = "notfound"]
        /\ UNCHANGED <<subscriptions, sub, mux, due>>
     \/ \E e \in Events :
        /\ subscriptions[e] = s
        /\ sub' = [sub EXCEPT ![s].active = FALSE, ![s].chan = "closed"]
        /\ subscriptions' = [subscriptions EXCEPT ![e] = None]
        /\ due' = [due EXCEPT ![s] = spawned[s]]
        /\ mux' = s
        /\ stage' = [stage EXCEPT ![s] = "unsubscribing"]
  /\ UNCHANGED <<loop, spawned, late, eventVars>>

\* Sent or not, the lock is released.
UnsubscribeSent(s) ==
  /\ stage[s] = "unsubscribing"
  /\ mux' = None
  /\ stage' = [stage EXCEPT ![s] = "unsubscribed"]
  /\ UNCHANGED <<subscriptions, sub, loop, callbackVars, eventVars>>

-----------------------------------------------------------------------------
(* processSubscription: one goroutine per subscription.                    *)

\* The range takes the next event, or ends when the channel is closed and empty.
LoopReceive(s) ==
  /\ loop[s] = "receive"
  /\ \/ /\ sub[s].pending > 0
        /\ loop' = [loop EXCEPT ![s] = "check"]
        /\ sub' = [sub EXCEPT ![s].pending = @ - 1]
     \/ /\ sub[s].pending = 0
        /\ sub[s].chan = "closed"
        /\ loop' = [loop EXCEPT ![s] = "ended"]
        /\ UNCHANGED sub
  /\ UNCHANGED <<subscriptions, stage, mux, callbackVars, eventVars>>

\* Mutant: whatever is in the channel is delivered.
LoopNoCheck(s) ==
  /\ loop[s] = "check"
  /\ loop' = [loop EXCEPT ![s] = "start"]
  /\ UNCHANGED <<subscriptions, sub, stage, mux, callbackVars, eventVars>>

LoopCheck(s) ==
  /\ loop[s] = "check"
  /\ loop' = [loop EXCEPT ![s] = IF sub[s].active THEN "start" ELSE "receive"]
  /\ UNCHANGED <<subscriptions, sub, stage, mux, callbackVars, eventVars>>

\* The callback gets a goroutine of its own, which starts when it is scheduled.
LoopStart(s) ==
  /\ loop[s] = "start"
  /\ loop' = [loop EXCEPT ![s] = "receive"]
  /\ spawned' = [spawned EXCEPT ![s] = @ + 1]
  /\ UNCHANGED <<subscriptions, sub, stage, mux, due, late, eventVars>>

\* A callback runs; it may panic harmlessly.
RunCallback(s) ==
  /\ spawned[s] > 0
  /\ spawned' = [spawned EXCEPT ![s] = @ - 1]
  /\ late' = [late EXCEPT ![s] = IF sub[s].chan = "closed" THEN @ + 1 ELSE @]
  /\ UNCHANGED <<subscriptions, sub, stage, mux, loop, due, eventVars>>

-----------------------------------------------------------------------------
(* handleEvent.                                                            *)

subRest == <<subscriptions, sub, stage, mux, loop, callbackVars>>

\* The lookup, under the read lock.
EventArrives(h, e) ==
  /\ handler[h].pc = "idle"
  /\ mux = None
  /\ arrived < MaxData
  /\ arrived' = arrived + 1
  /\ handler' = [handler EXCEPT ![h] =
       IF subscriptions[e] = None THEN Free
       ELSE [pc |-> "check", found |-> subscriptions[e]]]
  /\ UNCHANGED subRest

\* Active is read after the lock is released.
EventCheck(h) ==
  /\ handler[h].pc = "check"
  /\ handler' = [handler EXCEPT ![h] = IF sub[@.found].active THEN [@ EXCEPT !.pc = "send"] ELSE Free]
  /\ UNCHANGED <<subRest, arrived>>

\* The non-blocking send: a closed channel panics, a full one drops the event.
EventSend(h) ==
  LET s == handler[h].found IN
  /\ handler[h].pc = "send"
  /\ handler' = [handler EXCEPT ![h] = IF sub[s].chan = "closed" THEN [@ EXCEPT !.pc = "panicked"] ELSE Free]
  /\ sub' = IF sub[s].chan = "open" /\ sub[s].pending < Buffer
            THEN [sub EXCEPT ![s].pending = @ + 1] ELSE sub
  /\ UNCHANGED <<subscriptions, stage, mux, loop, callbackVars, arrived>>

-----------------------------------------------------------------------------
LoopStep(s) == LoopReceive(s) \/ LoopCheck(s) \/ LoopStart(s)

HandlerStep(h) == EventCheck(h) \/ EventSend(h)

SubNext ==
  \/ \E s \in Subs, e \in Events : Subscribe(s, e)
  \/ \E s \in Subs : SubscribeSent(s) \/ Unsubscribe(s) \/ UnsubscribeSent(s)
  \/ \E s \in Subs : LoopStep(s) \/ RunCallback(s)
  \/ \E h \in Handlers, e \in Events : EventArrives(h, e)
  \/ \E h \in Handlers : HandlerStep(h)

\* Goroutines that can run do; a send may block for ever, and nobody has to
\* subscribe, unsubscribe or emit.
SubFairness ==
  /\ \A s \in Subs : WF_subVars(LoopStep(s)) /\ WF_subVars(RunCallback(s))
  /\ \A h \in Handlers : WF_subVars(HandlerStep(h))

SubSafe == SubInit /\ [][SubNext]_subVars
SubSpec == SubSafe /\ SubFairness

-----------------------------------------------------------------------------
(* Properties.                                                             *)

\* Every variable has its type.
SubTypeOK ==
  /\ subscriptions \in [Events -> Subs \cup {None}]
  /\ sub \in [Subs -> Subscription]
  /\ stage \in [Subs -> {"idle", "sending", "subscribed", "undo", "notfound",
                       "unsubscribing", "unsubscribed"}]
  /\ mux \in Subs \cup {None}
  /\ loop \in [Subs -> {"none", "receive", "check", "start", "ended"}]
  /\ spawned \in [Subs -> Nat] /\ due \in [Subs -> Nat] /\ late \in [Subs -> Nat]
  /\ handler \in [Handlers -> [pc : {"idle", "check", "send", "panicked"}, found : Subs \cup {None}]]
  /\ arrived \in 0..MaxData

\* What the table holds is alive: an event is never looked up to a subscription
\* that has ended, so a send can panic only in a handler that was past its
\* lookup when Unsubscribe ran (bidirectional.go:332-357, 454-472).
TableLive ==
  \A e \in Events : subscriptions[e] # None =>
     LET s == subscriptions[e] IN
     sub[s].event = e /\ sub[s].active /\ sub[s].chan = "open" /\ loop[s] # "ended"

\* Of the events that came before Unsubscribe closed the channel only those
\* reach the application whose callbacks have a goroutine by then, and at most
\* one more, the one the loop had checked before: what is buffered is dropped,
\* not delivered.  That many callbacks may still start after Unsubscribe
\* returned (bidirectional.go:333-357, 592-606).
BufferedIsDropped ==
  \A s \in Subs : sub[s].chan = "closed" =>
     late[s] + spawned[s] + (IF loop[s] = "start" THEN 1 ELSE 0) <= due[s] + 1

\* The goroutine of a subscription that was ended returns, whatever its channel
\* still holds (bidirectional.go:333-357, 592-606).
GoroutineEnds ==
  \A s \in Subs : stage[s] = "unsubscribing" ~> loop[s] = "ended"
=============================================================================
