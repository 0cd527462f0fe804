------------------------------- MODULE Callbacks -------------------------------
(***************************************************************************)
(* Client services and callbacks of a BidirectionalSession                  *)
(* (bidirectional.go): what the client registers, and the messages by which *)
(* the server calls it.  Every such message is answered with one resolve or *)
(* reject; a callback runs in a goroutine of its own, under a timeout.      *)
(***************************************************************************)
EXTENDS Integers, FiniteSets, Sequences

CONSTANTS
  Creators,     \* CreateCallback calls
  Services,     \* names for RegisterClientService
  Invocations,  \* clientCall and callbackInvoke messages
  NoCreator

ASSUME CallbacksAssumption == NoCreator \notin Creators /\ IsFiniteSet(Creators)

VARIABLES clientServices, nextCallbackID, callbacks,
  creator,       \* CreateCallback: where each call is and the ID it drew
  call           \* per invocation: caller, goroutine, result channel, replies

callVars == <<clientServices, nextCallbackID, callbacks, creator, call>>
callRest == <<clientServices, nextCallbackID, callbacks, creator>>

CallbackIDs == 1..Cardinality(Creators)

Invocation == [caller : {"idle", "waiting", "returned"},
               fn : {"none", "running", "result", "ended"},
               chan : 0..1, replies : Seq({"resolve", "reject"})]

CallInit ==
  /\ clientServices = {}
  /\ nextCallbackID = 0
  /\ callbacks = [i \in CallbackIDs |-> NoCreator]
  /\ creator = [c \in Creators |-> [pc |-> "idle", id |-> 0]]
  /\ call = [i \in Invocations |->
               [caller |-> "idle", fn |-> "none", chan |-> 0, replies |-> <<>>]]

-----------------------------------------------------------------------------
RegisterClientService(n) ==
  /\ clientServices' = clientServices \cup {n}
  /\ n \notin clientServices
  /\ UNCHANGED <<nextCallbackID, callbacks, creator, call>>

\* CreateCallback draws an ID under the lock, exports the function, and stores
\* the entry in a second critical section.
CreateCallback(c) ==
  /\ creator[c].pc = "idle"
  /\ nextCallbackID' = nextCallbackID + 1
  /\ creator' = [creator EXCEPT ![c] = [pc |-> "drawn", id |-> nextCallbackID']]
  /\ UNCHANGED <<clientServices, callbacks, call>>

\* Mutant: the ID is read again from the counter, as if it had not moved.
StoreCallbackAtCounter(c) ==
  /\ creator[c].pc = "drawn"
  /\ callbacks' = [callbacks EXCEPT ![nextCallbackID] = c]
  /\ creator' = [creator EXCEPT ![c].pc = "stored"]
  /\ UNCHANGED <<clientServices, nextCallbackID, call>>

StoreCallback(c) ==
  /\ creator[c].pc = "drawn"
  /\ callbacks' = [callbacks EXCEPT ![creator[c].id] = c]
  /\ creator' = [creator EXCEPT ![c].pc = "stored"]
  /\ UNCHANGED <<clientServices, nextCallbackID, call>>

\* A reply is sent: sendClientCallResult or sendClientCallError.
AnswerAtOnce(i, kinds) ==
  /\ call[i].caller = "idle"
  /\ \E k \in kinds :
       call' = [call EXCEPT ![i].caller = "returned", ![i].replies = Append(@, k)]
  /\ UNCHANGED callRest

\* A client call is rejected when the service is not registered; otherwise the
\* method runs to its end in the handler, and may be missing or fail.
HandleClientCall(i, n) ==
  AnswerAtOnce(i, IF n \in clientServices THEN {"resolve", "reject"} ELSE {"reject"})

\* CallCallback of a stored callback starts the function and waits; arguments
\* that do not fit, or an unknown ID, are answered with a reject.
HandleCallbackInvoke(i, id) ==
  \/ AnswerAtOnce(i, {"reject"})
  \/ /\ call[i].caller = "idle"
     /\ callbacks[id] # NoCreator
     /\ call' = [call EXCEPT ![i].caller = "waiting", ![i].fn = "running"]
     /\ UNCHANGED callRest

\* The function returns or panics, if it ever does.
FunctionReturns(i) ==
  /\ call[i].fn = "running"
  /\ call' = [call EXCEPT ![i].fn = "result"]
  /\ UNCHANGED callRest

\* Mutant: without a buffer the result needs someone who waits for it.
DeliverUnbuffered(i) ==
  /\ call[i].fn = "result"
  /\ call[i].caller = "waiting"
  /\ call' = [call EXCEPT ![i].fn = "ended", ![i].chan = 1]
  /\ UNCHANGED callRest

\* The result goes into the channel, which has room for one.
DeliverResult(i) ==
  /\ call[i].fn = "result"
  /\ call[i].chan = 0
  /\ call' = [call EXCEPT ![i].fn = "ended", ![i].chan = 1]
  /\ UNCHANGED callRest

\* The caller's select takes the result, or the timeout; both send one reply.
CallReturns(i) ==
  /\ call[i].caller = "waiting"
  /\ \/ /\ call[i].chan = 1
        /\ \E k \in {"resolve", "reject"} :
             call' = [call EXCEPT ![i].caller = "returned", ![i].chan = 0,
                                  ![i].replies = Append(@, k)]
     \/ call' = [call EXCEPT ![i].caller = "returned", ![i].replies = Append(@, "reject")]
  /\ UNCHANGED callRest

-----------------------------------------------------------------------------
CallNext ==
  \/ \E n \in Services : RegisterClientService(n)
  \/ \E c \in Creators : CreateCallback(c) \/ StoreCallback(c)
  \/ \E i \in Invocations, n \in Services : HandleClientCall(i, n)
  \/ \E i \in Invocations, id \in CallbackIDs : HandleCallbackInvoke(i, id)
  \/ \E i \in Invocations : FunctionReturns(i) \/ DeliverResult(i) \/ CallReturns(i)

\* A goroutine with a result delivers it if it can, and a caller whose timeout
\* has passed goes on; a function may hang.
CallFairness ==
  \A i \in Invocations : WF_callVars(DeliverResult(i)) /\ WF_callVars(CallReturns(i))

CallSafe == CallInit /\ [][CallNext]_callVars
CallSpec == CallSafe /\ CallFairness

-----------------------------------------------------------------------------
(* Properties.                                                             *)

\* Every variable has its type.
CallTypeOK ==
  /\ clientServices \subseteq Services
  /\ nextCallbackID \in 0..Cardinality(Creators)
  /\ callbacks \in [CallbackIDs -> Creators \cup {NoCreator}]
  /\ creator \in [Creators -> [pc : {"idle", "drawn", "stored"}, id : 0..Cardinality(Creators)]]
  /\ call \in [Invocations -> Invocation]

\* Concurrent CreateCallback calls each find their own function under the ID
\* they return, although the ID is drawn and used in two critical sections
\* (bidirectional.go:199-222).
CallbackKept ==
  \A c \in Creators : creator[c].pc = "stored" => callbacks[creator[c].id] = c

\* Nothing is left behind by a callback invocation: it is answered even if the
\* function hangs, and a function that returns after the timeout does not leave
\* its goroutine blocked on a result nobody takes (bidirectional.go:251-287).
InvocationSettles ==
  \A i \in Invocations :
     /\ call[i].caller = "waiting" ~> call[i].caller = "returned"
     /\ call[i].fn = "result" ~> call[i].fn = "ended"
=============================================================================
