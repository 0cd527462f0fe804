------------------------------- MODULE HTTPBatch -------------------------------
(***************************************************************************)
(* HTTPBatchTransport (http_transport.go): messages queue in a channel, a   *)
(* goroutine gathers them into batches, and a goroutine per batch posts it, *)
(* retries, and forwards what the answer holds.  HTTPServer, at the other   *)
(* end, answers each batch.                                                 *)
(***************************************************************************)
EXTENDS Integers, Sequences, FiniteSets, SequencesExt

CONSTANTS
  Messages,     \* each sent by a call of Send of its own
  Answered,     \* the messages the server's handler answers
  Parts,        \* the elements of an answer, itself a JSON array, told apart
  BatchSize,
  MaxRetries,
  OutboundSize, \* capacity of outbound
  InboundSize   \* capacity of inbound

ASSUME HTTPBatchAssumption ==
  /\ Answered \subseteq Messages
  /\ Parts \in Seq(Range(Parts)) /\ IsInjective(Parts)
  /\ BatchSize \in Nat \ {0} /\ MaxRetries \in Nat
  /\ OutboundSize \in Nat \ {0} /\ InboundSize \in Nat \ {0}

VARIABLES
  call,       \* per message: where its Send is
  httpClosed,
  outbound,
  batch,
  batchTimer, \* "none" or "armed"
  fired,      \* timers that went off and wait for batchMux
  loop,       \* the batch processor: "running" or "ended"
  requests,   \* a goroutine per batch, in the order they were started
  inbound,    \* how many messages it holds
  taken,      \* the messages that Send took, in order
  forwarded,  \* what was ever put into inbound
  repeated    \* what was put there more than once

answering == <<inbound, forwarded, repeated>>
httpVars == <<call, httpClosed, outbound, batch, batchTimer, fired, loop, requests, taken, answering>>

HTTPInit ==
  /\ call = [m \in Messages |-> "new"]
  /\ httpClosed = FALSE
  /\ outbound = <<>> /\ inbound = 0
  /\ batch = <<>> /\ batchTimer = "none" /\ fired = 0
  /\ loop = "running"
  /\ requests = <<>>
  /\ taken = <<>> /\ forwarded = {} /\ repeated = {}

\* A send on the closed channel panics, and takes the process with it.
Crashed == \E m \in Messages : call[m] = "panicked"

-----------------------------------------------------------------------------
(* Send and Close.                                                         *)

\* Send looks at closed under closeMux, and lets go of it ...
HTTPSendChecks(m) ==
  /\ call[m] = "new"
  /\ call' = [call EXCEPT ![m] = IF httpClosed THEN "refused" ELSE "checked"]
  /\ UNCHANGED <<httpClosed, outbound, batch, batchTimer, fired, loop, requests, taken, answering>>

\* ... before it puts the message into the channel, which may be closed or full
\* by now, or the context done.
HTTPSendQueues(m) ==
  /\ call[m] = "checked"
  /\ \/ /\ ~httpClosed /\ Len(outbound) < OutboundSize
        /\ call' = [call EXCEPT ![m] = "queued"]
        /\ outbound' = Append(outbound, m)
        /\ taken' = Append(taken, m)
     \/ /\ call' = [call EXCEPT ![m] = "refused"]
        /\ UNCHANGED <<outbound, taken>>
     \/ /\ httpClosed
        /\ call' = [call EXCEPT ![m] = "panicked"]
        /\ UNCHANGED <<outbound, taken>>
  /\ UNCHANGED <<httpClosed, batch, batchTimer, fired, loop, requests, answering>>

\* Mutant: the batch is started and kept.
SendBatchKeeping(b) ==
  IF b = <<>> THEN UNCHANGED <<batch, batchTimer, requests>>
  ELSE /\ requests' = Append(requests, [batch |-> b, attempt |-> 0, pc |-> "posting", answer |-> <<>>, full |-> FALSE])
       /\ batch' = b
       /\ batchTimer' = "none"

\* sendBatch on the batch b: a goroutine of its own posts it.  Stop comes too
\* late for a timer that went off already.
SendBatch(b) ==
  IF b = <<>> THEN batch' = b /\ UNCHANGED <<batchTimer, requests>>
  ELSE /\ requests' = Append(requests, [batch |-> b, attempt |-> 0, pc |-> "posting", answer |-> <<>>, full |-> FALSE])
       /\ batch' = <<>>
       /\ batchTimer' = "none"

\* Close closes the channel and flushes; the processor goes on with what is
\* still queued.
CloseHTTP ==
  /\ ~httpClosed
  /\ httpClosed' = TRUE
  /\ SendBatch(batch)
  /\ UNCHANGED <<call, outbound, fired, loop, taken, answering>>

-----------------------------------------------------------------------------
(* The batch processor and its timer.                                      *)

\* Mutant: the timer is started with the second message.
GatherLate ==
  LET b == Append(batch, Head(outbound)) IN
  /\ loop = "running" /\ outbound # <<>>
  /\ outbound' = Tail(outbound)
  /\ \/ Len(b) >= BatchSize /\ SendBatch(b)
     \/ Len(b) < BatchSize /\ batch' = b /\ batchTimer' = (IF Len(b) = 2 THEN "armed" ELSE batchTimer)
        /\ UNCHANGED requests
  /\ UNCHANGED <<call, httpClosed, fired, loop, taken, answering>>

\* batchProcessor, on a message: a full batch is sent, the first message of a
\* batch starts the timer.
Gather ==
  LET b == Append(batch, Head(outbound)) IN
  /\ loop = "running" /\ outbound # <<>>
  /\ outbound' = Tail(outbound)
  /\ \/ Len(b) >= BatchSize /\ SendBatch(b)
     \/ Len(b) < BatchSize /\ batch' = b /\ batchTimer' = (IF Len(b) = 1 THEN "armed" ELSE batchTimer)
        /\ UNCHANGED requests
  /\ UNCHANGED <<call, httpClosed, fired, loop, taken, answering>>

\* batchProcessor, on the closed and empty channel.
ProcessorEnds ==
  /\ loop = "running" /\ outbound = <<>> /\ httpClosed
  /\ loop' = "ended"
  /\ SendBatch(batch)
  /\ UNCHANGED <<call, httpClosed, outbound, fired, taken, answering>>

TimerFires ==
  /\ batchTimer = "armed"
  /\ fired' = fired + 1
  /\ batchTimer' = "fired"
  /\ UNCHANGED <<call, httpClosed, outbound, batch, loop, requests, taken, answering>>

\* The timer's function sends whatever the batch holds when it gets the lock,
\* a batch younger than the timer too.
TimerSends ==
  /\ fired > 0
  /\ fired' = fired - 1
  /\ SendBatch(batch)
  /\ UNCHANGED <<call, httpClosed, outbound, loop, taken, answering>>

-----------------------------------------------------------------------------
(* One batch on its way.                                                   *)

\* What ServeHTTP answers: one answer goes out as it is, several as an array.
Answers(b) == FlattenSeq([i \in DOMAIN b |-> IF b[i] \in Answered THEN <<b[i]>> ELSE <<>>])

Whole(m) == [answer |-> m, part |-> "whole"]

\* What processHTTPResponse makes of it: an array is taken apart, and a single
\* answer is an array itself.
Incoming(answers) ==
  IF Len(answers) = 1
  THEN [i \in 1..Len(Parts) |-> [answer |-> answers[1], part |-> Parts[i]]]
  ELSE [i \in 1..Len(answers) |-> Whole(answers[i])]

AttemptFailed(r) ==
  IF r.attempt < MaxRetries THEN [r EXCEPT !.pc = "posting", !.attempt = @ + 1, !.answer = <<>>]
  ELSE [r EXCEPT !.pc = "failed", !.answer = <<>>]

\* The request is lost, refused, or served; a served one's answer may be lost.
Post(i) ==
  /\ requests[i].pc = "posting"
  /\ \/ requests' = [requests EXCEPT ![i] = AttemptFailed(@)]
     \/ requests' = [requests EXCEPT ![i].pc = "answered", ![i].answer = Incoming(Answers(requests[i].batch))]
  /\ UNCHANGED <<call, httpClosed, outbound, batch, batchTimer, fired, loop, taken, answering>>

\* Mutant: an answer that has been forwarded is taken for a failed attempt.
ForwardAndRetry(i) ==
  LET r == requests[i] IN
  /\ r.pc = "answered"
  /\ \/ /\ r.answer = <<>>
        /\ requests' = [requests EXCEPT ![i] = AttemptFailed(@)]
        /\ UNCHANGED answering
     \/ /\ r.answer # <<>> /\ inbound < InboundSize
        /\ inbound' = inbound + 1
        /\ forwarded' = forwarded \cup {Head(r.answer)}
        /\ repeated' = repeated \cup (forwarded \cap {Head(r.answer)})
        /\ requests' = [requests EXCEPT ![i].answer = Tail(@)]
     \/ /\ r.answer # <<>> /\ inbound >= InboundSize
        /\ requests' = [requests EXCEPT ![i] = AttemptFailed([@ EXCEPT !.full = TRUE])]
        /\ UNCHANGED answering
  /\ UNCHANGED <<call, httpClosed, outbound, batch, batchTimer, fired, loop, taken>>

\* processHTTPResponse forwards one message after the other; a full channel
\* fails the attempt, and the whole batch is posted again.
Forward(i) ==
  LET r == requests[i] IN
  /\ r.pc = "answered"
  /\ \/ /\ r.answer = <<>>
        /\ requests' = [requests EXCEPT ![i].pc = "done"]
        /\ UNCHANGED answering
     \/ /\ r.answer # <<>> /\ inbound < InboundSize
        /\ inbound' = inbound + 1
        /\ forwarded' = forwarded \cup {Head(r.answer)}
        /\ repeated' = repeated \cup (forwarded \cap {Head(r.answer)})
        /\ requests' = [requests EXCEPT ![i].answer = Tail(@)]
     \/ /\ r.answer # <<>> /\ inbound >= InboundSize
        /\ requests' = [requests EXCEPT ![i] = AttemptFailed([@ EXCEPT !.full = TRUE])]
        /\ UNCHANGED answering
  /\ UNCHANGED <<call, httpClosed, outbound, batch, batchTimer, fired, loop, taken>>

ReceiveHTTP ==
  /\ inbound > 0
  /\ inbound' = inbound - 1
  /\ UNCHANGED <<call, httpClosed, outbound, batch, batchTimer, fired, loop, requests, taken, forwarded, repeated>>

HTTPNext ==
  /\ ~Crashed
  /\ \/ \E m \in Messages : HTTPSendChecks(m) \/ HTTPSendQueues(m)
     \/ CloseHTTP \/ Gather \/ ProcessorEnds \/ TimerFires \/ TimerSends \/ ReceiveHTTP
     \/ \E i \in DOMAIN requests : Post(i) \/ Forward(i)

\* The processor and the timer keep running.
HTTPFairness ==
  /\ WF_httpVars(~Crashed /\ (Gather \/ ProcessorEnds))
  /\ WF_httpVars(~Crashed /\ TimerFires)
  /\ WF_httpVars(~Crashed /\ TimerSends)

HTTPSpec == HTTPInit /\ [][HTTPNext]_httpVars /\ HTTPFairness

-----------------------------------------------------------------------------
(* Properties.                                                             *)

Batched == FlattenSeq([i \in DOMAIN requests |-> requests[i].batch])

\* Whatever the processor, the timers, a Close and a full batch do in which
\* order, every message Send took is in exactly one place, and the batches hold
\* them in the order they were taken (http_transport.go:188-237).
EachInOneBatch == Batched \o batch \o outbound = taken

\* A message Send took does not wait forever for its batch to be posted, a
\* Close in between or not, unless a Send that runs into the closed channel
\* takes the process down; there are finitely many, so time and again none
\* waits (http_transport.go:140-217).
EveryMessagePosted == []<>(Crashed \/ batch \o outbound = <<>>)

\* What a batch is answered reaches the session once, retries or not, unless
\* the inbound channel ran full while it was forwarded (http_transport.go:247-295,
\* 347-373).
ForwardedOnce ==
  \A i \in DOMAIN requests :
    \/ requests[i].full
    \/ \A item \in repeated : item.answer \notin Range(requests[i].batch)
=============================================================================
