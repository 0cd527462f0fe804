------------------------------ MODULE MCTransports ------------------------------
(***************************************************************************)
(* The HTTP batch transport, the WebSocket transport and an in-process pair *)
(* in one run.  They share no state and every property speaks of one of     *)
(* them, so the initial state says which of them moves.                     *)
(***************************************************************************)
EXTENDS HTTPBatch, WebSocket, InProcess, TLC

CONSTANTS left, right, n1, n2, n3, n4

\* Four messages, all one way.
MCEndOf == n1 :> left @@ n2 :> left @@ n3 :> left @@ n4 :> left

\* Two elements of an answer.
MCParts == <<"type", "body">>

VARIABLE part

mcVars == <<part, httpVars, wsVars, pairVars>>

MCInit ==
  /\ part \in {"http", "ws", "pair"}
  /\ HTTPInit /\ WSInit /\ PairInit
  /\ part # "ws" => ~connected

MCNext ==
  /\ UNCHANGED part
  /\ \/ part = "http" /\ HTTPNext /\ UNCHANGED <<wsVars, pairVars>>
     \/ part = "ws" /\ WSNext /\ UNCHANGED <<httpVars, pairVars>>
     \/ part = "pair" /\ PairNext /\ UNCHANGED <<httpVars, wsVars>>

\* The fairness of each module, for the part that moves.
MCFairness ==
  /\ WF_httpVars(part = "http" /\ ~Crashed /\ (Gather \/ ProcessorEnds))
  /\ WF_httpVars(part = "http" /\ ~Crashed /\ TimerFires)
  /\ WF_httpVars(part = "http" /\ ~Crashed /\ TimerSends)
  /\ WF_wsVars(part = "ws" /\ WriteMessage) /\ WF_wsVars(part = "ws" /\ closed /\ ReadEnds)
  /\ \A l \in Lockers : WF_wsVars(part = "ws" /\ Connect(l)) /\ WF_wsVars(part = "ws" /\ Close(l))
  /\ \A s \in Senders : WF_wsVars(part = "ws" /\ SendQueues(s))
  /\ WF_pairVars(part = "pair" /\ \E s \in PairSends : PairSendQueues(s))
  /\ WF_pairVars(part = "pair" /\ \E e \in Ends : PairClose(e))
  /\ WF_pairVars(part = "pair" /\ \E e \in Ends : ForwarderStep(e))

MCSpec == MCInit /\ [][MCNext]_mcVars /\ MCFairness
=================================================================================
