--------------------------------- MODULE MCPeers ---------------------------------
(***************************************************************************)
(* What the goroutines of the client API share with each other: promises    *)
(* and their resolver, event subscriptions, callbacks, a stream reader with *)
(* its manager, a stream writer and the performance monitor.  They share no *)
(* state and every property speaks of one of them, so the initial state     *)
(* says which of them moves.                                                *)
(***************************************************************************)
EXTENDS PromiseResolver, Subscriptions, Callbacks, StreamReader, StreamWriter, Metrics

VARIABLE part

mcVars == <<part, allVars, subVars, callVars, readerVars, writerVars, metricsVars>>

\* Settlers that bring different outcomes, and a promise for the first Await:
\* the outcomes and the promises are interchangeable, so one choice of each does.
Distinct == CHOOSE b \in [Settlers -> Outcomes] : \A s, r \in Settlers : b[s] = b[r] => s = r

MCInit ==
  /\ part \in {"promises", "subscriptions", "callbacks", "reader", "writer", "metrics"}
  /\ RInit /\ SubInit /\ CallInit /\ ReaderInit /\ WriterInit /\ MetricsInit
  /\ part # "writer" => auto = "none"
  /\ brings = Distinct
  /\ \A a \in Awaiters :
       a \in Impatient \/ part # "promises" => target[a] = CHOOSE p \in Promises : TRUE

MCNext ==
  /\ UNCHANGED part
  /\ \/ part = "promises" /\ RNext
        /\ UNCHANGED <<subVars, callVars, readerVars, writerVars, metricsVars>>
     \/ part = "subscriptions" /\ SubNext
        /\ UNCHANGED <<allVars, callVars, readerVars, writerVars, metricsVars>>
     \/ part = "callbacks" /\ CallNext
        /\ UNCHANGED <<allVars, subVars, readerVars, writerVars, metricsVars>>
     \/ part = "reader" /\ ReaderNext
        /\ UNCHANGED <<allVars, subVars, callVars, writerVars, metricsVars>>
     \/ part = "writer" /\ WriterNext
        /\ UNCHANGED <<allVars, subVars, callVars, readerVars, metricsVars>>
     \/ part = "metrics" /\ MetricsNext
        /\ UNCHANGED <<allVars, subVars, callVars, readerVars, writerVars>>

\* The fairness of each module, for the part that moves.
MCFairness ==
  /\ \A a \in Awaiters :
       WF_allVars(part = "promises" /\ AwaitRuns(a) /\ UNCHANGED tableVars)
  /\ \A s \in Settlers :
       WF_allVars(part = "promises" /\ SettleStep(s) /\ UNCHANGED tableVars)
  /\ \A s \in Subs :
       /\ WF_subVars(part = "subscriptions" /\ LoopStep(s))
       /\ WF_subVars(part = "subscriptions" /\ RunCallback(s))
  /\ \A h \in Handlers : WF_subVars(part = "subscriptions" /\ HandlerStep(h))
  /\ \A i \in Invocations :
       /\ WF_callVars(part = "callbacks" /\ DeliverResult(i))
       /\ WF_callVars(part = "callbacks" /\ CallReturns(i))
  /\ WF_readerVars(part = "reader" /\ FeederStep)
  /\ WF_readerVars(part = "reader" /\ ReadWait)
  /\ \A c \in Closers : WF_readerVars(part = "reader" /\ (CloseCheck(c) \/ CloseMark(c)))
  /\ \A w \in Recorders : WF_metricsVars(part = "metrics" /\ Record(w))
  /\ \A r \in Readers : WF_metricsVars(part = "metrics" /\ ReaderStep(r))

MCSpec == MCInit /\ [][MCNext]_mcVars /\ MCFairness
==================================================================================
