------------------------------ MODULE MCBookkeeping ------------------------------
(***************************************************************************)
(* The transport manager and its health checker, the framing of two TCP     *)
(* transports, a pipeline, the token buckets, the quotas and the security   *)
(* manager in one run.  They share no state and every property speaks of    *)
(* one of them, so the initial state says which of them moves.              *)
(***************************************************************************)
EXTENDS TransportPool, HealthChecker, TCPFrames, Pipelines, TokenBuckets, Quotas, Capabilities, TLC

CONSTANTS p1, p2, p3, e1, o1, o2, o3, r1, r2, c1, c2, k1, k2, d1, d2, q1, q2

\* One endpoint that three providers support, each with a priority of its own.
MCPriority == p1 :> 1 @@ p2 :> 2 @@ p3 :> 3
MCSuitable == e1 :> {p1, p2, p3}

\* Messages of no, one, three and four bytes: the last is too long for its prefix.
MCPayloads == {<<>>, <<1>>, <<1, 0, 1>>, <<1, 1, 0, 1>>}

\* Two callers and two keys over a table that holds one bucket, and likewise one
\* quota.  One caller asks for the first key, the other for both; of the buckets
\* either for the first, so that it is shared, or for the second, so that each
\* evicts the bucket that the other may hold.
MCLimits == {[capacity |-> 1, refill |-> 2], [capacity |-> 1, refill |-> 1]}
MCDefault == [capacity |-> 1, refill |-> 2]
MCKeysOf == c1 :> {k1} @@ c2 :> {k1, k2}

MCQLimits == {[limit |-> 1, period |-> 2]}
MCQDefault == [limit |-> 1, period |-> 2]
MCQKeysOf == d1 :> {q1} @@ d2 :> {q1, q2}

VARIABLE part

mcVars == <<part, poolVars, healthVars, tcpVars, pipeVars, bucketVars, quotaVars, secVars>>

MCInit ==
  /\ part \in {"pool", "health", "tcp", "pipeline", "sharing", "evicting", "quotas", "security"}
  /\ PoolInit /\ HealthInit /\ TCPInit /\ PipeInit
  /\ BucketInit /\ QuotaInit /\ SecInit
  /\ IF part = "pipeline"
     THEN \* the third operation is any; the others have a result of their own
          \* and may depend on each other
          /\ resultID[o1] = r1 /\ dependencies[o1] \subseteq {r2}
          /\ resultID[o2] = r2 /\ dependencies[o2] \subseteq {r1}
          /\ optimize \/ \A o \in Operations : dependencies[o] = {}
     ELSE ~optimize /\ \A o \in Operations : dependencies[o] = {} /\ resultID[o] = NoID

MCNext ==
  /\ UNCHANGED part
  /\ \/ part = "pool" /\ PoolNext
        /\ UNCHANGED <<healthVars, tcpVars, pipeVars, bucketVars, quotaVars, secVars>>
     \/ part = "health" /\ HealthNext
        /\ UNCHANGED <<poolVars, tcpVars, pipeVars, bucketVars, quotaVars, secVars>>
     \/ part = "tcp" /\ TCPNext
        /\ UNCHANGED <<poolVars, healthVars, pipeVars, bucketVars, quotaVars, secVars>>
     \/ part = "pipeline" /\ PipeNext
        /\ UNCHANGED <<poolVars, healthVars, tcpVars, bucketVars, quotaVars, secVars>>
     \/ part \in {"sharing", "evicting"} /\ BucketNext
        /\ (caller'[c2].pc # "idle" => caller'[c2].key = IF part = "sharing" THEN k1 ELSE k2)
        /\ UNCHANGED <<poolVars, healthVars, tcpVars, pipeVars, quotaVars, secVars>>
     \/ part = "quotas" /\ QuotaNext
        /\ UNCHANGED <<poolVars, healthVars, tcpVars, pipeVars, bucketVars, secVars>>
     \/ part = "security" /\ SecNext
        /\ UNCHANGED <<poolVars, healthVars, tcpVars, pipeVars, bucketVars, quotaVars>>

\* The fairness of the only module here that has some.
MCFairness ==
  /\ WF_bucketVars(part \in {"sharing", "evicting"} /\ Tick)
  /\ \A c \in Callers : WF_bucketVars(part \in {"sharing", "evicting"} /\ CallerStep(c))

MCSpec == MCInit /\ [][MCNext]_mcVars /\ MCFairness
==================================================================================
