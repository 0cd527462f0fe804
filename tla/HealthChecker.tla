------------------------------ MODULE HealthChecker ------------------------------
(***************************************************************************)
(* HealthChecker (transport_manager.go): a loop that checks a snapshot of   *)
(* the monitored transports, one after the other and without the lock, and  *)
(* judges each by the results in a row.                                     *)
(***************************************************************************)
EXTENDS Integers, Sequences, FiniteSets, FiniteSetsExt

CONSTANTS
  Watched,             \* transports that may be monitored
  HealthyThreshold, UnhealthyThreshold,
  Loops,               \* bound: calls of Start that start a loop
  MaxChecks            \* bound: checks of one transport

ASSUME HealthCheckerAssumption ==
  /\ HealthyThreshold \in Nat \ {0} /\ UnhealthyThreshold \in Nat \ {0} /\ MaxChecks \in Nat
  /\ IsFiniteSet(Loops)

VARIABLES
  transports,  \* the monitored transports
  health,      \* per transport: Healthy and the results in a row
  results,     \* per transport: every result since monitoring began
  running,
  stopCh,      \* "open", "closed", or "panicked" when it was closed once more
  hloop        \* per loop: "none", "waiting" or "ended", the snapshot it works off, and
               \* what of it MonitorTransport has replaced since

healthVars == <<transports, health, results, running, stopCh, hloop>>

Fresh == [healthy |-> TRUE, successes |-> 0, failures |-> 0]

HealthInit ==
  /\ transports = {}
  /\ health = [t \in Watched |-> Fresh]
  /\ results = [t \in Watched |-> <<>>]
  /\ running = FALSE /\ stopCh = "open"
  /\ hloop = [l \in Loops |-> [pc |-> "none", todo |-> {}, replaced |-> {}]]

-----------------------------------------------------------------------------
\* Start: the manager calls it once, others may start the checker again.
StartChecker(l) ==
  /\ ~running
  /\ hloop[l].pc = "none"
  /\ running' = TRUE
  /\ hloop' = [hloop EXCEPT ![l].pc = "waiting"]
  /\ UNCHANGED <<transports, health, results, stopCh>>

\* Stop: the second of two calls returns at once; after another Start it closes
\* the closed channel.
StopChecker ==
  /\ running
  /\ running' = FALSE
  /\ stopCh' = IF stopCh = "open" THEN "closed" ELSE "panicked"
  /\ UNCHANGED <<transports, health, results, hloop>>

\* A new entry, whatever there was; a snapshot keeps the old one.
MonitorTransport(t) ==
  /\ transports' = transports \cup {t}
  /\ health' = [health EXCEPT ![t] = Fresh]
  /\ results' = [results EXCEPT ![t] = <<>>]
  /\ hloop' = [l \in Loops |-> [hloop[l] EXCEPT !.replaced = @ \cup (hloop[l].todo \cap {t})]]
  /\ UNCHANGED <<running, stopCh>>

\* A check that is under way goes on with the entry it has.
StopMonitoring(t) ==
  /\ t \in transports
  /\ transports' = transports \ {t}
  /\ UNCHANGED <<health, results, running, stopCh, hloop>>

\* The loop's select: a tick takes the snapshot, a closed stopCh ends it.
CheckLoop(l) ==
  /\ hloop[l].pc = "waiting"
  /\ hloop[l].todo = {}
  /\ \/ transports # {} /\ hloop' = [hloop EXCEPT ![l].todo = transports, ![l].replaced = {}]
     \/ stopCh = "closed" /\ hloop' = [hloop EXCEPT ![l].pc = "ended"]
  /\ UNCHANGED <<transports, health, results, running, stopCh>>

\* Mutant: a success does not end a row of failures.
JudgedLoosely(h, ok) ==
  IF ok THEN [h EXCEPT !.successes = @ + 1, !.healthy = @ \/ h.successes + 1 >= HealthyThreshold]
  ELSE [h EXCEPT !.failures = @ + 1, !.successes = 0,
                 !.healthy = @ /\ h.failures + 1 < UnhealthyThreshold]

\* checkTransportHealth: enough results of the other kind in a row turn the
\* verdict.
Judged(h, ok) ==
  IF ok THEN [healthy |-> h.healthy \/ h.successes + 1 >= HealthyThreshold,
              successes |-> h.successes + 1, failures |-> 0]
  ELSE [healthy |-> h.healthy /\ h.failures + 1 < UnhealthyThreshold,
        successes |-> 0, failures |-> h.failures + 1]

\* One check: the ping always succeeds, the echo may fail or time out.  The
\* verdict on an entry that was replaced is lost with it.
CheckTransport(l, t) ==
  /\ t \in hloop[l].todo
  /\ hloop' = [hloop EXCEPT ![l].todo = @ \ {t}]
  /\ \/ /\ Len(results[t]) < MaxChecks /\ t \notin hloop[l].replaced
        /\ \E ok \in BOOLEAN :
             /\ health' = [health EXCEPT ![t] = Judged(@, ok)]
             /\ results' = [results EXCEPT ![t] = Append(@, ok)]
     \/ /\ Len(results[t]) = MaxChecks \/ t \in hloop[l].replaced
        /\ UNCHANGED <<health, results>>
  /\ UNCHANGED <<transports, running, stopCh>>

HealthNext ==
  /\ stopCh # "panicked"
  /\ \/ StopChecker
     \/ \E l \in Loops : StartChecker(l) \/ CheckLoop(l) \/ \E t \in Watched : CheckTransport(l, t)
     \/ \E t \in Watched : MonitorTransport(t) \/ StopMonitoring(t)

HealthSpec == HealthInit /\ [][HealthNext]_healthVars

-----------------------------------------------------------------------------
(* Properties.                                                             *)

\* Where, in the results of t, the last n results were all ok, for the last time.
LastRow(t, ok, n) ==
  Max({0} \cup {i \in DOMAIN results[t] : i >= n /\ \A j \in (i - n + 1)..i : results[t][j] = ok})

\* The verdict is what the history says: a transport is unhealthy exactly when
\* the last row of UnhealthyThreshold failures is not followed by a row of
\* HealthyThreshold successes, however the checks of one loop or two and
\* monitoring interleave; and the stop channel is closed twice only after a second
\* Start (transport_manager.go:332-355, 412-438).
VerdictFollowsHistory ==
  /\ \A t \in Watched :
       health[t].healthy <=> LastRow(t, FALSE, UnhealthyThreshold) <= LastRow(t, TRUE, HealthyThreshold)
  /\ stopCh = "panicked" => Cardinality({l \in Loops : hloop[l].pc # "none"}) > 1
=============================================================================
