--------------------------------- MODULE Metrics ---------------------------------
(***************************************************************************)
(* PerformanceMonitor (debugging.go): the metrics of at most MaxMethods     *)
(* methods.  RecordCall holds metricsMu for writing; GetAllMetrics holds it *)
(* for reading and takes it for reading again for every method.  The lock   *)
(* of a method's metrics is only ever taken under metricsMu, for no longer  *)
(* than a step here.                                                        *)
(***************************************************************************)
EXTENDS Integers, Sequences

CONSTANTS
  Methods,
  Recorders,       \* goroutines that call RecordCall
  Readers,         \* goroutines that call GetMethodMetrics or GetSummary
  MaxMethods,
  MaxCalls         \* bound: calls recordings

ASSUME MetricsAssumption == MaxMethods \in Nat \ {0} /\ MaxCalls \in Nat

VARIABLES
  metrics,   \* the table: per method its CallCount and ErrorCount, 0 calls when absent
  byAge,     \* the methods of the table by FirstCall, oldest first
  recorder,  \* per recorder: the call it wants to record
  reader,    \* per reader: where it is, the methods to come, what it has copied
  recordings      \* calls of RecordCall so far

metricsVars == <<metrics, byAge, recorder, reader, recordings>>

NoMetrics == [count |-> 0, errors |-> 0]
NoCall == [pc |-> "idle", method |-> CHOOSE m \in Methods : TRUE, failed |-> FALSE]
NothingCopied == [m \in Methods |-> NoMetrics]

MetricsInit ==
  /\ metrics = NothingCopied
  /\ byAge = <<>>
  /\ recorder = [w \in Recorders |-> NoCall]
  /\ reader = [r \in Readers |-> [pc |-> "idle", todo |-> {}, copied |-> NothingCopied]]
  /\ recordings = 0

-----------------------------------------------------------------------------
(* metricsMu: while somebody waits to write, nobody more gets to read.     *)

WriterWaits == \E w \in Recorders : recorder[w].pc = "lock"

\* Mutant: GetAllMetrics takes the lock for each method and not for them all.
ReadLockedBriefly == FALSE

ReadLocked == \E r \in Readers : reader[r].pc = "copying"

-----------------------------------------------------------------------------
(* RecordCall.                                                             *)

RecordCall(w, m, failed) ==
  /\ recorder[w].pc = "idle" /\ recordings < MaxCalls
  /\ recordings' = recordings + 1
  /\ recorder' = [recorder EXCEPT ![w] = [pc |-> "lock", method |-> m, failed |-> failed]]
  /\ UNCHANGED <<metrics, byAge, reader>>

\* A method that is new to a full table takes the place of the oldest.
Evicted(m) ==
  IF metrics[m].count = 0 /\ Len(byAge) >= MaxMethods THEN {Head(byAge)} ELSE {}

Record(w) ==
  LET m == recorder[w].method
      gone == Evicted(m) IN
  /\ recorder[w].pc = "lock" /\ ~ReadLocked
  /\ metrics' = [k \in Methods |->
       IF k = m THEN [count |-> metrics[m].count + 1,
                      errors |-> metrics[m].errors + IF recorder[w].failed THEN 1 ELSE 0]
       ELSE IF k \in gone THEN NoMetrics ELSE metrics[k]]
  /\ byAge' = IF metrics[m].count = 0 THEN Append(SelectSeq(byAge, LAMBDA k : k \notin gone), m) ELSE byAge
  /\ recorder' = [recorder EXCEPT ![w] = NoCall]
  /\ UNCHANGED <<reader, recordings>>

-----------------------------------------------------------------------------
(* GetMethodMetrics, which a step stands for, and GetAllMetrics, which      *)
(* GetSummary calls.                                                        *)

ReadAllBegins(r) ==
  /\ reader[r].pc = "idle" /\ ~WriterWaits
  /\ reader' = [reader EXCEPT ![r] =
       [pc |-> "copying", todo |-> {m \in Methods : metrics[m].count > 0}, copied |-> NothingCopied]]
  /\ UNCHANGED <<metrics, byAge, recorder, recordings>>

\* GetMethodMetrics asks for the lock the caller already has.
CopyMethod(r, m) ==
  /\ reader[r].pc = "copying" /\ m \in reader[r].todo /\ ~WriterWaits
  /\ reader' = [reader EXCEPT ![r].todo = @ \ {m}, ![r].copied[m] = metrics[m]]
  /\ UNCHANGED <<metrics, byAge, recorder, recordings>>

\* Mutant: an empty table is returned without giving the lock back.
ReadAllForgets(r) ==
  /\ reader[r].pc = "copying" /\ reader[r].todo = {}
  /\ reader[r].copied # NothingCopied
  /\ reader' = [reader EXCEPT ![r].pc = "idle", ![r].copied = NothingCopied]
  /\ UNCHANGED <<metrics, byAge, recorder, recordings>>

ReadAllEnds(r) ==
  /\ reader[r].pc = "copying" /\ reader[r].todo = {}
  /\ reader' = [reader EXCEPT ![r].pc = "idle", ![r].copied = NothingCopied]
  /\ UNCHANGED <<metrics, byAge, recorder, recordings>>

ReaderStep(r) == ReadAllEnds(r) \/ \E m \in Methods : CopyMethod(r, m)

MetricsNext ==
  \/ \E w \in Recorders :
       Record(w) \/ \E m \in Methods, failed \in BOOLEAN : RecordCall(w, m, failed)
  \/ \E r \in Readers : ReadAllBegins(r) \/ ReaderStep(r)

\* A lock that is free is had, and a reader that can go on does.
MetricsFairness ==
  /\ \A w \in Recorders : WF_metricsVars(Record(w))
  /\ \A r \in Readers : WF_metricsVars(ReaderStep(r))

MetricsSpec == MetricsInit /\ [][MetricsNext]_metricsVars /\ MetricsFairness

-----------------------------------------------------------------------------
(* Properties.                                                             *)

\* GetSummary adds up the table as it was at one moment, although it copies the
\* methods one by one while calls are recorded and methods evicted: what it has
\* copied is what the table holds until it has returned, and it divides by no
\* call count of zero (debugging.go:411-471, 494-544).
SummaryIsOneMoment ==
  \A r \in Readers : reader[r].pc = "copying" =>
    /\ \A m \in Methods \ reader[r].todo : reader[r].copied[m] = metrics[m]
    /\ \A m \in reader[r].todo : metrics[m].count > 0

\* A RecordCall returns, unless it came between two methods of a GetAllMetrics:
\* then each waits for the lock the other has or is about to have, for ever
\* (debugging.go:411-413, 474-503).
RecordReturnsUnlessCaught ==
  \A w \in Recorders :
    recorder[w].pc = "lock" ~>
      recorder[w].pc = "idle" \/ \E r \in Readers : reader[r].pc = "copying" /\ reader[r].todo # {}
=============================================================================
