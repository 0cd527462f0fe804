------------------------- MODULE Bookkeeping_proofs --------------------------
(***************************************************************************)
(* Proofs about the health checker, the capability store, the framing of   *)
(* the TCP transport and the pipelines, for any values of their            *)
(* constants.                                                              *)
(***************************************************************************)
EXTENDS HealthChecker, Capabilities, TCPFrames, Pipelines, SequenceTheorems, Induction

-----------------------------------------------------------------------------
(***************************************************************************)
(* HealthChecker. The counters of successes and failures are the rows      *)
(* that the results end with, and the verdict is what rows of the          *)
(* threshold's length in the whole history say, which is inductive         *)
(* together. The stop channel is closed twice only if two loops were       *)
(* started.                                                                *)
(***************************************************************************)

\* Where a row of n results ok ends, and what it adds to have one result more.
RowEnds(R, ok, n) == {0} \cup {i \in DOMAIN R : i >= n /\ \A j \in (i - n + 1)..i : R[j] = ok}

\* A count is the length of the row of results ok that the history ends with.
Counts(R, ok, count) ==
  /\ count \in 0..Len(R)
  /\ \A j \in (Len(R) - count + 1)..Len(R) : R[j] = ok
  /\ count < Len(R) => R[Len(R) - count] # ok

HealthTyped ==
  /\ results \in [Watched -> Seq(BOOLEAN)]
  /\ health \in [Watched -> [healthy : BOOLEAN, successes : Nat, failures : Nat]]

Verdict(h, R) ==
  /\ Counts(R, TRUE, h.successes) /\ Counts(R, FALSE, h.failures)
  /\ h.healthy <=> Max(RowEnds(R, FALSE, UnhealthyThreshold)) <= Max(RowEnds(R, TRUE, HealthyThreshold))

Started(l) == hloop[l].pc # "none"
TwoStarted == \E l, m \in Loops : l # m /\ Started(l) /\ Started(m)

\* The stop channel is closed by whoever stops what was started.
Stops ==
  /\ running \in BOOLEAN /\ stopCh \in {"open", "closed", "panicked"}
  /\ running \/ stopCh # "open" => \E l \in Loops : Started(l)
  /\ (running /\ stopCh = "closed") \/ stopCh = "panicked" => TwoStarted

LoopsTyped == hloop \in [Loops -> [pc : {"none", "waiting", "ended"}, todo : SUBSET Watched, replaced : SUBSET Watched]]

HealthInv ==
  /\ HealthTyped /\ LoopsTyped /\ Stops /\ transports \subseteq Watched
  /\ \A t \in Watched : Verdict(health[t], results[t])

\* The last row there is.
LEMMA RowEndsMax ==
  ASSUME NEW R \in Seq(BOOLEAN), NEW ok, NEW n
  PROVE  /\ RowEnds(R, ok, n) \in SUBSET Nat /\ Max(RowEnds(R, ok, n)) \in RowEnds(R, ok, n)
         /\ Max(RowEnds(R, ok, n)) \in 0..Len(R)
         /\ \A i \in RowEnds(R, ok, n) : i \in 0..Len(R) /\ i <= Max(RowEnds(R, ok, n))
<1>1. Len(R) \in Nat /\ DOMAIN R = 1..Len(R)
  OBVIOUS
<1>2. RowEnds(R, ok, n) \in SUBSET Nat /\ RowEnds(R, ok, n) # {}
      /\ \A i \in RowEnds(R, ok, n) : i \in 0..Len(R) /\ i <= Len(R)
  BY <1>1 DEF RowEnds
<1>3. QED
  BY <1>1, <1>2, Greatest

\* The row that ends with a new result.
LEMMA CountsAppend ==
  ASSUME NEW R \in Seq(BOOLEAN), NEW b \in BOOLEAN, NEW ok \in BOOLEAN, NEW c, Counts(R, ok, c)
  PROVE  Counts(Append(R, b), ok, IF b = ok THEN c + 1 ELSE 0)
<1> DEFINE A == Append(R, b)
<1>1. /\ A \in Seq(BOOLEAN) /\ Len(A) = Len(R) + 1 /\ Len(R) \in Nat /\ c \in Nat /\ c <= Len(R)
      /\ \A i \in 1..Len(R) : A[i] = R[i]
      /\ A[Len(R) + 1] = b
  BY AppendProperties DEF Counts
<1> HIDE DEF A
<1>2. CASE b = ok
  <2>1. c + 1 \in 0..Len(A)
    BY <1>1
  <2>2. \A j \in (Len(A) - (c + 1) + 1)..Len(A) : A[j] = ok
    <3> TAKE j \in (Len(A) - (c + 1) + 1)..Len(A)
    <3>1. j \in Int /\ Len(R) - c + 1 <= j /\ j <= Len(R) + 1
      BY <1>1
    <3>2. CASE j = Len(R) + 1
      BY <1>1, <1>2, <3>2
    <3>3. CASE j # Len(R) + 1
      <4>1. j \in 1..Len(R) /\ j \in (Len(R) - c + 1)..Len(R)
        BY <1>1, <3>1, <3>3
      <4>2. QED
        BY <1>1, <4>1 DEF Counts
    <3>4. QED
      BY <3>2, <3>3
  <2>3. c + 1 < Len(A) => A[Len(A) - (c + 1)] # ok
    <3> SUFFICES ASSUME c + 1 < Len(A) PROVE A[Len(A) - (c + 1)] # ok
      OBVIOUS
    <3>1. c < Len(R) /\ Len(R) - c \in 1..Len(R) /\ Len(A) - (c + 1) = Len(R) - c
      BY <1>1
    <3>2. QED
      BY <1>1, <3>1 DEF Counts
  <2>4. QED
    BY <1>2, <2>1, <2>2, <2>3 DEF Counts, A
<1>3. CASE b # ok
  <2>1. 0 \in 0..Len(A) /\ Len(A) - 0 + 1 > Len(A) /\ Len(A) - 0 = Len(R) + 1
    BY <1>1
  <2>2. \A j \in (Len(A) - 0 + 1)..Len(A) : A[j] = ok
    BY <1>1
  <2>3. A[Len(A) - 0] # ok
    BY <1>1, <1>3, <2>1
  <2>4. QED
    BY <1>3, <2>1, <2>2, <2>3 DEF Counts, A
<1>4. QED
  BY <1>2, <1>3

\* The last row, once there is one result more.
LEMMA RowAppend ==
  ASSUME NEW R \in Seq(BOOLEAN), NEW b \in BOOLEAN, NEW ok \in BOOLEAN, NEW n \in Nat \ {0},
         NEW d, Counts(Append(R, b), ok, d)
  PROVE  Max(RowEnds(Append(R, b), ok, n)) = IF d >= n THEN Len(R) + 1 ELSE Max(RowEnds(R, ok, n))
<1> DEFINE A == Append(R, b)
           S == RowEnds(A, ok, n)
           T == RowEnds(R, ok, n)
<1>1. /\ A \in Seq(BOOLEAN) /\ Len(A) = Len(R) + 1 /\ Len(R) \in Nat /\ d \in Nat /\ d <= Len(R) + 1
      /\ \A i \in 1..Len(R) : A[i] = R[i]
      /\ DOMAIN A = 1..(Len(R) + 1) /\ DOMAIN R = 1..Len(R)
  BY AppendProperties DEF Counts
<1>2. Counts(A, ok, d)
  OBVIOUS
<1> HIDE DEF A
<1>3. Len(R) + 1 \in S <=> d >= n
  <2>1. ASSUME d >= n PROVE Len(R) + 1 \in S
    <3>1. \A j \in (Len(R) + 1 - n + 1)..(Len(R) + 1) : j \in (Len(A) - d + 1)..Len(A)
      BY <1>1, <2>1
    <3>2. \A j \in (Len(R) + 1 - n + 1)..(Len(R) + 1) : A[j] = ok
      BY <1>2, <3>1 DEF Counts
    <3>3. Len(R) + 1 >= n /\ Len(R) + 1 \in 1..(Len(R) + 1)
      BY <1>1, <2>1
    <3>4. QED
      BY <1>1, <3>2, <3>3 DEF RowEnds
  <2>2. ASSUME ~(d >= n) PROVE Len(R) + 1 \notin S
    <3> SUFFICES ASSUME Len(R) + 1 \in S PROVE FALSE
      OBVIOUS
    <3>1. /\ Len(R) + 1 # 0 /\ Len(R) + 1 >= n
          /\ \A j \in (Len(R) + 1 - n + 1)..(Len(R) + 1) : A[j] = ok
      BY <1>1 DEF RowEnds
    <3>2. d < Len(A) /\ Len(A) - d \in (Len(R) + 1 - n + 1)..(Len(R) + 1)
      BY <1>1, <2>2, <3>1
    <3>3. QED
      BY <1>2, <3>1, <3>2 DEF Counts
  <2>3. QED
    BY <2>1, <2>2
<1>4. \A i \in 0..Len(R) : i \in S <=> i \in T
  <2> TAKE i \in 0..Len(R)
  <2>1. CASE i = 0
    BY <2>1 DEF RowEnds
  <2>2. CASE i # 0
    <3>1. i \in DOMAIN A /\ i \in DOMAIN R /\ i \in Nat
      BY <1>1, <2>2
    <3>2. i >= n => \A j \in (i - n + 1)..i : A[j] = R[j]
      <4> SUFFICES ASSUME i >= n, NEW j \in (i - n + 1)..i PROVE A[j] = R[j]
        OBVIOUS
      <4>1. j \in 1..Len(R)
        BY <1>1, <3>1
      <4>2. QED
        BY <1>1, <4>1
    <3>3. QED
      BY <2>2, <3>1, <3>2 DEF RowEnds
  <2>3. QED
    BY <2>1, <2>2
<1>5. /\ S \in SUBSET Nat /\ \A i \in S : i \in 0..(Len(R) + 1)
      /\ T \in SUBSET Nat /\ Max(T) \in T /\ Max(T) \in 0..Len(R) /\ \A i \in T : i \in 0..Len(R) /\ i <= Max(T)
  BY <1>1, RowEndsMax
<1> HIDE DEF S, T
<1>6. S \in SUBSET Int
  BY <1>5
<1>7. CASE d >= n
  <2>1. \A i \in S : i <= Len(R) + 1
    BY <1>5
  <2>2. Max(S) = Len(R) + 1
    BY <1>3, <1>6, <1>7, <2>1, MaxIs
  <2>3. QED
    BY <1>7, <2>2 DEF S, A
<1>8. CASE ~(d >= n)
  <2>1. \A i \in S : i \in 0..Len(R)
    <3> TAKE i \in S
    <3>1. i \in 0..(Len(R) + 1) /\ i # Len(R) + 1
      BY <1>3, <1>5, <1>8
    <3>2. QED
      BY <1>1, <3>1
  <2>2. Max(T) \in S /\ \A i \in S : i <= Max(T)
    BY <1>4, <1>5, <2>1
  <2>3. Max(S) = Max(T)
    BY <1>6, <2>2, MaxIs
  <2>4. QED
    BY <1>8, <2>3 DEF S, T, A
<1>9. QED
  BY <1>7, <1>8

\* One more result is judged as the history with it is.
LEMMA JudgedIsVerdict ==
  ASSUME NEW R \in Seq(BOOLEAN), NEW h \in [healthy : BOOLEAN, successes : Nat, failures : Nat],
         NEW ok \in BOOLEAN, Verdict(h, R)
  PROVE  /\ Judged(h, ok) \in [healthy : BOOLEAN, successes : Nat, failures : Nat]
         /\ Verdict(Judged(h, ok), Append(R, ok))
<1> DEFINE A == Append(R, ok)
           F(X) == Max(RowEnds(X, FALSE, UnhealthyThreshold))
           T(X) == Max(RowEnds(X, TRUE, HealthyThreshold))
<1>0. UnhealthyThreshold \in Nat \ {0} /\ HealthyThreshold \in Nat \ {0} /\ Len(R) \in Nat
  BY HealthCheckerAssumption
<1>1. F(R) \in 0..Len(R) /\ T(R) \in 0..Len(R)
  BY RowEndsMax
<1>2. CASE ok = TRUE
  <2>1. Counts(A, TRUE, h.successes + 1) /\ Counts(A, FALSE, 0)
    BY <1>2, CountsAppend DEF Verdict
  <2>20. F(A) = IF 0 >= UnhealthyThreshold THEN Len(R) + 1 ELSE F(R)
    BY <1>0, <2>1, RowAppend
  <2>21. ~(0 >= UnhealthyThreshold)
    BY <1>0
  <2>2. F(A) = F(R)
    BY <2>20, <2>21
  <2>3. T(A) = IF h.successes + 1 >= HealthyThreshold THEN Len(R) + 1 ELSE T(R)
    BY <1>0, <2>1, RowAppend, ZenonT(60)
  <2>4. h.healthy <=> F(R) <= T(R)
    BY DEF Verdict
  <2>5. Judged(h, ok) = [healthy |-> h.healthy \/ h.successes + 1 >= HealthyThreshold,
              successes |-> h.successes + 1, failures |-> 0]
    BY <1>2 DEF Judged
  <2> HIDE DEF F, T, A
  <2>6. (h.healthy \/ h.successes + 1 >= HealthyThreshold) <=> F(A) <= T(A)
    BY <1>0, <1>1, <2>2, <2>3, <2>4
  <2>7. Judged(h, ok) \in [healthy : BOOLEAN, successes : Nat, failures : Nat]
    BY <2>5
  <2>10. /\ Judged(h, ok).healthy <=> F(A) <= T(A)
         /\ Judged(h, ok).successes = h.successes + 1 /\ Judged(h, ok).failures = 0
    <3>1. PICK v \in BOOLEAN : v = (h.healthy \/ h.successes + 1 >= HealthyThreshold)
      OBVIOUS
    <3>2. Judged(h, ok) = [healthy |-> v, successes |-> h.successes + 1, failures |-> 0]
      BY <2>5, <3>1, Zenon
    <3>3. Judged(h, ok).healthy = v /\ Judged(h, ok).successes = h.successes + 1 /\ Judged(h, ok).failures = 0
      BY <3>2
    <3>4. QED
      BY <2>6, <3>1, <3>3
  <2>8. Verdict(Judged(h, ok), A)
    BY <2>1, <2>10 DEF Verdict, F, T
  <2>9. QED
    BY <2>7, <2>8 DEF A
<1>3. CASE ok = FALSE
  <2>1. Counts(A, TRUE, 0) /\ Counts(A, FALSE, h.failures + 1)
    BY <1>3, CountsAppend DEF Verdict
  <2>20. T(A) = IF 0 >= HealthyThreshold THEN Len(R) + 1 ELSE T(R)
    BY <1>0, <2>1, RowAppend
  <2>21. ~(0 >= HealthyThreshold)
    BY <1>0
  <2>2. T(A) = T(R)
    BY <2>20, <2>21
  <2>3. F(A) = IF h.failures + 1 >= UnhealthyThreshold THEN Len(R) + 1 ELSE F(R)
    BY <1>0, <2>1, RowAppend, ZenonT(60)
  <2>4. h.healthy <=> F(R) <= T(R)
    BY DEF Verdict
  <2>5. Judged(h, ok) = [healthy |-> h.healthy /\ h.failures + 1 < UnhealthyThreshold,
              successes |-> 0, failures |-> h.failures + 1]
    BY <1>3 DEF Judged
  <2> HIDE DEF F, T, A
  <2>6. (h.healthy /\ h.failures + 1 < UnhealthyThreshold) <=> F(A) <= T(A)
    BY <1>0, <1>1, <2>2, <2>3, <2>4
  <2>7. Judged(h, ok) \in [healthy : BOOLEAN, successes : Nat, failures : Nat]
    BY <2>5
  <2>10. /\ Judged(h, ok).healthy <=> F(A) <= T(A)
         /\ Judged(h, ok).successes = 0 /\ Judged(h, ok).failures = h.failures + 1
    <3>1. PICK v \in BOOLEAN : v = (h.healthy /\ h.failures + 1 < UnhealthyThreshold)
      OBVIOUS
    <3>2. Judged(h, ok) = [healthy |-> v, successes |-> 0, failures |-> h.failures + 1]
      BY <2>5, <3>1, Zenon
    <3>3. Judged(h, ok).healthy = v /\ Judged(h, ok).successes = 0 /\ Judged(h, ok).failures = h.failures + 1
      BY <3>2
    <3>4. QED
      BY <2>6, <3>1, <3>3
  <2>8. Verdict(Judged(h, ok), A)
    BY <2>1, <2>10 DEF Verdict, F, T
  <2>9. QED
    BY <2>7, <2>8 DEF A
<1>4. QED
  BY <1>2, <1>3

\* A transport that was never checked is healthy.
LEMMA FreshVerdict == Fresh \in [healthy : BOOLEAN, successes : Nat, failures : Nat] /\ Verdict(Fresh, <<>>)
<1>1. \A n, ok : RowEnds(<<>>, ok, n) = {0}
  BY DEF RowEnds
<1>2. Max({0}) = 0
  <2>1. {0} \in SUBSET Int /\ \A x \in {0} : x <= 0
    OBVIOUS
  <2>2. QED
    BY <2>1, MaxIs
<1>3. Counts(<<>>, TRUE, 0) /\ Counts(<<>>, FALSE, 0)
  BY DEF Counts
<1>4. Fresh \in [healthy : BOOLEAN, successes : Nat, failures : Nat]
      /\ Fresh.healthy = TRUE /\ Fresh.successes = 0 /\ Fresh.failures = 0
  BY DEF Fresh
<1>5. \A n, ok : Max(RowEnds(<<>>, ok, n)) = 0
  BY <1>1, <1>2
<1>6. 0 <= 0
  OBVIOUS
<1>7. Verdict(Fresh, <<>>)
  BY <1>3, <1>4, <1>5, <1>6 DEF Verdict
<1>8. QED
  BY <1>4, <1>7

\* The invariant says what the property says.
LEMMA HealthInvFollows == HealthInv => VerdictFollowsHistory
<1> SUFFICES ASSUME HealthInv PROVE VerdictFollowsHistory
  OBVIOUS
<1>1. ASSUME NEW t \in Watched
      PROVE  health[t].healthy <=> LastRow(t, FALSE, UnhealthyThreshold) <= LastRow(t, TRUE, HealthyThreshold)
  BY DEF HealthInv, Verdict, LastRow, RowEnds
<1>2. ASSUME stopCh = "panicked" PROVE Cardinality({l \in Loops : hloop[l].pc # "none"}) > 1
  <2> DEFINE S == {l \in Loops : hloop[l].pc # "none"}
  <2>1. PICK l, m \in S : l # m
    BY <1>2 DEF HealthInv, Stops, TwoStarted, Started
  <2>2. IsFiniteSet(S)
    BY HealthCheckerAssumption, FS_Subset
  <2>3. Cardinality({l, m}) = 2 /\ {l, m} \subseteq S
    <3>1. Cardinality({l}) = 1 /\ IsFiniteSet({l})
      BY FS_Singleton
    <3>2. Cardinality({l} \cup {m}) = 2
      <4>1. m \notin {l}
        BY <2>1
      <4>2. Cardinality({l} \cup {m}) = IF m \in {l} THEN Cardinality({l}) ELSE Cardinality({l}) + 1
        BY <3>1, FS_AddElement, Zenon
      <4>3. QED
        BY <3>1, <4>1, <4>2
    <3>3. {l} \cup {m} = {l, m}
      OBVIOUS
    <3>4. QED
      BY <2>1, <3>2, <3>3
  <2>4. Cardinality({l, m}) <= Cardinality(S) /\ Cardinality(S) \in Nat
    BY <2>2, <2>3, FS_Subset, FS_CardinalityType
  <2>5. QED
    BY <2>3, <2>4
<1>3. QED
  BY <1>1, <1>2 DEF VerdictFollowsHistory

\* Nothing is watched, and no loop runs.
LEMMA HealthInvInit == HealthInit => HealthInv
<1> SUFFICES ASSUME HealthInit PROVE HealthInv
  OBVIOUS
<1>1. HealthTyped /\ \A t \in Watched : health[t] = Fresh /\ results[t] = <<>>
  BY FreshVerdict DEF HealthInit, HealthTyped
<1>2. LoopsTyped
  BY DEF HealthInit, LoopsTyped
<1>3. Stops
  BY DEF HealthInit, Stops
<1>4. QED
  BY <1>1, <1>2, <1>3, FreshVerdict DEF HealthInv, HealthInit

\* Every step keeps the invariant.
LEMMA HealthInvNext == HealthInv /\ [HealthNext]_healthVars => HealthInv'
<1> SUFFICES ASSUME HealthInv, [HealthNext]_healthVars PROVE HealthInv'
  OBVIOUS
<1> DEFINE Entries == [healthy : BOOLEAN, successes : Nat, failures : Nat]
           Loop == [pc : {"none", "waiting", "ended"}, todo : SUBSET Watched, replaced : SUBSET Watched]
<1>0. hloop \in [Loops -> Loop] /\ Stops /\ transports \subseteq Watched
  BY DEF HealthInv, LoopsTyped
<1>1. CASE HealthNext /\ StopChecker
  <2>1. UNCHANGED <<health, results, hloop, transports>> /\ running = TRUE /\ running' = FALSE
        /\ stopCh' = IF stopCh = "open" THEN "closed" ELSE "panicked"
    BY <1>1, <1>0 DEF StopChecker, Stops
  <2>2. stopCh # "panicked"
    BY <1>1 DEF HealthNext
  <2>3. stopCh' = "panicked" => TwoStarted
    BY <2>1, <1>0, <2>2, <1>1 DEF Stops, StopChecker
  <2>4. QED
    BY <2>1, <2>3, <1>0 DEF HealthInv, HealthTyped, LoopsTyped, Stops, TwoStarted, Started
<1>2. ASSUME NEW l \in Loops, StartChecker(l) PROVE HealthInv'
  <2> DEFINE f == [hloop[l] EXCEPT !.pc = "waiting"]
  <2>1. UNCHANGED <<health, results, stopCh, transports>> /\ hloop' = [hloop EXCEPT ![l] = f]
        /\ running = FALSE /\ running' = TRUE /\ hloop[l].pc = "none"
    BY <1>2, <1>0 DEF StartChecker, Stops
  <2>2. f \in Loop /\ f.pc = "waiting"
    BY <1>0
  <2> HIDE DEF f
  <2>3. hloop' \in [Loops -> Loop] /\ Started(l)' /\ ~Started(l) /\ \A m \in Loops : Started(m) => Started(m)'
    BY <1>0, <2>1, <2>2 DEF Started
  <2>4. (\E m \in Loops : Started(m)) => TwoStarted'
    BY <2>3 DEF TwoStarted
  <2>5. TwoStarted => TwoStarted'
    BY <2>3 DEF TwoStarted
  <2>6. Stops'
    BY <1>0, <2>1, <2>3, <2>4, <2>5 DEF Stops
  <2>7. QED
    BY <2>1, <2>3, <2>6 DEF HealthInv, HealthTyped, LoopsTyped
<1>3. ASSUME NEW l \in Loops, CheckLoop(l) PROVE HealthInv'
  <2>1. UNCHANGED <<transports, health, results, running, stopCh>> /\ hloop[l] \in Loop /\ Started(l)
    BY <1>0, <1>3 DEF CheckLoop, Started
  <2>2. PICK f \in Loop : f.pc # "none" /\ hloop' = [hloop EXCEPT ![l] = f]
    <3>1. CASE hloop' = [hloop EXCEPT ![l].todo = transports, ![l].replaced = {}]
      <4> DEFINE f == [hloop[l] EXCEPT !.todo = transports, !.replaced = {}]
      <4>1. f \in Loop /\ f.pc # "none" /\ hloop' = [hloop EXCEPT ![l] = f]
        BY <1>0, <2>1, <3>1 DEF Started
      <4>2. QED
        BY <4>1
    <3>2. CASE hloop' = [hloop EXCEPT ![l].pc = "ended"]
      <4> DEFINE f == [hloop[l] EXCEPT !.pc = "ended"]
      <4>1. f \in Loop /\ f.pc # "none" /\ hloop' = [hloop EXCEPT ![l] = f]
        BY <1>0, <2>1, <3>2
      <4>2. QED
        BY <4>1
    <3>3. QED
      BY <3>1, <3>2, <1>3 DEF CheckLoop
  <2>3. hloop' \in [Loops -> Loop] /\ \A m \in Loops : Started(m)' <=> Started(m)
    BY <1>0, <2>1, <2>2 DEF Started
  <2>4. Stops'
    BY <1>0, <2>1, <2>3 DEF Stops, TwoStarted
  <2>5. QED
    BY <2>1, <2>3, <2>4 DEF HealthInv, HealthTyped, LoopsTyped
<1>4. ASSUME NEW l \in Loops, NEW t \in Watched, CheckTransport(l, t) PROVE HealthInv'
  <2> DEFINE f == [hloop[l] EXCEPT !.todo = hloop[l].todo \ {t}]
  <2>1. UNCHANGED <<transports, running, stopCh>> /\ hloop' = [hloop EXCEPT ![l] = f]
    BY <1>4 DEF CheckTransport
  <2>2. f \in Loop /\ f.pc = hloop[l].pc
    BY <1>0
  <2> HIDE DEF f
  <2>3. hloop' \in [Loops -> Loop] /\ \A m \in Loops : Started(m)' <=> Started(m)
    BY <1>0, <2>1, <2>2 DEF Started
  <2>4. Stops'
    BY <1>0, <2>1, <2>3 DEF Stops, TwoStarted
  <2>5. HealthTyped' /\ \A u \in Watched : Verdict(health'[u], results'[u])
    <3>1. CASE UNCHANGED <<health, results>>
      BY <3>1 DEF HealthInv, HealthTyped
    <3>2. CASE \E ok \in BOOLEAN : /\ health' = [health EXCEPT ![t] = Judged(@, ok)]
                                   /\ results' = [results EXCEPT ![t] = Append(@, ok)]
      <4>1. PICK ok \in BOOLEAN : /\ health' = [health EXCEPT ![t] = Judged(@, ok)]
                                  /\ results' = [results EXCEPT ![t] = Append(@, ok)]
        BY <3>2
      <4>2. /\ health[t] \in Entries /\ results[t] \in Seq(BOOLEAN) /\ Verdict(health[t], results[t])
        BY DEF HealthInv, HealthTyped
      <4>3. /\ Judged(health[t], ok) \in Entries /\ Append(results[t], ok) \in Seq(BOOLEAN)
            /\ Verdict(Judged(health[t], ok), Append(results[t], ok))
        BY <4>2, JudgedIsVerdict, AppendProperties
      <4>4. QED
        BY <4>1, <4>3 DEF HealthInv, HealthTyped
    <3>3. QED
      BY <3>1, <3>2, <1>4 DEF CheckTransport
  <2>6. QED
    BY <2>1, <2>3, <2>4, <2>5, <1>0 DEF HealthInv, LoopsTyped
<1>5. ASSUME NEW t \in Watched, MonitorTransport(t) PROVE HealthInv'
  <2>1. /\ UNCHANGED <<running, stopCh>> /\ transports' = transports \cup {t}
        /\ health' = [health EXCEPT ![t] = Fresh] /\ results' = [results EXCEPT ![t] = <<>>]
        /\ hloop' = [l \in Loops |-> [hloop[l] EXCEPT !.replaced = @ \cup (hloop[l].todo \cap {t})]]
    BY <1>5 DEF MonitorTransport
  <2>2. hloop' \in [Loops -> Loop] /\ \A m \in Loops : Started(m)' <=> Started(m)
    <3>1. ASSUME NEW l \in Loops PROVE hloop'[l] \in Loop /\ hloop'[l].pc = hloop[l].pc
      BY <1>0, <2>1
    <3>2. QED
      BY <2>1, <3>1 DEF Started
  <2>3. Stops'
    BY <1>0, <2>1, <2>2 DEF Stops, TwoStarted
  <2>4. HealthTyped' /\ \A u \in Watched : Verdict(health'[u], results'[u])
    BY <2>1, FreshVerdict DEF HealthInv, HealthTyped
  <2>5. QED
    BY <2>1, <2>2, <2>3, <2>4, <1>0 DEF HealthInv, LoopsTyped
<1>6. ASSUME NEW t \in Watched, StopMonitoring(t) PROVE HealthInv'
  <2>1. UNCHANGED <<health, results, running, stopCh, hloop>> /\ transports' = transports \ {t}
    BY <1>6 DEF StopMonitoring
  <2>2. QED
    BY <2>1, <1>0 DEF HealthInv, HealthTyped, LoopsTyped, Stops, TwoStarted, Started
<1>7. CASE UNCHANGED healthVars
  BY <1>7 DEF healthVars, HealthInv, HealthTyped, LoopsTyped, Stops, TwoStarted, Started
<1>8. QED
  BY <1>1, <1>2, <1>3, <1>4, <1>5, <1>6, <1>7 DEF HealthNext

\* A transport's verdict is what the results say, and the stop channel is closed
\* twice only after a second Start (transport_manager.go:332-355, 412-438).
THEOREM HealthFollowsHistory == HealthSpec => []VerdictFollowsHistory
<1>1. HealthSpec => []HealthInv
  BY HealthInvInit, HealthInvNext, PTL DEF HealthSpec
<1>2. QED
  BY <1>1, HealthInvFollows, PTL

-----------------------------------------------------------------------------
(***************************************************************************)
(* Capabilities. A check walks the array that its session's list has, or   *)
(* had: what it could use from the beginning is still ahead of it, in the  *)
(* part whose length it took, unless the list moved. The store decides     *)
(* what is valid; an ID that left it never comes back.                     *)
(***************************************************************************)

Slots == Caps \cup {NoCap}
SomeSession == CHOOSE s \in SecSessions : TRUE
Makes == [state : {"undrawn", "stored", "removed"}, fits : BOOLEAN, owners : BOOLEAN, term : Slots, expired : BOOLEAN]
Lists == [state : {"undrawn", "known", "gone"}, array : Seq(Slots), length : Nat]
Issues == [pc : {"idle", "store", "append"}, cap : Slots, made : Makes, session : SecSessions \cup {SomeSession}]
Walks == [pc : {"new", "range", "validate", "denied", "allowed"}, session : SecSessions \cup {SomeSession},
          own : BOOLEAN, array : Seq(Slots), length : Nat, i : Nat \ {0}, id : Slots, usable : SUBSET Caps,
          moved : BOOLEAN, stale : BOOLEAN]

SecTyped ==
  /\ capability \in [Caps -> Makes]
  /\ session \in [SecSessions -> Lists]
  /\ issuer \in [Issuers -> Issues]
  /\ revoker \in [Revokers -> Slots]
  /\ check \in [Checks -> Walks]

ListsFit == \A s \in SecSessions : session[s].length <= Len(session[s].array)

\* An ID drawn once is never stored again: one that is revoked, or about to be
\* taken from the sessions, is out of the table for good.
RevokedAreRemoved ==
  /\ \A c \in Caps : c \in revoked => capability[c].state = "removed"
  /\ \A g \in Revokers : revoker[g] # NoCap => capability[revoker[g]].state = "removed"

\* The array a check walks.
Walked(k) == IF check[k].own THEN check[k].array ELSE session[check[k].session].array

\* What a walk has yet to find, unless its list moved, is ahead of it, in the
\* part of the array that it took the length of.
Ahead(k, c) ==
  \/ check[k].pc = "validate" /\ check[k].id = c
  \/ \E j \in 1..check[k].length :
       /\ check[k].i <= j /\ (check[k].pc = "validate" => check[k].i < j)
       /\ Walked(k)[j] = c

WalkInv(k) ==
  /\ check[k].session \in SecSessions
  /\ check[k].length <= Len(Walked(k))
  /\ ~check[k].own /\ ~check[k].moved => check[k].length <= session[check[k].session].length
  /\ \A c \in check[k].usable : c \in Usable(check[k].session)
  /\ ~check[k].moved => \A c \in check[k].usable : Ahead(k, c)

CheckInv(k) ==
  /\ ~check[k].stale
  /\ check[k].pc = "denied" => check[k].usable = {} \/ check[k].moved
  /\ Walking(k) => WalkInv(k)

SecInv == SecTyped /\ ListsFit /\ RevokedAreRemoved /\ \A k \in Checks : CheckInv(k)

\* The invariant says what the property says.
LEMMA InvIsRight == SecInv => CheckIsRight
BY DEF SecInv, CheckInv, CheckIsRight

\* A check that has not begun.
LEMMA NoCheckIs ==
  /\ NoCheck \in Walks /\ NoCheck.pc = "new" /\ ~NoCheck.stale /\ NoCheck.usable = {} /\ ~NoCheck.moved
  /\ ~NoCheck.own /\ NoCheck.i = 1
BY DEF NoCheck, Walks, Slots, SomeSession

\* A capability as the store first has it.
LEMMA BareIs ==
  ASSUME NEW st \in {"undrawn", "stored", "removed"}
  PROVE  Bare(st) \in Makes /\ Bare(st).state = st
BY DEF Bare, Makes, Slots

\* There are no sessions, and no checks.
LEMMA SecInvInit == SecInit => SecInv
<1> SUFFICES ASSUME SecInit PROVE SecInv
  OBVIOUS
<1>1. SecTyped
  <2>1. capability \in [Caps -> Makes]
    BY BareIs DEF SecInit
  <2>2. session \in [SecSessions -> Lists]
    BY DEF SecInit, Lists
  <2>3. AtRest \in Issues
    BY BareIs DEF AtRest, Issues, Slots, SomeSession
  <2>4. QED
    BY <2>1, <2>2, <2>3, NoCheckIs DEF SecInit, SecTyped, Slots
<1>2. ListsFit
  BY DEF SecInit, ListsFit
<1>3. RevokedAreRemoved
  BY DEF SecInit, RevokedAreRemoved
<1>4. \A k \in Checks : CheckInv(k)
  BY NoCheckIs DEF SecInit, CheckInv, Walking
<1>5. QED
  BY <1>1, <1>2, <1>3, <1>4 DEF SecInv

-----------------------------------------------------------------------------
\* What is usable is so by the session's list and the table.
LEMMA UsableKept ==
  ASSUME NEW s, NEW c \in Usable(s), Valid(c) => Valid(c)',
         session'[s] = session[s] \/ c \in Listed(s)'
  PROVE  c \in Usable(s)'
BY DEF Usable, Listed

\* A step that changes nothing a walk looks at, and invalidates nothing.
LEMMA WalkersKept ==
  ASSUME SecInv, UNCHANGED <<session, check>>, \A c \in Caps : Valid(c) => Valid(c)'
  PROVE  \A k \in Checks : CheckInv(k)'
<1> SUFFICES ASSUME NEW k \in Checks PROVE CheckInv(k)'
  OBVIOUS
<1>1. check'[k] = check[k] /\ session'[check[k].session] = session[check[k].session]
  OBVIOUS
<1>2. Walking(k)' <=> Walking(k)
  BY <1>1 DEF Walking
<1>3. CASE Walking(k)
  <2>1. WalkInv(k) /\ \A c \in check[k].usable : c \in Caps
    BY <1>3 DEF SecInv, CheckInv, SecTyped, Walks
  <2>2. \A c \in check[k].usable : c \in Usable(check[k].session)'
    BY <2>1, <1>1, UsableKept DEF WalkInv
  <2>3. Walked(k)' = Walked(k)
    BY <1>1 DEF Walked
  <2>4. WalkInv(k)'
    BY <1>1, <2>1, <2>2, <2>3 DEF WalkInv, Ahead
  <2>5. QED
    BY <1>1, <1>2, <2>4 DEF SecInv, CheckInv
<1>4. QED
  BY <1>1, <1>2, <1>3 DEF SecInv, CheckInv

\* Witnessed, check by check.
LEMMA WitnessedIs ==
  ASSUME SecTyped, NEW k \in Checks, NEW s, s = check[k].session
  PROVE  /\ Witnessed[k] \in Walks
         /\ ~Walking(k) => Witnessed[k] = check[k]
         /\ Witnessed[k].pc = check[k].pc /\ Witnessed[k].session = s /\ Witnessed[k].own = check[k].own
         /\ Witnessed[k].array = check[k].array /\ Witnessed[k].length = check[k].length
         /\ Witnessed[k].i = check[k].i /\ Witnessed[k].id = check[k].id
         /\ Witnessed[k].moved = check[k].moved /\ Witnessed[k].stale = check[k].stale
         /\ Walking(k) => Witnessed[k].usable = {c \in check[k].usable : c \in Usable(s)'}
<1> DEFINE U == {c \in check[k].usable : \E t \in {check[k].session} : (c \in Usable(t))'}
           w == [check[k] EXCEPT !.usable = U]
<1>1. check[k] \in Walks
  BY DEF SecTyped
<1>2. Witnessed[k] = IF ~Walking(k) THEN check[k] ELSE w
  BY DEF Witnessed
<1>3. U = {c \in check[k].usable : c \in Usable(s)'}
  BY DEF Usable
<1>4. U \in SUBSET Caps
  BY <1>1 DEF Walks
<1> HIDE DEF U
<1>5. w \in Walks /\ w.pc = check[k].pc /\ w.session = s /\ w.own = check[k].own /\ w.array = check[k].array
      /\ w.length = check[k].length /\ w.i = check[k].i /\ w.id = check[k].id /\ w.moved = check[k].moved
      /\ w.stale = check[k].stale /\ w.usable = U
  BY <1>1, <1>4 DEF Walks
<1> HIDE DEF w
<1>6. QED
  BY <1>1, <1>2, <1>3, <1>5

\* A step after which a check has forgotten what it can no longer use.
LEMMA ForgettingKept ==
  ASSUME SecInv, UNCHANGED session, check' = Witnessed
  PROVE  \A k \in Checks : CheckInv(k)'
<1> SUFFICES ASSUME NEW k \in Checks PROVE CheckInv(k)'
  OBVIOUS
<1>1. check'[k] = Witnessed[k] /\ SecTyped /\ CheckInv(k)
  BY DEF SecInv
<1>0. PICK s : s = check[k].session
  OBVIOUS
<1>2. CASE ~Walking(k)
  BY <1>0, <1>1, <1>2, WitnessedIs DEF CheckInv, Walking
<1>3. CASE Walking(k)
  <2>1. /\ check'[k].pc = check[k].pc /\ check'[k].session = s /\ check'[k].own = check[k].own
        /\ check'[k].array = check[k].array /\ check'[k].length = check[k].length /\ check'[k].i = check[k].i
        /\ check'[k].id = check[k].id /\ check'[k].moved = check[k].moved /\ check'[k].stale = check[k].stale
        /\ check'[k].usable = {c \in check[k].usable : c \in Usable(s)'}
    BY <1>0, <1>1, <1>3, WitnessedIs
  <2>2. WalkInv(k)
    BY <1>1, <1>3 DEF CheckInv
  <2>3. Walked(k)' = Walked(k)
    BY <1>0, <2>1 DEF Walked
  <2>4. \A c \in check'[k].usable : c \in check[k].usable /\ c \in Usable(check[k].session)'
    <3>1. Usable(check[k].session)' = Usable(s)'
      BY <2>1 DEF Usable, Listed, Valid, Stored
    <3>2. QED
      BY <2>1, <3>1
  <2>5. WalkInv(k)'
    BY <1>0, <2>1, <2>2, <2>3, <2>4 DEF WalkInv, Ahead
  <2>6. check'[k].pc # "denied"
    BY <1>3, <2>1 DEF Walking
  <2>7. QED
    BY <1>1, <2>1, <2>5, <2>6 DEF CheckInv
<1>4. QED
  BY <1>2, <1>3

-----------------------------------------------------------------------------
\* Issuers: what they make is a capability, and goes into the table under an
\* undrawn ID.
LEMMA IssuerKept ==
  ASSUME SecInv, NEW g \in Issuers, NEW f \in Issues, issuer' = [issuer EXCEPT ![g] = f],
         UNCHANGED <<capability, revoked, session, revoker, check>>
  PROVE  SecInv'
<1>1. SecTyped'
  BY DEF SecInv, SecTyped
<1>2. ListsFit' /\ RevokedAreRemoved'
  BY DEF SecInv, ListsFit, RevokedAreRemoved
<1>3. \A k \in Checks : CheckInv(k)'
  BY WalkersKept DEF Valid, Stored
<1>4. QED
  BY <1>1, <1>2, <1>3 DEF SecInv

\* An issuer begins: it makes a capability, delegates one or grants one.
LEMMA IssuersKeep ==
  ASSUME SecInv, NEW g \in Issuers,
         \/ \E fits \in BOOLEAN : CreateLists(g, fits)
         \/ \E c \in Caps, restricted \in BOOLEAN : DelegateRetrieves(g, c, restricted)
         \/ \E s \in SecSessions, c \in Caps : GrantLooks(g, s, c)
  PROVE  SecInv'
<1>0. issuer[g] \in Issues /\ capability \in [Caps -> Makes]
  BY DEF SecInv, SecTyped
<1>1. CASE \E fits \in BOOLEAN : CreateLists(g, fits)
  <2>1. PICK fits \in BOOLEAN : CreateLists(g, fits)
    BY <1>1
  <2> DEFINE m == [Bare("stored") EXCEPT !.fits = fits, !.owners = TRUE]
             f == [issuer[g] EXCEPT !.pc = "store", !.made = m]
  <2>2. m \in Makes
    BY BareIs DEF Makes
  <2>3. f \in Issues
    BY <1>0, <2>2 DEF Issues
  <2>4. issuer' = [issuer EXCEPT ![g] = f]
    BY <2>1 DEF CreateLists
  <2> HIDE DEF f
  <2>5. QED
    BY <2>1, <2>3, <2>4, IssuerKept DEF CreateLists
<1>2. CASE \E c \in Caps, restricted \in BOOLEAN : DelegateRetrieves(g, c, restricted)
  <2>1. PICK c \in Caps, restricted \in BOOLEAN : DelegateRetrieves(g, c, restricted)
    BY <1>2
  <2> DEFINE m == [capability[c] EXCEPT !.fits = @ /\ ~restricted, !.owners = FALSE]
             f == [issuer[g] EXCEPT !.pc = "store", !.made = m]
  <2>2. m \in Makes
    BY <1>0 DEF Makes
  <2>3. f \in Issues
    BY <1>0, <2>2 DEF Issues
  <2>4. issuer' = [issuer EXCEPT ![g] = f]
    BY <2>1 DEF DelegateRetrieves
  <2> HIDE DEF f
  <2>5. QED
    BY <2>1, <2>3, <2>4, IssuerKept DEF DelegateRetrieves
<1>3. CASE \E s \in SecSessions, c \in Caps : GrantLooks(g, s, c)
  <2>1. PICK s \in SecSessions, c \in Caps : GrantLooks(g, s, c)
    BY <1>3
  <2> DEFINE f == [issuer[g] EXCEPT !.pc = "append", !.cap = c, !.session = s]
  <2>3. f \in Issues
    BY <1>0 DEF Issues, Slots
  <2>4. issuer' = [issuer EXCEPT ![g] = f]
    BY <2>1 DEF GrantLooks
  <2> HIDE DEF f
  <2>5. QED
    BY <2>1, <2>3, <2>4, IssuerKept DEF GrantLooks
<1>4. QED
  BY <1>1, <1>2, <1>3

\* The capability goes into the store, where no list has it yet.
LEMMA StoreIssuedKeeps == ASSUME SecInv, NEW g \in Issuers, StoreIssued(g) PROVE SecInv'
<1>0. issuer \in [Issuers -> Issues] /\ capability \in [Caps -> Makes]
  BY DEF SecInv, SecTyped
<1> DEFINE undrawn == {c \in Caps : capability[c].state = "undrawn"}
           id == CHOOSE c \in undrawn : TRUE
           m == [issuer[g].made EXCEPT !.term = IF @ = NoCap THEN id ELSE @]
<1>1. id \in Caps /\ capability[id].state = "undrawn"
  BY DEF StoreIssued
<1>2. capability' = [capability EXCEPT ![id] = m] /\ UNCHANGED <<revoked, session, revoker, check>>
      /\ issuer' = [issuer EXCEPT ![g] = AtRest]
  BY DEF StoreIssued
<1> HIDE DEF id
<1>3. issuer[g].made \in Makes
  BY <1>0 DEF Issues
<1>4. m \in Makes
  BY <1>1, <1>3 DEF Makes, Slots
<1> HIDE DEF m
<1>5. AtRest \in Issues
  BY BareIs DEF AtRest, Issues, Slots, SomeSession
<1>6. SecTyped'
  BY <1>0, <1>2, <1>4, <1>5 DEF SecInv, SecTyped
<1>7. \A c \in Caps : capability[c].state # "undrawn" => capability'[c] = capability[c]
  BY <1>0, <1>1, <1>2
<1>8. RevokedAreRemoved'
  <2>1. \A h \in Revokers : revoker[h] # NoCap => revoker[h] \in Caps
    BY DEF SecInv, SecTyped, Slots
  <2>2. QED
    BY <1>2, <1>7, <2>1 DEF SecInv, RevokedAreRemoved
<1>9. \A c \in Caps : Valid(c) => Valid(c)'
  BY <1>7 DEF Valid, Stored
<1>10. \A k \in Checks : CheckInv(k)'
  BY <1>2, <1>9, WalkersKept
<1>11. QED
  BY <1>2, <1>6, <1>8, <1>10 DEF SecInv, ListsFit

-----------------------------------------------------------------------------
\* Revoke, TermEnds, CleanupStore.
LEMMA WitnessedTyped == SecTyped => Witnessed \in [Checks -> Walks]
<1> SUFFICES ASSUME SecTyped PROVE Witnessed \in [Checks -> Walks]
  OBVIOUS
<1>1. \A k \in Checks : Witnessed[k] \in Walks
  <2> TAKE k \in Checks
  <2>1. PICK s : s = check[k].session
    OBVIOUS
  <2>2. QED
    BY <2>1, WitnessedIs
<1>2. QED
  BY <1>1 DEF Witnessed

\* Revoke takes the capability out of the store.
LEMMA RevokeKeeps == ASSUME SecInv, NEW g \in Revokers, NEW c \in Caps, Revoke(g, c) PROVE SecInv'
<1>1. /\ capability' = [capability EXCEPT ![c] = Bare("removed")] /\ revoker' = [revoker EXCEPT ![g] = c]
      /\ UNCHANGED <<revoked, session, issuer>> /\ check' = Witnessed
  BY DEF Revoke
<1>2. SecTyped'
  BY <1>1, WitnessedTyped, BareIs DEF SecInv, SecTyped, Slots
<1>3. RevokedAreRemoved'
  BY <1>1, BareIs DEF SecInv, SecTyped, RevokedAreRemoved, Slots
<1>4. \A k \in Checks : CheckInv(k)'
  BY <1>1, ForgettingKept
<1>5. QED
  BY <1>1, <1>2, <1>3, <1>4 DEF SecInv, ListsFit

\* What expires is usable no more.
LEMMA TermEndsKeeps == ASSUME SecInv, NEW t \in Caps, TermEnds(t) PROVE SecInv'
<1> DEFINE ends(made) == [made EXCEPT !.expired = @ \/ made.term = t]
<1>1. /\ capability' = [c \in Caps |-> ends(capability[c])]
      /\ issuer' = [g \in Issuers |-> [issuer[g] EXCEPT !.made = ends(@)]]
      /\ UNCHANGED <<revoked, session, revoker>> /\ check' = Witnessed
  BY DEF TermEnds
<1>2. \A m \in Makes : ends(m) \in Makes /\ ends(m).state = m.state
  BY DEF Makes
<1> HIDE DEF ends
<1>3. SecTyped'
  <2>1. capability' \in [Caps -> Makes]
    BY <1>1, <1>2 DEF SecInv, SecTyped
  <2>2. ASSUME NEW g \in Issuers PROVE issuer'[g] \in Issues
    <3>1. issuer[g] \in Issues /\ issuer[g].made \in Makes
      BY DEF SecInv, SecTyped, Issues
    <3>2. issuer'[g] = [issuer[g] EXCEPT !.made = ends(issuer[g].made)] /\ ends(issuer[g].made) \in Makes
      BY <1>1, <1>2, <3>1
    <3>3. QED
      BY <3>1, <3>2 DEF Issues
  <2>3. issuer' \in [Issuers -> Issues]
    BY <1>1, <2>2
  <2>4. QED
    BY <1>1, <2>1, <2>3, WitnessedTyped DEF SecInv, SecTyped
<1>4. \A c \in Caps : capability'[c].state = capability[c].state
  BY <1>1, <1>2 DEF SecInv, SecTyped
<1>5. RevokedAreRemoved'
  BY <1>1, <1>4 DEF SecInv, SecTyped, RevokedAreRemoved, Slots
<1>6. \A k \in Checks : CheckInv(k)'
  BY <1>1, ForgettingKept
<1>7. QED
  BY <1>1, <1>3, <1>5, <1>6 DEF SecInv, ListsFit

\* What has expired leaves the store.
LEMMA CleanupStoreKeeps == ASSUME SecInv, CleanupStore PROVE SecInv'
<1>1. /\ capability' = [c \in Caps |-> IF capability[c].expired THEN Bare("removed") ELSE capability[c]]
      /\ UNCHANGED <<revoked, session, issuer, revoker, check>>
  BY DEF CleanupStore
<1>2. SecTyped'
  BY <1>1, BareIs DEF SecInv, SecTyped
<1>3. \A c \in Caps : capability[c].state = "removed" => capability'[c].state = "removed"
  BY <1>1, BareIs
<1>4. RevokedAreRemoved'
  BY <1>1, <1>3 DEF SecInv, SecTyped, RevokedAreRemoved, Slots
<1>5. \A c \in Caps : Valid(c) => Valid(c)'
  BY <1>1 DEF Valid, Stored
<1>6. \A k \in Checks : CheckInv(k)'
  BY <1>1, <1>5, WalkersKept
<1>7. QED
  BY <1>1, <1>2, <1>4, <1>6 DEF SecInv, ListsFit

-----------------------------------------------------------------------------
\* RevokeScrubs: a list without the revoked one still has the others.
LEMMA ScrubKeeps == ASSUME SecInv, NEW g \in Revokers, RevokeScrubs(g) PROVE SecInv'
<1> DEFINE c == revoker[g]
           hit == {s \in SecSessions : c \in Listed(s)}
           first(s) == CHOOSE i \in 1..session[s].length :
                         session[s].array[i] = c /\ \A j \in 1..i - 1 : session[s].array[j] # c
           shifted(s) == [i \in DOMAIN session[s].array |->
                       session[s].array[IF first(s) <= i /\ i < session[s].length THEN i + 1 ELSE i]]
<1>1. /\ c # NoCap
      /\ session' = [s \in SecSessions |-> IF s \notin hit THEN session[s] ELSE
                   [session[s] EXCEPT !.array = shifted(s), !.length = @ - 1]]
      /\ revoked' = revoked \cup {c} /\ revoker' = [revoker EXCEPT ![g] = NoCap]
      /\ UNCHANGED <<capability, issuer>>
      /\ check' = [k \in Checks |-> [Witnessed[k] EXCEPT
             !.moved = @ \/ (check[k].session \in hit /\ Walking(k) /\ ~check[k].own)]]
  BY DEF RevokeScrubs
<1> HIDE DEF first
<1>2. ASSUME NEW s \in hit
      PROVE  /\ shifted(s) \in Seq(Slots) /\ Len(shifted(s)) = Len(session[s].array)
             /\ session[s].length \in Nat \ {0} /\ session[s].length <= Len(session[s].array)
             /\ session[s] \in Lists
  <2>1. session[s] \in Lists /\ session[s].array \in Seq(Slots) /\ session[s].length \in Nat
        /\ session[s].length <= Len(session[s].array)
    BY DEF SecInv, SecTyped, ListsFit, Lists
  <2>2. session[s].length # 0
    BY <2>1 DEF Listed
  <2>3. DOMAIN session[s].array = 1..Len(session[s].array) /\ Len(session[s].array) \in Nat
    BY <2>1
  <2>4. \A i \in 1..Len(session[s].array) :
          session[s].array[IF first(s) <= i /\ i < session[s].length THEN i + 1 ELSE i] \in Slots
    BY <2>1, <2>3
  <2>5. QED
    BY <2>1, <2>2, <2>3, <2>4
<1> HIDE DEF shifted
<1>3. SecTyped'
  <2>1. session' \in [SecSessions -> Lists]
    <3>1. ASSUME NEW s \in SecSessions PROVE session'[s] \in Lists
      <4>1. CASE s \notin hit
        BY <1>1, <4>1 DEF SecInv, SecTyped
      <4>2. CASE s \in hit
        <5>1. session'[s] = [session[s] EXCEPT !.array = shifted(s), !.length = session[s].length - 1]
          BY <1>1, <4>2
        <5>2. session[s] \in Lists /\ shifted(s) \in Seq(Slots) /\ session[s].length - 1 \in Nat
          BY <1>2, <4>2
        <5>3. QED
          BY <5>1, <5>2 DEF Lists
      <4>3. QED
        BY <4>1, <4>2
    <3>2. QED
      BY <1>1, <3>1
  <2>2. check' \in [Checks -> Walks]
    <3>1. ASSUME NEW k \in Checks PROVE check'[k] \in Walks
      BY <1>1, WitnessedTyped DEF SecInv, Walks
    <3>2. QED
      BY <1>1, <3>1
  <2>3. QED
    BY <1>1, <2>1, <2>2 DEF SecInv, SecTyped, Slots
<1>4. ListsFit'
  <2>1. ASSUME NEW s \in SecSessions PROVE session'[s].length <= Len(session'[s].array)
    <3>1. CASE s \notin hit
      BY <1>1, <3>1 DEF SecInv, ListsFit
    <3>2. CASE s \in hit
      <4>1. session'[s].length = session[s].length - 1 /\ session'[s].array = shifted(s)
        BY <1>1, <1>2, <3>2 DEF Lists
      <4>2. QED
        BY <4>1, <1>2, <3>2
    <3>3. QED
      BY <3>1, <3>2
  <2>2. QED
    BY <2>1 DEF ListsFit
<1>5. RevokedAreRemoved'
  BY <1>1 DEF SecInv, SecTyped, RevokedAreRemoved, Slots
<1>6. ASSUME NEW k \in Checks PROVE CheckInv(k)'
  <2>0. PICK s : s = check[k].session
    OBVIOUS
  <2>1. Witnessed[k] \in Walks /\ check'[k] = [Witnessed[k] EXCEPT
             !.moved = @ \/ (s \in hit /\ Walking(k) /\ ~check[k].own)]
    BY <1>1, <2>0, WitnessedTyped DEF SecInv
  <2>2. CheckInv(k) /\ SecTyped
    BY DEF SecInv
  <2>3. CASE ~Walking(k)
    BY <2>0, <2>1, <2>2, <2>3, WitnessedIs DEF CheckInv, Walking, Walks
  <2>4. CASE Walking(k)
    <3>1. /\ check'[k].pc = check[k].pc /\ check'[k].session = s /\ check'[k].own = check[k].own
          /\ check'[k].array = check[k].array /\ check'[k].length = check[k].length /\ check'[k].i = check[k].i
          /\ check'[k].id = check[k].id /\ check'[k].stale = check[k].stale
          /\ check'[k].usable = {d \in check[k].usable : d \in Usable(s)'}
          /\ check'[k].moved = (check[k].moved \/ (s \in hit /\ ~check[k].own))
      BY <2>0, <2>1, <2>2, <2>4, WitnessedIs DEF Walks
    <3>2. WalkInv(k) /\ s \in SecSessions
      BY <2>0, <2>2, <2>4 DEF CheckInv, WalkInv
    <3>3. Len(Walked(k)') = Len(Walked(k))
      <4>1. CASE check[k].own
        BY <4>1, <3>1 DEF Walked
      <4>2. CASE ~check[k].own
        <5>1. Len(session'[s].array) = Len(session[s].array)
          BY <1>1, <1>2, <3>2 DEF Lists
        <5>2. QED
          BY <4>2, <5>1, <3>1, <2>0 DEF Walked
      <4>3. QED
        BY <4>1, <4>2
    <3>4. ~check'[k].moved => Walked(k)' = Walked(k)
      <4>1. CASE check[k].own
        BY <4>1, <3>1 DEF Walked
      <4>2. CASE ~check[k].own /\ s \notin hit
        <5>1. session'[s] = session[s]
          BY <1>1, <3>2, <4>2
        <5>2. QED
          BY <4>2, <5>1, <3>1, <2>0 DEF Walked
      <4>3. QED
        BY <4>1, <4>2, <3>1
    <3>5. ~check[k].own /\ ~check'[k].moved => session'[s].length = session[s].length
      BY <1>1, <3>1, <3>2
    <3>6. \A d \in check'[k].usable : d \in check[k].usable /\ d \in Usable(check[k].session)'
      <4>1. Usable(check[k].session)' = Usable(s)'
        BY <3>1 DEF Usable, Listed, Valid, Stored
      <4>2. QED
        BY <3>1, <4>1
    <3>7. WalkInv(k)'
      BY <2>0, <3>1, <3>2, <3>3, <3>4, <3>5, <3>6 DEF WalkInv, Ahead
    <3>8. check'[k].pc # "denied"
      BY <2>4, <3>1 DEF Walking
    <3>9. QED
      BY <2>2, <3>1, <3>7, <3>8 DEF CheckInv
  <2>5. QED
    BY <2>3, <2>4
<1>7. QED
  BY <1>3, <1>4, <1>5, <1>6, SMTT(40) DEF SecInv

\* GrantAppends: a list that grows still has what it had, and a walk of an array
\* that was given up has it for itself.
LEMMA AppendKeeps == ASSUME SecInv, NEW g \in Issuers, GrantAppends(g) PROVE SecInv'
<1>0. PICK s, cap : s = issuer[g].session /\ cap = issuer[g].cap
  BY ONLY ZenonT(40)
<1> DEFINE old == session[s].array
           n == session[s].length
           grown == [i \in 1..IF n = 0 THEN 1 ELSE 2 * n |-> IF i <= n THEN old[i] ELSE NoCap]
           array == IF n < Len(old) THEN old ELSE grown
           new == [array EXCEPT ![n + 1] = cap]
<1>1. /\ session' = [session EXCEPT ![s].array = new, ![s].length = n + 1]
      /\ issuer' = [issuer EXCEPT ![g] = AtRest]
      /\ check' = [k \in Checks |->
           IF Walking(k) /\ check[k].session = s /\ ~check[k].own /\ n = Len(old)
           THEN [check[k] EXCEPT !.own = TRUE, !.array = old] ELSE check[k]]
      /\ UNCHANGED <<capability, revoked, revoker>>
  BY <1>0 DEF GrantAppends
<1>2. AtRest \in Issues /\ cap \in Slots
  BY <1>0, BareIs DEF SecInv, SecTyped, AtRest, Issues, Slots, SomeSession
<1>3. \A c \in Caps : Valid(c) => Valid(c)'
  BY <1>1 DEF Valid, Stored
<1>4. RevokedAreRemoved'
  BY <1>1 DEF SecInv, RevokedAreRemoved
<1>5. CASE s \notin SecSessions
  <2>1. session' = session
    BY <1>1, <1>5 DEF SecInv, SecTyped
  <2>2. \A k \in Checks : ~(Walking(k) /\ check[k].session = s)
    BY <1>5 DEF SecInv, CheckInv, WalkInv
  <2>3. check' = check
    BY <1>1, <2>2 DEF SecInv, SecTyped
  <2>4. \A k \in Checks : CheckInv(k)'
    BY <2>1, <2>3, <1>3, WalkersKept
  <2>5. QED
    BY <1>1, <1>2, <1>4, <2>1, <2>3, <2>4 DEF SecInv, SecTyped, ListsFit
<1>6. CASE s \in SecSessions
  <2>1. /\ session[s] \in Lists /\ old \in Seq(Slots) /\ Len(old) \in Nat /\ n \in Nat /\ n <= Len(old)
        /\ DOMAIN old = 1..Len(old) /\ \A j \in 1..Len(old) : old[j] \in Slots
    BY <1>6 DEF SecInv, SecTyped, ListsFit, Lists
  <2> HIDE DEF n, old
  <2>20. n \in Nat /\ Len(old) \in Nat /\ n <= Len(old)
    BY <2>1
  <2>2. /\ array \in Seq(Slots) /\ n + 1 \in 1..Len(array) /\ Len(array) \in Nat
        /\ \A j \in 1..n : array[j] = old[j]
        /\ n < Len(old) => array = old
    <3>1. CASE n < Len(old)
      BY <3>1, <2>1
    <3>2. CASE ~(n < Len(old))
      <4>1. n = Len(old) /\ NoCap \in Slots
        BY <2>20, <3>2 DEF Slots
      <4> DEFINE top == IF n = 0 THEN 1 ELSE 2 * n
      <4>2. top \in Nat /\ n + 1 \in 1..top
        BY <2>1
      <4> HIDE DEF top
      <4>3. grown = [i \in 1..top |-> IF i <= n THEN old[i] ELSE NoCap]
        BY DEF top
      <4>4. \A i \in 1..top : (IF i <= n THEN old[i] ELSE NoCap) \in Slots
        BY <2>1, <4>1, <4>2
      <4>9. grown \in [1..top -> Slots]
        BY <4>3, <4>4
      <4>5. grown \in Seq(Slots) /\ Len(grown) = top
        BY <4>2, <4>9, FunctionIsSeq, ZenonT(60)
      <4>6. \A j \in 1..n : j \in 1..top /\ j <= n
        BY <2>1, <4>2
      <4>7. \A j \in 1..n : grown[j] = old[j]
        BY <4>3, <4>6
      <4> HIDE DEF grown
      <4>8. QED
        BY <3>2, <4>2, <4>5, <4>7
    <3>3. QED
      BY <3>1, <3>2
  <2> HIDE DEF array
  <2>3. /\ new \in Seq(Slots) /\ Len(new) = Len(array)
        /\ \A j \in 1..n : new[j] = old[j]
        /\ Len(new) >= Len(old) /\ n + 1 <= Len(new)
        /\ n < Len(old) => Len(new) = Len(old)
    <3>1. /\ new \in Seq(Slots) /\ Len(new) = Len(array)
          /\ \A j \in 1..Len(array) : new[j] = IF j = n + 1 THEN cap ELSE array[j]
      BY <2>2, <1>2, ExceptSeq
    <3>2. \A j \in 1..n : j \in 1..Len(array) /\ j # n + 1
      BY <2>1, <2>2
    <3> HIDE DEF new
    <3>3. \A j \in 1..n : new[j] = old[j]
      BY <3>1, <3>2, <2>2
    <3>4. n + 1 <= Len(new)
      BY <3>1, <2>2
    <3>5. n < Len(old) => Len(new) = Len(old)
      BY <3>1, <2>2
    <3>6. n < Len(old) \/ n = Len(old)
      BY <2>20
    <3>9. Len(array) \in Nat /\ Len(new) = Len(array)
      BY <2>2, <3>1
    <3>7. Len(new) >= Len(old)
      BY <2>20, <3>4, <3>5, <3>6, <3>9
    <3>8. QED
      BY <3>1, <3>3, <3>4, <3>5, <3>7
  <2> HIDE DEF new
  <2>4. /\ session'[s] \in Lists /\ session'[s].array = new /\ session'[s].length = n + 1
        /\ \A t \in SecSessions \ {s} : session'[t] = session[t]
    <3> DEFINE f == [session[s] EXCEPT !.array = new, !.length = n + 1]
    <3>1. session' = [session EXCEPT ![s] = f]
      BY <1>1
    <3>4. session[s] \in Lists /\ new \in Seq(Slots) /\ n + 1 \in Nat
      BY <2>1, <2>20, <2>3
    <3>2. f \in Lists /\ f.array = new /\ f.length = n + 1
      BY <3>4 DEF Lists
    <3> HIDE DEF f
    <3>3. QED
      BY <3>1, <3>2, <1>6 DEF SecInv, SecTyped
  <2>5. session' \in [SecSessions -> Lists]
    BY <1>1, <2>4 DEF SecInv, SecTyped
  <2>6. ListsFit'
    BY <2>1, <2>3, <2>4 DEF SecInv, ListsFit
  <2>7. \A t \in SecSessions : Listed(t) \subseteq Listed(t)'
    <3>1. Listed(s) \subseteq Listed(s)'
      <4>1. \A i \in 1..session[s].length : i \in 1..session'[s].length /\ session'[s].array[i] = session[s].array[i]
        BY <2>1, <2>3, <2>4 DEF n, old
      <4>2. QED
        BY <4>1 DEF Listed
    <3>2. \A t \in SecSessions \ {s} : Listed(t) \subseteq Listed(t)'
      BY <2>4 DEF Listed
    <3>3. QED
      BY <3>1, <3>2
  <2>8. ASSUME NEW k \in Checks PROVE check'[k] \in Walks /\ CheckInv(k)'
    <3>1. check[k] \in Walks /\ CheckInv(k)
      BY DEF SecInv, SecTyped
    <3>2. CASE ~Walking(k)
      BY <1>1, <3>1, <3>2 DEF CheckInv, Walking
    <3>3. CASE Walking(k)
      <4>0. PICK t : t = check[k].session
        OBVIOUS
      <4>1. WalkInv(k) /\ t \in SecSessions
        BY <4>0, <3>1, <3>3 DEF CheckInv, WalkInv
      <4>2. /\ check'[k] \in Walks
            /\ check'[k].pc = check[k].pc /\ check'[k].session = t
            /\ check'[k].length = check[k].length /\ check'[k].i = check[k].i
            /\ check'[k].id = check[k].id /\ check'[k].stale = check[k].stale
            /\ check'[k].usable = check[k].usable /\ check'[k].moved = check[k].moved
            /\ IF t = s /\ ~check[k].own /\ n = Len(old)
               THEN check'[k].own /\ check'[k].array = old
               ELSE check'[k].own = check[k].own /\ check'[k].array = check[k].array
        BY <1>1, <2>1, <3>1, <3>3, <4>0 DEF Walks
      <4>3. check[k].length \in Nat /\ check[k].usable \subseteq Caps
        BY <3>1 DEF Walks
      <4>4. /\ check[k].length <= Len(Walked(k)')
            /\ ~check'[k].own /\ ~check[k].moved => check[k].length <= session'[t].length
            /\ ~check[k].moved => \A j \in 1..check[k].length : Walked(k)'[j] = Walked(k)[j]
        <5>1. CASE check[k].own \/ t # s
          <6>1. check'[k].own = check[k].own /\ check'[k].array = check[k].array
            BY <4>2, <5>1
          <6>2. Walked(k)' = Walked(k)
            BY <6>1, <5>1, <4>0, <4>1, <4>2, <2>4 DEF Walked
          <6>3. ~check[k].own => session'[t] = session[t]
            BY <5>1, <4>1, <2>4
          <6>4. QED
            BY <6>1, <6>2, <6>3, <4>0, <4>1 DEF WalkInv
        <5>2. CASE ~check[k].own /\ t = s /\ n = Len(old)
          <6>1. Walked(k)' = Walked(k) /\ check'[k].own
            BY <5>2, <4>0, <4>2 DEF Walked, old
          <6>2. QED
            BY <6>1, <4>1 DEF WalkInv
        <5>3. CASE ~check[k].own /\ t = s /\ n # Len(old)
          <6>1. Walked(k)' = new /\ Walked(k) = old /\ ~check'[k].own
            BY <5>3, <4>0, <4>2, <2>4 DEF Walked, old
          <6>7. n < Len(old)
            BY <5>3, <2>20
          <6>2. n < Len(old) /\ Len(new) = Len(old)
            BY <6>7, <2>3
          <6>3. check[k].length <= Len(old) /\ (~check[k].moved => check[k].length <= n)
            BY <5>3, <6>1, <4>0, <4>1 DEF WalkInv, n
          <6>4. ~check[k].moved => \A j \in 1..check[k].length : j \in 1..n
            BY <6>3, <4>3, <2>1
          <6>5. session'[t].length = n + 1
            BY <5>3, <2>4
          <6>6. QED
            BY <6>1, <6>2, <6>3, <6>4, <6>5, <2>1, <2>3, <4>3
        <5>4. QED
          BY <5>1, <5>2, <5>3
      <4>5. \A c \in check[k].usable : c \in Usable(check[k].session)'
        <5>1. \A c \in check[k].usable : c \in Listed(t) /\ Valid(c)
          BY <4>0, <4>1 DEF WalkInv, Usable
        <5>2. \A c \in check[k].usable : c \in Listed(t)' /\ Valid(c)'
          BY <5>1, <4>1, <4>3, <2>7, <1>3
        <5>3. Usable(check[k].session)' = Usable(t)'
          BY <4>2 DEF Usable, Listed, Valid, Stored
        <5>4. QED
          BY <5>2, <5>3 DEF Usable
      <4>6. ~check[k].moved => \A c \in check[k].usable : Ahead(k, c)'
        <5> SUFFICES ASSUME ~check[k].moved, NEW c \in check[k].usable PROVE Ahead(k, c)'
          OBVIOUS
        <5>1. Ahead(k, c)
          BY <4>1 DEF WalkInv
        <5>2. QED
          BY <5>1, <4>2, <4>4 DEF Ahead
      <4>7. WalkInv(k)'
        BY <4>1, <4>2, <4>4, <4>5, <4>6 DEF WalkInv
      <4>8. check'[k].pc # "denied"
        BY <3>3, <4>2 DEF Walking
      <4>9. QED
        BY <3>1, <4>2, <4>7, <4>8 DEF CheckInv
    <3>4. QED
      BY <3>2, <3>3
  <2>9. check' \in [Checks -> Walks]
    BY <1>1, <2>8
  <2>10. SecTyped'
    BY <1>1, <1>2, <2>5, <2>9 DEF SecInv, SecTyped
  <2>11. QED
    BY <1>4, <2>6, <2>8, <2>10 DEF SecInv
<1>7. QED
  BY <1>5, <1>6

\* A session begins with a new list.
LEMMA AuthenticateKeeps == ASSUME SecInv, NEW s \in SecSessions, Authenticate(s) PROVE SecInv'
<1> DEFINE f == [session[s] EXCEPT !.state = "known"]
<1>1. session' = [session EXCEPT ![s] = f] /\ UNCHANGED <<capability, revoked, issuer, revoker, check>>
  BY DEF Authenticate
<1>2. f \in Lists /\ f.array = session[s].array /\ f.length = session[s].length
  BY DEF SecInv, SecTyped, Lists
<1> HIDE DEF f
<1>3. session' \in [SecSessions -> Lists]
      /\ \A t \in SecSessions : session'[t].array = session[t].array /\ session'[t].length = session[t].length
  BY <1>1, <1>2 DEF SecInv, SecTyped
<1>4. SecTyped' /\ ListsFit' /\ RevokedAreRemoved'
  BY <1>1, <1>3 DEF SecInv, SecTyped, ListsFit, RevokedAreRemoved
<1>5. ASSUME NEW k \in Checks PROVE CheckInv(k)'
  <2>1. check'[k] = check[k] /\ CheckInv(k)
    BY <1>1 DEF SecInv
  <2>2. CASE Walking(k)
    <3>1. WalkInv(k) /\ check[k].session \in SecSessions
      BY <2>1, <2>2 DEF CheckInv, WalkInv
    <3>2. Walked(k)' = Walked(k)
      BY <1>3, <2>1, <3>1 DEF Walked
    <3>3. Usable(check[k].session)' = Usable(check[k].session)
      BY <1>1, <1>3, <2>1, <3>1 DEF Usable, Listed, Valid, Stored
    <3>4. WalkInv(k)'
      BY <1>3, <2>1, <3>1, <3>2, <3>3 DEF WalkInv, Ahead
    <3>5. QED
      BY <2>1, <3>4 DEF CheckInv
  <2>3. CASE ~Walking(k)
    BY <2>1, <2>3 DEF CheckInv, Walking
  <2>4. QED
    BY <2>2, <2>3
<1>6. QED
  BY <1>4, <1>5 DEF SecInv

\* A check that has its session's context goes on with the list it has.
LEMMA SessionGoesKeeps == ASSUME SecInv, NEW s \in SecSessions, SessionGoes(s) PROVE SecInv'
<1> DEFINE gone == [state |-> "gone", array |-> <<>>, length |-> 0]
<1>1. /\ session' = [session EXCEPT ![s] = gone] /\ UNCHANGED <<capability, revoked, issuer, revoker>>
      /\ check' = [k \in Checks |->
           IF ~Walking(k) \/ check[k].session # s THEN check[k] ELSE
           [check[k] EXCEPT !.own = TRUE, !.array = IF check[k].own THEN @ ELSE session[s].array, !.usable = {}]]
  BY DEF SessionGoes
<1>2. gone \in Lists /\ Len(gone.array) = 0 /\ gone.length = 0
  BY DEF Lists
<1> HIDE DEF gone
<1>3. session' \in [SecSessions -> Lists] /\ session'[s] = gone
      /\ \A t \in SecSessions \ {s} : session'[t] = session[t]
  BY <1>1, <1>2 DEF SecInv, SecTyped
<1>8. RevokedAreRemoved'
  BY <1>1 DEF SecInv, RevokedAreRemoved
<1>9. ASSUME NEW t \in SecSessions PROVE session'[t].length <= Len(session'[t].array)
  <2>1. CASE t = s
    <3>1. session'[t].length = 0 /\ Len(session'[t].array) = 0
      BY <2>1, <1>2, <1>3
    <3>2. QED
      BY <3>1
  <2>2. CASE t # s
    BY <2>2, <1>3 DEF SecInv, ListsFit
  <2>3. QED
    BY <2>1, <2>2
<1>4. ListsFit' /\ RevokedAreRemoved'
  BY <1>8, <1>9 DEF ListsFit
<1>5. ASSUME NEW k \in Checks PROVE check'[k] \in Walks /\ CheckInv(k)'
  <2>1. check[k] \in Walks /\ CheckInv(k)
    BY DEF SecInv, SecTyped
  <2>2. CASE ~Walking(k)
    BY <1>1, <2>1, <2>2 DEF CheckInv, Walking
  <2>3. CASE Walking(k) /\ check[k].session # s
    <3>1. check'[k] = check[k]
      BY <1>1, <2>3
    <3>2. WalkInv(k) /\ check[k].session \in SecSessions \ {s}
      BY <2>1, <2>3 DEF CheckInv, WalkInv
    <3>3. Walked(k)' = Walked(k)
      BY <1>3, <3>1, <3>2 DEF Walked
    <3>7. PICK t : t = check[k].session /\ t \in SecSessions \ {s}
      BY <3>2
    <3>9. session'[t] = session[t] /\ capability' = capability
      BY <1>1, <1>3, <3>7
    <3>8. Usable(t)' = Usable(t)
      BY <3>9 DEF Usable, Listed, Valid, Stored
    <3>4. Usable(check[k].session)' = Usable(check[k].session)
      BY <3>1, <3>7, <3>8 DEF Usable, Listed, Valid, Stored
    <3>5. WalkInv(k)'
      BY <1>3, <3>1, <3>2, <3>3, <3>4 DEF WalkInv, Ahead
    <3>6. QED
      BY <2>1, <3>1, <3>5 DEF CheckInv
  <2>4. CASE Walking(k) /\ check[k].session = s
    <3> DEFINE a == IF check[k].own THEN check[k].array ELSE session[s].array
               f == [check[k] EXCEPT !.own = TRUE, !.array = a, !.usable = {}]
    <3>1. check'[k] = f
      BY <1>1, <2>4
    <3>2. a \in Seq(Slots) /\ a = Walked(k)
      BY <2>1, <2>4 DEF Walked, Walks, SecInv, SecTyped, Lists
    <3> HIDE DEF a
    <3>3. /\ f \in Walks /\ f.own /\ f.array = a /\ f.usable = {} /\ f.pc = check[k].pc
          /\ f.session = s /\ f.length = check[k].length /\ f.stale = check[k].stale
      BY <2>1, <2>4, <3>2 DEF Walks
    <3> HIDE DEF f
    <3>4. WalkInv(k)
      BY <2>1, <2>4 DEF CheckInv
    <3>5. Walked(k)' = Walked(k)
      BY <3>1, <3>2, <3>3 DEF Walked
    <3>6. WalkInv(k)'
      BY <3>1, <3>3, <3>4, <3>5 DEF WalkInv
    <3>7. QED
      BY <2>1, <3>1, <3>3, <3>6 DEF CheckInv
  <2>5. QED
    BY <2>2, <2>3, <2>4
<1>6. SecTyped'
  BY <1>1, <1>3, <1>5 DEF SecInv, SecTyped
<1>7. QED
  BY <1>4, <1>5, <1>6 DEF SecInv

-----------------------------------------------------------------------------
\* One check takes a step.
LEMMA CheckMoves ==
  ASSUME SecInv, NEW k \in Checks, NEW f \in Walks, check' = [check EXCEPT ![k] = f],
         UNCHANGED <<capability, revoked, session, issuer, revoker>>, CheckInv(k)'
  PROVE  SecInv'
<1>1. SecTyped' /\ ListsFit' /\ RevokedAreRemoved'
  BY DEF SecInv, SecTyped, ListsFit, RevokedAreRemoved
<1>2. ASSUME NEW h \in Checks, h # k PROVE CheckInv(h)'
  <2>1. check'[h] = check[h] /\ CheckInv(h)
    BY <1>2 DEF SecInv, SecTyped
  <2>2. Usable(check[h].session)' = Usable(check[h].session)
    BY <2>1 DEF Usable, Listed, Valid, Stored
  <2>3. QED
    BY <2>1, <2>2 DEF CheckInv, Walking, WalkInv, Walked, Ahead
<1>3. QED
  BY <1>1, <1>2 DEF SecInv

\* A check takes the list as its session has it.
LEMMA CheckBeginsKeeps ==
  ASSUME SecInv, NEW k \in Checks, NEW s \in SecSessions, CheckBegins(k, s) PROVE SecInv'
<1> DEFINE f == [NoCheck EXCEPT !.pc = "range", !.session = s, !.length = session[s].length,
                       !.usable = Usable(s)]
<1>1. check' = [check EXCEPT ![k] = f] /\ UNCHANGED <<capability, revoked, session, issuer, revoker>>
  BY DEF CheckBegins
<1>2. session[s].length \in Nat /\ Usable(s) \subseteq Caps /\ session[s].length <= Len(session[s].array)
  BY DEF SecInv, SecTyped, Lists, ListsFit, Usable, Valid, Stored
<1>3. /\ f \in Walks /\ f.pc = "range" /\ f.session = s /\ f.length = session[s].length /\ f.usable = Usable(s)
      /\ ~f.own /\ ~f.moved /\ ~f.stale /\ f.i = 1
  BY <1>2, NoCheckIs DEF Walks
<1> HIDE DEF f
<1>4. check'[k] = f
  BY <1>1 DEF SecInv, SecTyped
<1>5. Walked(k)' = session[s].array
  BY <1>1, <1>3, <1>4 DEF Walked
<1>7. \A c \in Usable(s) : Ahead(k, c)'
  <2> TAKE c \in Usable(s)
  <2>1. PICK j \in 1..session[s].length : session[s].array[j] = c
    BY DEF Usable, Listed
  <2>2. QED
    BY <1>2, <1>3, <1>4, <1>5, <2>1 DEF Ahead
<1>8. WalkInv(k)'
  <2>1. \A c \in check'[k].usable : c \in Usable(check[k].session)'
    BY <1>1, <1>3, <1>4 DEF Usable, Listed, Valid, Stored
  <2>2. \A c \in check'[k].usable : Ahead(k, c)'
    BY <1>3, <1>4, <1>7
  <2>3. QED
    BY <1>1, <1>2, <1>3, <1>4, <1>5, <2>1, <2>2 DEF WalkInv
<1>9. CheckInv(k)'
  BY <1>3, <1>4, <1>8 DEF CheckInv
<1>10. QED
  BY <1>1, <1>3, <1>9, CheckMoves

\* The one that is read is the next to validate, or there is nothing left ahead.
LEMMA CheckReadsKeeps == ASSUME SecInv, NEW k \in Checks, CheckReads(k) PROVE SecInv'
<1>0. PICK s, i, n, array :
        s = check[k].session /\ i = check[k].i /\ n = check[k].length /\ array = Walked(k)
  OBVIOUS
<1>1. check[k] \in Walks /\ CheckInv(k) /\ WalkInv(k) /\ check[k].pc = "range"
  BY DEF SecInv, SecTyped, CheckInv, Walking, CheckReads
<1>2. i \in Nat \ {0} /\ n \in Nat /\ n <= Len(array) /\ array \in Seq(Slots)
  BY <1>0, <1>1 DEF Walks, WalkInv, Walked, SecInv, SecTyped, Lists
<1>3. UNCHANGED <<capability, revoked, session, issuer, revoker>>
  BY DEF CheckReads
<1>4. CASE i <= n
  <2> DEFINE f == [check[k] EXCEPT !.pc = "validate", !.id = array[i]]
  <2>1. check' = [check EXCEPT ![k] = f]
    BY <1>0, <1>4 DEF CheckReads, Walked
  <2>2. array[i] \in Slots
    <3>1. i \in 1..Len(array)
      BY <1>2, <1>4
    <3>2. QED
      BY <1>2, <3>1
  <2>3. /\ f \in Walks /\ f.pc = "validate" /\ f.id = array[i] /\ f.session = s /\ f.i = i /\ f.length = n
        /\ f.own = check[k].own /\ f.array = check[k].array /\ f.usable = check[k].usable
        /\ f.moved = check[k].moved /\ f.stale = check[k].stale
    BY <1>0, <1>1, <2>2 DEF Walks
  <2> HIDE DEF f
  <2>4. check'[k] = f
    BY <2>1 DEF SecInv, SecTyped
  <2>5. Walked(k)' = array
    BY <1>0, <1>3, <2>3, <2>4 DEF Walked
  <2>6. Usable(check[k].session)' = Usable(check[k].session)
    BY <1>0, <1>3, <2>3, <2>4 DEF Usable, Listed, Valid, Stored
  <2>7. ~check[k].moved => \A c \in check[k].usable : Ahead(k, c)'
    <3> SUFFICES ASSUME ~check[k].moved, NEW c \in check[k].usable PROVE Ahead(k, c)'
      OBVIOUS
    <3>1. PICK j \in 1..n : i <= j /\ array[j] = c
      BY <1>0, <1>1 DEF WalkInv, Ahead
    <3>2. i = j \/ i < j
      BY <1>2, <3>1
    <3>3. QED
      BY <2>3, <2>4, <2>5, <3>1, <3>2 DEF Ahead
  <2>8. WalkInv(k)'
    BY <1>0, <1>1, <1>3, <2>3, <2>4, <2>5, <2>6, <2>7 DEF WalkInv
  <2>9. CheckInv(k)'
    BY <1>1, <2>3, <2>4, <2>8 DEF CheckInv
  <2>10. QED
    BY <1>3, <2>1, <2>3, <2>9, CheckMoves
<1>5. CASE ~(i <= n)
  <2> DEFINE f == [NoCheck EXCEPT !.pc = "denied", !.usable = check[k].usable, !.moved = check[k].moved]
  <2>1. check' = [check EXCEPT ![k] = f]
    BY <1>0, <1>5 DEF CheckReads
  <2>2. /\ f \in Walks /\ f.pc = "denied" /\ ~f.stale /\ f.usable = check[k].usable /\ f.moved = check[k].moved
    BY <1>1, NoCheckIs DEF Walks
  <2> HIDE DEF f
  <2>3. check[k].moved \/ check[k].usable = {}
    <3>1. \A j \in 1..n : ~(i <= j)
      BY <1>2, <1>5
    <3>2. \A c \in check[k].usable : ~Ahead(k, c)
      BY <1>0, <1>1, <3>1 DEF Ahead
    <3>3. QED
      BY <1>1, <3>2 DEF WalkInv
  <2>4. check'[k] = f
    BY <2>1 DEF SecInv, SecTyped
  <2>5. CheckInv(k)'
    BY <2>2, <2>3, <2>4 DEF CheckInv, Walking
  <2>6. QED
    BY <1>3, <2>1, <2>2, <2>5, CheckMoves
<1>6. QED
  BY <1>4, <1>5

\* What is valid is stored, and so its revocation has not begun.
LEMMA CheckValidatesKeeps == ASSUME SecInv, NEW k \in Checks, CheckValidates(k) PROVE SecInv'
<1>0. PICK s, i, n, id :
        s = check[k].session /\ i = check[k].i /\ n = check[k].length /\ id = check[k].id
  OBVIOUS
<1>1. check[k] \in Walks /\ CheckInv(k) /\ WalkInv(k) /\ check[k].pc = "validate"
  BY DEF SecInv, SecTyped, CheckInv, Walking, CheckValidates
<1>2. i \in Nat \ {0} /\ i + 1 \in Nat \ {0} /\ n \in Nat
  BY <1>0, <1>1 DEF Walks
<1>3. UNCHANGED <<capability, revoked, session, issuer, revoker>>
  BY DEF CheckValidates
<1>4. CASE ~Valid(id)
  <2> DEFINE f == [check[k] EXCEPT !.pc = "range", !.i = i + 1]
  <2>1. check' = [check EXCEPT ![k] = f]
    BY <1>0, <1>4 DEF CheckValidates
  <2>3. /\ f \in Walks /\ f.pc = "range" /\ f.session = s /\ f.i = i + 1 /\ f.length = n
        /\ f.own = check[k].own /\ f.array = check[k].array /\ f.usable = check[k].usable
        /\ f.moved = check[k].moved /\ f.stale = check[k].stale
    BY <1>0, <1>1, <1>2 DEF Walks
  <2> HIDE DEF f
  <2>4. check'[k] = f
    BY <2>1 DEF SecInv, SecTyped
  <2>5. Walked(k)' = Walked(k)
    BY <1>0, <1>3, <2>3, <2>4 DEF Walked
  <2>6. Usable(check[k].session)' = Usable(check[k].session)
    BY <1>0, <1>3, <2>3, <2>4 DEF Usable, Listed, Valid, Stored
  <2>7. ~check[k].moved => \A c \in check[k].usable : Ahead(k, c)'
    <3> SUFFICES ASSUME ~check[k].moved, NEW c \in check[k].usable PROVE Ahead(k, c)'
      OBVIOUS
    <3>1. Ahead(k, c) /\ Valid(c)
      BY <1>1 DEF WalkInv, Usable
    <3>2. PICK j \in 1..n : i < j /\ Walked(k)[j] = c
      BY <1>0, <1>1, <1>4, <3>1 DEF Ahead
    <3>3. i + 1 <= j
      BY <1>2, <3>2
    <3>4. QED
      BY <2>3, <2>4, <2>5, <3>2, <3>3 DEF Ahead
  <2>8. WalkInv(k)'
    BY <1>0, <1>1, <1>3, <2>3, <2>4, <2>5, <2>6, <2>7 DEF WalkInv
  <2>9. CheckInv(k)'
    BY <1>1, <2>3, <2>4, <2>8 DEF CheckInv
  <2>10. QED
    BY <1>3, <2>1, <2>3, <2>9, CheckMoves
<1>5. CASE Valid(id)
  <2> DEFINE f == [NoCheck EXCEPT !.pc = "allowed", !.stale = id \in revoked]
  <2>1. check' = [check EXCEPT ![k] = f]
    BY <1>0, <1>5 DEF CheckValidates
  <2>2. (id \in revoked) = FALSE
    BY <1>5 DEF Valid, Stored, SecInv, RevokedAreRemoved
  <2>3. f \in Walks /\ f.pc = "allowed" /\ ~f.stale
    <3>1. f = [NoCheck EXCEPT !.pc = "allowed", !.stale = FALSE]
      BY <2>2
    <3>2. QED
      BY <3>1, NoCheckIs DEF Walks
  <2> HIDE DEF f
  <2>4. check'[k] = f
    BY <2>1 DEF SecInv, SecTyped
  <2>5. CheckInv(k)'
    BY <2>3, <2>4 DEF CheckInv, Walking
  <2>6. QED
    BY <1>3, <2>1, <2>3, <2>5, CheckMoves
<1>6. QED
  BY <1>4, <1>5

\* Every step keeps the invariant.
LEMMA SecInvNext == SecInv /\ [SecNext]_secVars => SecInv'
<1> SUFFICES ASSUME SecInv, [SecNext]_secVars PROVE SecInv'
  OBVIOUS
<1>1. ASSUME NEW g \in Issuers,
             \/ \E fits \in BOOLEAN : CreateLists(g, fits)
             \/ \E c \in Caps, restricted \in BOOLEAN : DelegateRetrieves(g, c, restricted)
             \/ StoreIssued(g)
             \/ \E s \in SecSessions, c \in Caps : GrantLooks(g, s, c)
             \/ GrantAppends(g)
      PROVE  SecInv'
  BY <1>1, IssuersKeep, StoreIssuedKeeps, AppendKeeps
<1>2. ASSUME NEW g \in Revokers, RevokeScrubs(g) \/ \E c \in Caps : Revoke(g, c)
      PROVE  SecInv'
  BY <1>2, ScrubKeeps, RevokeKeeps
<1>3. ASSUME NEW c \in Caps, TermEnds(c) PROVE SecInv'
  BY <1>3, TermEndsKeeps
<1>4. ASSUME NEW s \in SecSessions, Authenticate(s) \/ Logout(s) \/ CleanupSession(s) PROVE SecInv'
  BY <1>4, AuthenticateKeeps, SessionGoesKeeps DEF Logout, CleanupSession
<1>5. CASE CleanupStore
  BY <1>5, CleanupStoreKeeps
<1>6. ASSUME NEW k \in Checks, CheckReads(k) \/ CheckValidates(k) \/ \E s \in SecSessions : CheckBegins(k, s)
      PROVE  SecInv'
  BY <1>6, CheckReadsKeeps, CheckValidatesKeeps, CheckBeginsKeeps
<1>7. CASE UNCHANGED secVars
  <2>1. UNCHANGED <<capability, revoked, session, issuer, revoker, check>>
    BY <1>7 DEF secVars
  <2>2. SecTyped' /\ ListsFit' /\ RevokedAreRemoved'
    BY <2>1 DEF SecInv, SecTyped, ListsFit, RevokedAreRemoved
  <2>3. \A k \in Checks : CheckInv(k)'
    BY <2>1, WalkersKept DEF Valid, Stored
  <2>4. QED
    BY <2>2, <2>3 DEF SecInv
<1>8. QED
  BY <1>1, <1>2, <1>3, <1>4, <1>5, <1>6, <1>7 DEF SecNext

\* No check allows by a capability whose revocation returned, and none denies
\* what it could have allowed from beginning to end unless its list moved
\* (security.go:157-189, 506-578).
THEOREM ChecksAreRight == SecSpec => []CheckIsRight
<1>1. SecSpec => []SecInv
  BY SecInvInit, SecInvNext, PTL DEF SecSpec
<1>2. QED
  BY <1>1, InvIsRight, PTL

-----------------------------------------------------------------------------
(***************************************************************************)
(* TCPFrames. As long as no Read is cut short both ends are in step:       *)
(* there are messages on their way as whole frames, and then perhaps the   *)
(* prefix of the next, and the read pump stands at the start of a frame,   *)
(* or after a prefix with the length that it says. The rest is that the    *)
(* prefix of a length is read back as that length, for two bytes and for   *)
(* four.                                                                   *)
(***************************************************************************)

Bytes == 0..(Base - 1)
\* The numbers that the prefix has room for.
Fits(n) == n \in Nat /\ (FrameSize = 2 => n < Base * Base) /\ (FrameSize = 4 => n < Base * Base * Base * Base)

\* Quotient and remainder.
LEMMA DivMod ==
  ASSUME NEW B \in Nat, B > 1, NEW n \in Nat
  PROVE  /\ n \div B \in Nat /\ n % B \in 0..(B - 1) /\ n = (n \div B) * B + (n % B)
         /\ \A y \in Nat : n < y * B => n \div B < y
         /\ n < B => n \div B = 0
<1>1. PICK q, r : q = n \div B /\ r = n % B
  OBVIOUS
<1>2. q \in Int /\ r \in 0..(B - 1) /\ n = B * q + r
  BY <1>1
<1>3. q \in Nat
  <2> SUFFICES ASSUME q <= -1 PROVE FALSE
    BY <1>2
  <2>1. B * q <= -B
    BY <1>2
  <2>2. QED
    BY <1>2, <2>1
<1>4. ASSUME NEW y \in Nat, n < y * B PROVE q < y
  <2> SUFFICES ASSUME q >= y PROVE FALSE
    BY <1>3
  <2>1. B * q >= B * y
    BY <1>3
  <2>2. B * y = y * B
    OBVIOUS
  <2>3. PICK a \in Nat, b \in Nat : a = B * q /\ b = B * y
    BY <1>3
  <2>4. QED
    BY <1>2, <1>4, <2>1, <2>2, <2>3
<1>5. n < B => q = 0
  <2> HAVE n < B
  <2>1. n < 1 * B
    OBVIOUS
  <2>2. q < 1
    BY <1>4, <2>1
  <2>3. QED
    BY <1>3, <2>2
<1>6. B * q = q * B
  BY <1>3
<1>7. QED
  BY <1>1, <1>2, <1>3, <1>4, <1>5, <1>6

\* A number below so many rows has fewer whole ones.
LEMMA DivBelow ==
  ASSUME NEW B \in Nat, B > 1, NEW n \in Nat, NEW y \in Nat, n < y * B
  PROVE  n \div B < y
BY DivMod

\* The recursive functions of Shifted and LengthOf are what they say.
LEMMA ShiftedIs ==
  ASSUME NEW n \in Nat
  PROVE  /\ Shifted(n)[0] = n
         /\ \A k \in 1..FrameSize : Shifted(n)[k] = Shifted(n)[k - 1] \div Base
<1>0. FrameSize = 2 \/ FrameSize = 4
  BY TCPFramesAssumption
<1> DEFINE G(g) == g = [k \in 0..FrameSize |-> IF k = 0 THEN n ELSE g[k - 1] \div Base]
<1>1. \E g : G(g)
  <2> DEFINE s1 == n \div Base
             s2 == s1 \div Base
             s3 == s2 \div Base
             s4 == s3 \div Base
             g == [k \in 0..FrameSize |-> IF k = 0 THEN n ELSE IF k = 1 THEN s1 ELSE IF k = 2 THEN s2
                                          ELSE IF k = 3 THEN s3 ELSE s4]
  <2> HIDE DEF s1, s2, s3, s4
  <2>1. ASSUME NEW k \in 0..FrameSize, k # 0 PROVE g[k] = g[k - 1] \div Base
    <3>1. k \in {1, 2, 3, 4} /\ k - 1 \in 0..FrameSize /\ k - 1 \in {0, 1, 2, 3}
      BY <1>0, <2>1
    <3>2. CASE k = 1
      BY <3>1, <3>2 DEF s1
    <3>3. CASE k = 2
      BY <3>1, <3>3 DEF s2
    <3>4. CASE k = 3
      BY <3>1, <3>4 DEF s3
    <3>5. CASE k = 4
      BY <3>1, <3>5 DEF s4
    <3>6. QED
      BY <3>1, <3>2, <3>3, <3>4, <3>5
  <2>2. 0 \in 0..FrameSize => g[0] = n
    OBVIOUS
  <2>3. G(g)
    BY <2>1, <2>2
  <2>4. QED
    BY <2>3
<1>2. PICK g : g = (CHOOSE h : G(h))
  OBVIOUS
<1>3. G(g)
  BY <1>1, <1>2
<1>4. g = Shifted(n)
  BY <1>2 DEF Shifted
<1>5. 0 \in 0..FrameSize /\ \A k \in 1..FrameSize : k \in 0..FrameSize /\ k # 0
  BY <1>0
<1> HIDE DEF G
<1>6. g[0] = n /\ \A k \in 1..FrameSize : g[k] = g[k - 1] \div Base
  BY <1>3, <1>5 DEF G
<1>7. QED
  BY <1>4, <1>6

\* What LengthOf makes of two bytes, and of four.
LEMMA LengthIs ==
  ASSUME NEW bytes \in [1..FrameSize -> Nat]
  PROVE  /\ FrameSize = 2 => LengthOf(bytes) = bytes[1] * Base + bytes[2]
         /\ FrameSize = 4 => LengthOf(bytes) = ((bytes[1] * Base + bytes[2]) * Base + bytes[3]) * Base + bytes[4]
<1>0. (FrameSize = 2 \/ FrameSize = 4) /\ Base \in Nat
  BY TCPFramesAssumption
<1> DEFINE G(g) == g = [k \in 0..FrameSize |-> IF k = 0 THEN 0 ELSE g[k - 1] * Base + bytes[k]]
<1>1. \E g : G(g)
  <2> DEFINE s1 == 0 * Base + bytes[1]
             s2 == s1 * Base + bytes[2]
             s3 == s2 * Base + bytes[3]
             s4 == s3 * Base + bytes[4]
             g == [k \in 0..FrameSize |-> IF k = 0 THEN 0 ELSE IF k = 1 THEN s1 ELSE IF k = 2 THEN s2
                                          ELSE IF k = 3 THEN s3 ELSE s4]
  <2> HIDE DEF s1, s2, s3, s4
  <2>1. ASSUME NEW k \in 0..FrameSize, k # 0 PROVE g[k] = g[k - 1] * Base + bytes[k]
    <3>1. k \in {1, 2, 3, 4} /\ k - 1 \in 0..FrameSize /\ k - 1 \in {0, 1, 2, 3}
      BY <1>0, <2>1
    <3>2. CASE k = 1
      BY <3>1, <3>2 DEF s1
    <3>3. CASE k = 2
      BY <3>1, <3>3 DEF s2
    <3>4. CASE k = 3
      BY <3>1, <3>4 DEF s3
    <3>5. CASE k = 4
      BY <3>1, <3>5 DEF s4
    <3>6. QED
      BY <3>1, <3>2, <3>3, <3>4, <3>5
  <2>2. 0 \in 0..FrameSize => g[0] = 0
    OBVIOUS
  <2>3. G(g)
    BY <2>1, <2>2
  <2>4. QED
    BY <2>3
<1>2. PICK g : g = (CHOOSE h : G(h))
  OBVIOUS
<1>3. G(g)
  BY <1>1, <1>2
<1>4. LengthOf(bytes) = g[FrameSize]
  BY <1>2 DEF LengthOf
<1> HIDE DEF G
<1>5. CASE FrameSize = 2
  <2>1. g[0] = 0 /\ g[1] = g[0] * Base + bytes[1] /\ g[2] = g[1] * Base + bytes[2]
    BY <1>3, <1>5 DEF G
  <2>2. bytes[1] \in Nat
    BY <1>5
  <2>3. g[1] = bytes[1]
    BY <1>0, <2>1, <2>2
  <2>4. QED
    BY <1>4, <1>5, <2>1, <2>3
<1>6. CASE FrameSize = 4
  <2>1. /\ g[0] = 0 /\ g[1] = g[0] * Base + bytes[1] /\ g[2] = g[1] * Base + bytes[2]
        /\ g[3] = g[2] * Base + bytes[3] /\ g[4] = g[3] * Base + bytes[4]
    BY <1>3, <1>6 DEF G
  <2>2. bytes[1] \in Nat
    BY <1>6
  <2>3. g[1] = bytes[1]
    BY <1>0, <2>1, <2>2
  <2>4. QED
    BY <1>4, <1>6, <2>1, <2>3
<1>7. QED
  BY <1>0, <1>5, <1>6

\* What the prefix says is read back.
LEMMA PrefixIs ==
  ASSUME NEW n, Fits(n)
  PROVE  /\ Prefix(n) \in Seq(Bytes) /\ Len(Prefix(n)) = FrameSize /\ Prefix(n) \in [1..FrameSize -> Nat]
         /\ LengthOf(Prefix(n)) = n
<1>0. (FrameSize = 2 \/ FrameSize = 4) /\ Base \in Nat /\ Base > 1 /\ n \in Nat
  BY TCPFramesAssumption DEF Fits
<1>1. PICK s : s = Shifted(n) /\ s[0] = n /\ \A k \in 1..FrameSize : s[k] = s[k - 1] \div Base
  BY <1>0, ShiftedIs
<1>2. PICK p : p = Prefix(n)
  OBVIOUS
<1>3. p = [k \in 1..FrameSize |-> s[FrameSize - k] % Base]
  BY <1>1, <1>2 DEF Prefix
<1>4. 1 \in 1..FrameSize /\ 2 \in 1..FrameSize /\ 2-1 = 1 /\ 1-1 = 0
  BY <1>0
<1>5. s[1] = s[0] \div Base /\ s[2] = s[1] \div Base
  BY ONLY <1>1, <1>4
<1>6. s[0] \in Nat /\ s[1] \in Nat /\ s[2] \in Nat
  <2>1. s[0] \in Nat
    BY <1>0, <1>1
  <2>2. s[1] \in Nat
    BY ONLY <2>1, <1>0, <1>5, DivMod
  <2>3. QED
    BY ONLY <2>1, <2>2, <1>0, <1>5, DivMod
<1>7. s[0] = s[1] * Base + (s[0] % Base) /\ s[1] = s[2] * Base + (s[1] % Base)
  BY ONLY <1>0, <1>5, <1>6, DivMod
<1>8. s[0] % Base \in Bytes /\ s[1] % Base \in Bytes
  BY ONLY <1>0, <1>6, DivMod DEF Bytes
<1>9. Bytes \subseteq Nat
  BY <1>0 DEF Bytes
<1>10. CASE FrameSize = 2
  <2>1. n < Base * Base
    BY <1>10 DEF Fits
  <2>2. s[1] < Base
    <3>1. s[0] < Base * Base /\ s[0] \in Nat
      BY <1>1, <1>6, <2>1
    <3>2. s[0] \div Base < Base
      BY ONLY <1>0, <3>1, DivBelow
    <3>3. QED
      BY <1>5, <3>2
  <2>3. s[2] = 0
    BY ONLY <1>0, <1>5, <1>6, <2>2, DivMod
  <2>4. \A k \in 1..2 : 2 - k = 0 \/ 2 - k = 1
    OBVIOUS
  <2>5. p = [k \in 1..2 |-> s[2 - k] % Base]
    BY <1>3, <1>10
  <2>6. p \in [1..2 -> Bytes]
    BY <1>8, <2>4, <2>5
  <2>7. p[1] = s[1] % Base /\ p[2] = s[0] % Base
    BY <2>5
  <2>8. p \in Seq(Bytes) /\ Len(p) = 2
    BY <2>6, FunctionIsSeq
  <2>9. p \in [1..2 -> Nat]
    BY <1>9, <2>6
  <2>10. LengthOf(p) = p[1] * Base + p[2]
    BY <1>10, <2>9, LengthIs
  <2>11. p[1] = s[1]
    <3>1. PICK a \in Nat, b \in Nat : a = s[1] /\ b = s[1] % Base
      BY <1>6, <1>8, <1>9
    <3>2. a = 0 * Base + b
      BY ONLY <1>7, <2>3, <3>1
    <3>3. 0 * Base + b = b
      BY <1>0
    <3>4. QED
      BY <2>7, <3>1, <3>2, <3>3
  <2>12. LengthOf(p) = n
    BY <1>1, <1>7, <2>7, <2>10, <2>11
  <2>13. QED
    BY <1>2, <1>10, <2>8, <2>9, <2>12
<1>11. CASE FrameSize = 4
  <2>1. n < Base * Base * Base * Base
    BY <1>11 DEF Fits
  <2>2. 3 \in 1..FrameSize /\ 4 \in 1..FrameSize /\ 3-1 = 2 /\ 4-1 = 3
    BY <1>11
  <2>3. s[3] = s[2] \div Base /\ s[4] = s[3] \div Base
    BY ONLY <1>1, <2>2
  <2>4. s[3] \in Nat
    BY ONLY <1>0, <1>6, <2>3, DivMod
  <2>5. s[4] \in Nat /\ s[2] = s[3] * Base + (s[2] % Base) /\ s[3] = s[4] * Base + (s[3] % Base)
        /\ s[2] % Base \in 0..(Base-1) /\ s[3] % Base \in 0..(Base-1)
    BY ONLY <1>0, <1>6, <2>3, <2>4, DivMod
  <2>6. Base * Base \in Nat /\ Base * Base * Base \in Nat
    BY <1>0
  <2>7. s[1] < Base * Base * Base
    <3>1. s[0] < (Base * Base * Base) * Base /\ s[0] \in Nat
      BY <1>1, <1>6, <2>1
    <3>2. s[0] \div Base < Base * Base * Base
      BY ONLY <1>0, <2>6, <3>1, DivBelow
    <3>3. QED
      BY <1>5, <3>2
  <2>8. s[2] < Base * Base
    BY ONLY <1>0, <1>5, <1>6, <2>6, <2>7, DivMod
  <2>9. s[3] < Base
    BY ONLY <1>0, <1>6, <2>3, <2>8, DivMod
  <2>10. s[4] = 0
    BY ONLY <1>0, <2>3, <2>4, <2>9, DivMod
  <2>11. \A k \in 1..4 : 4 - k \in {0, 1, 2, 3}
    OBVIOUS
  <2>12. p = [k \in 1..4 |-> s[4 - k] % Base]
    BY <1>3, <1>11
  <2>13. s[2] % Base \in Bytes /\ s[3] % Base \in Bytes
    BY <2>5 DEF Bytes
  <2>14. p \in [1..4 -> Bytes]
    BY <1>8, <2>11, <2>12, <2>13
  <2>15. p[1] = s[3] % Base /\ p[2] = s[2] % Base /\ p[3] = s[1] % Base /\ p[4] = s[0] % Base
    BY <2>12
  <2>16. p \in Seq(Bytes) /\ Len(p) = 4
    BY <2>14, FunctionIsSeq
  <2>17. p \in [1..4 -> Nat]
    BY <1>9, <2>14
  <2>18. LengthOf(p) = ((p[1] * Base + p[2]) * Base + p[3]) * Base + p[4]
    BY <1>11, <2>17, LengthIs
  <2>19. p[1] = s[3]
    <3>1. PICK a \in Nat, b \in Nat : a = s[3] /\ b = s[3] % Base
      BY <1>9, <2>4, <2>13
    <3>2. a = 0 * Base + b
      BY ONLY <2>5, <2>10, <3>1
    <3>3. 0 * Base + b = b
      BY <1>0
    <3>4. QED
      BY <2>15, <3>1, <3>2, <3>3
  <2>20. s[3] * Base + p[2] = s[2] /\ s[2] * Base + p[3] = s[1] /\ s[1] * Base + p[4] = s[0]
    BY ONLY <1>7, <2>5, <2>15
  <2>21. LengthOf(p) = n
    BY ONLY <1>1, <2>18, <2>19, <2>20
  <2>22. QED
    BY <1>2, <1>11, <2>16, <2>17, <2>21
<1>12. QED
  BY <1>0, <1>10, <1>11

-----------------------------------------------------------------------------
(* What is on its way.                                                     *)

Takeable == {m \in Payloads : Len(m) <= MaxMessageSize}
Framed == {m \in Takeable : Fits(Len(m))}
Frame(m) == Prefix(Len(m)) \o m
Frames(q) == [i \in DOMAIN q |-> Frame(q[i])]
Wire(q) == FlattenSeq(Frames(q))

\* A message that the prefix has room for.
LEMMA FramedAre ==
  ASSUME NEW m \in Framed
  PROVE  /\ m \in Takeable /\ m \in Seq(Bytes) /\ Fits(Len(m))
         /\ Prefix(Len(m)) \in Seq(Bytes) /\ Frame(m) \in Seq(Bytes)
<1>1. m \in Takeable /\ m \in Seq(Bytes) /\ Fits(Len(m))
  BY TCPFramesAssumption DEF Framed, Takeable, Bytes
<1>2. PICK p \in Seq(Bytes) : p = Prefix(Len(m))
  BY <1>1, PrefixIs
<1>3. p \o m \in Seq(Bytes)
  BY <1>1
<1>4. QED
  BY <1>1, <1>2, <1>3 DEF Frame

\* The frames of a sequence of messages.
LEMMA FramesAre ==
  ASSUME NEW q \in Seq(Framed)
  PROVE  Frames(q) \in Seq(Seq(Bytes)) /\ Len(Frames(q)) = Len(q) /\ \A i \in 1..Len(q) : Frames(q)[i] = Frame(q[i])
<1>1. PICK n \in Nat : n = Len(q) /\ DOMAIN q = 1..n
  OBVIOUS
<1>2. \A i \in 1..n : Frame(q[i]) \in Seq(Bytes)
  BY <1>1, FramedAre
<1>3. Frames(q) \in [1..n -> Seq(Bytes)] /\ \A i \in 1..n : Frames(q)[i] = Frame(q[i])
  BY <1>1, <1>2 DEF Frames
<1>4. QED
  BY <1>1, <1>3, FunctionIsSeq

\* No messages are no bytes.
LEMMA WireEmpty == Wire(<<>>) = <<>>
<1>1. <<>> \in Seq(Framed) /\ Len(<<>>) = 0
  OBVIOUS
<1>2. Frames(<<>>) \in Seq(Seq(Bytes)) /\ Len(Frames(<<>>)) = 0
  BY <1>1, FramesAre
<1>3. Frames(<<>>) = <<>>
  BY <1>2, EmptySeq
<1>4. QED
  BY <1>3, FlattenEmpty DEF Wire

\* Messages go over the wire as bytes ...
LEMMA WireType ==
  ASSUME NEW q \in Seq(Framed)
  PROVE  Wire(q) \in Seq(Bytes)
BY FramesAre, FlattenType DEF Wire

\* ... with the last one's at the end ...
LEMMA WireAppend ==
  ASSUME NEW q \in Seq(Framed), NEW m \in Framed
  PROVE  Wire(Append(q, m)) = Wire(q) \o Frame(m)
<1>0. Len(q) \in Nat /\ Append(q, m) \in Seq(Framed)
  BY AppendProperties, LenProperties
<1>1. PICK n \in Nat, p \in Seq(Framed) : n = Len(q) /\ p = Append(q, m)
  BY <1>0
<1>2. Len(p) = n + 1 /\ p[n + 1] = m /\ \A i \in 1..n : p[i] = q[i]
  BY <1>1
<1>3. PICK fq \in Seq(Seq(Bytes)), fp \in Seq(Seq(Bytes)), f \in Seq(Bytes) : fq = Frames(q) /\ fp = Frames(p) /\ f = Frame(m)
  BY FramesAre, FramedAre
<1>4. PICK g \in Seq(Seq(Bytes)) : g = Append(fq, f)
  BY AppendProperties, Zenon
<1>5. Len(fq) = n /\ Len(fp) = n + 1 /\ (\A i \in 1..n : fq[i] = Frame(q[i])) /\ \A i \in 1..n+1 : fp[i] = Frame(p[i])
  BY <1>1, <1>2, <1>3, FramesAre
<1>6. Len(g) = n + 1 /\ g[n + 1] = f /\ \A i \in 1..n : g[i] = fq[i]
  BY <1>4, <1>5
<1>7. \A i \in 1..n+1 : fp[i] = g[i]
  <2> TAKE i \in 1..n+1
  <2>1. i = n + 1 \/ i \in 1..n
    OBVIOUS
  <2>2. QED
    BY <1>2, <1>3, <1>5, <1>6, <2>1
<1>8. fp = g
  BY <1>5, <1>6, <1>7, SeqEqual
<1>9. FlattenSeq(g) = FlattenSeq(fq) \o f
  BY <1>4, FlattenAppend
<1>10. QED
  BY <1>1, <1>3, <1>8, <1>9 DEF Wire

\* ... and the first one's in front.
LEMMA WireHead ==
  ASSUME NEW q \in Seq(Framed), q # <<>>
  PROVE  /\ Head(q) \in Framed /\ Tail(q) \in Seq(Framed)
         /\ Wire(q) = Frame(Head(q)) \o Wire(Tail(q))
<1>0. Len(q) \in Nat \ {0}
  BY EmptySeq, SMTT(40)
<1>1. PICK n \in Nat : n + 1 = Len(q)
  <2>1. Len(q) - 1 \in Nat /\ (Len(q) - 1) + 1 = Len(q)
    BY <1>0
  <2>2. QED
    BY <2>1
<1>2. PICK h \in Framed, t \in Seq(Framed) : h = Head(q) /\ t = Tail(q)
  BY HeadTailProperties
<1>3. h = q[1] /\ Len(t) = n /\ \A i \in 1..n : t[i] = q[i + 1]
  BY <1>1, <1>2
<1>4. PICK fq \in Seq(Seq(Bytes)), ft \in Seq(Seq(Bytes)) : fq = Frames(q) /\ ft = Frames(t)
  BY FramesAre
<1>5. Len(fq) = n + 1 /\ Len(ft) = n /\ (\A i \in 1..n+1 : fq[i] = Frame(q[i])) /\ \A i \in 1..n : ft[i] = Frame(t[i])
  BY <1>1, <1>3, <1>4, FramesAre
<1>6. fq # <<>>
  BY <1>5
<1>7. PICK u \in Seq(Seq(Bytes)), hd \in Seq(Bytes) : u = Tail(fq) /\ hd = Head(fq)
  BY <1>6, HeadTailProperties
<1>8. Len(u) = n /\ \A i \in 1..n : u[i] = fq[i + 1]
  BY <1>5, <1>7
<1>9. \A i \in 1..n : u[i] = ft[i]
  <2> TAKE i \in 1..n
  <2>1. i + 1 \in 1..n+1
    OBVIOUS
  <2>2. QED
    BY <1>3, <1>5, <1>8, <2>1
<1>10. u = ft
  BY <1>5, <1>8, <1>9, SeqEqual
<1>11. hd = Frame(h)
  BY <1>3, <1>5, <1>7
<1>12. FlattenSeq(fq) = hd \o FlattenSeq(u)
  BY <1>6, <1>7, FlattenHead
<1>13. QED
  BY <1>2, <1>4, <1>10, <1>11, <1>12 DEF Wire

\* q is on its way as whole frames, rest not yet, and tail is the prefix that
\* the write pump has written of a frame.
Carried(q, rest, tail) ==
  /\ q \in Seq(Framed) /\ rest \in Seq(Takeable) /\ tail \in Seq(Bytes)
  /\ arrived \in Seq(Takeable) /\ tcpSendCh \in Seq(Takeable)
  /\ accepted = arrived \o (q \o rest)

WriterAt(rest, tail) ==
  /\ tcpWritePump.pc \in {"none", "prefix", "body", "ended"}
  /\ tcpWritePump.pc \in {"none", "prefix"} => tail = <<>> /\ rest = tcpSendCh
  /\ tcpWritePump.pc = "body" => /\ tcpWritePump.data \in Framed /\ tail = Prefix(Len(tcpWritePump.data))
                                 /\ rest = <<tcpWritePump.data>> \o tcpSendCh
  /\ tcpWritePump.pc = "ended" => tail = <<>> \/ \E n : Fits(n) /\ tail = Prefix(n)

\* Between the prefix and the message the read pump knows the length of the one
\* that comes next, or of the one that is being written.
ReaderAt(q, tail) ==
  /\ tcpReadPump["reader"].pc \in {"none", "prefix", "body", "ended"}
  /\ tcpReadPump["reader"].pc \in {"none", "prefix"} => stream = Wire(q) \o tail
  /\ tcpReadPump["reader"].pc = "body" =>
       \/ /\ q # <<>> /\ tcpReadPump["reader"].length = Len(Head(q)) /\ Len(Head(q)) > 0
          /\ stream = Head(q) \o (Wire(Tail(q)) \o tail)
       \/ /\ q = <<>> /\ stream = <<>> /\ tcpWritePump.pc \in {"body", "ended"} /\ tcpReadPump["reader"].length > 0
          /\ tcpWritePump.pc = "body" => tcpReadPump["reader"].length = Len(tcpWritePump.data)

\* The pumps start with the connection, which is not made twice.
StartedOnce ==
  /\ DOMAIN tcpReadPump = Ends /\ DOMAIN tcpConnected = Ends /\ DOMAIN tcpClosed = Ends
  /\ \/ \A e \in Ends : tcpConnected[e] \/ tcpClosed[e]
     \/ tcpWritePump.pc = "none" /\ tcpReadPump["reader"].pc = "none"

InStep == \E q, rest, tail : Carried(q, rest, tail) /\ WriterAt(rest, tail) /\ ReaderAt(q, tail)
TCPInv == StartedOnce /\ (short \/ InStep)

\* What has arrived is in front of what was accepted.
LEMMA InStepIntact ==
  ASSUME InStep PROVE IsPrefix(arrived, accepted)
<1>1. PICK q, rest, tail : Carried(q, rest, tail)
  BY DEF InStep
<1>2. Framed \subseteq Takeable
  BY DEF Framed
<1>3. PICK S : S = Takeable
  OBVIOUS
<1>4. PICK a \in Seq(S), b \in Seq(S), c \in Seq(S) : a = arrived /\ b = q /\ c = rest
  BY <1>1, <1>2, <1>3 DEF Carried
<1>11. b \o c \in Seq(S)
  BY ONLY b \in Seq(S), c \in Seq(S), ConcatProperties
<1>5. PICK x \in Seq(S) : x = b \o c
  BY <1>11
<1>6. accepted = a \o x
  BY <1>1, <1>4, <1>5 DEF Carried
<1>7. SubSeq(a \o x, 1, Len(a)) = a /\ Len(a \o x) = Len(a) + Len(x) /\ SubSeq(a, 1, Len(a)) = a
  BY CutConcat, SubSeqFull
<1>8. Len(a) \in Nat /\ Len(x) \in Nat
  OBVIOUS
<1>9. Len(a) <= Len(a \o x)
  BY <1>7, <1>8
<1>10. QED
  BY <1>4, <1>6, <1>7, <1>9 DEF IsPrefix

\* What the write pump takes up fits the prefix, or the body is too long to be sent.
LEMMA FitsTakeable ==
  ASSUME NEW m \in Takeable, FrameSize = 4 \/ Len(m) < Base * Base
  PROVE  m \in Framed
<1>1. Len(m) \in Nat /\ Len(m) <= MaxMessageSize
  BY TCPFramesAssumption DEF Takeable
<1>2. FrameSize = 4 => Len(m) < Base * Base * Base * Base
  <2> HAVE FrameSize = 4
  <2>1. PICK w \in Nat : w = Base * Base * Base * Base
    BY TCPFramesAssumption
  <2>2. MaxMessageSize < w /\ MaxMessageSize \in Nat
    BY <2>1, TCPFramesAssumption
  <2>3. QED
    BY <1>1, <2>1, <2>2
<1>3. Fits(Len(m))
  BY <1>1, <1>2, TCPFramesAssumption DEF Fits
<1>4. QED
  BY <1>3 DEF Framed

\* Nothing was sent, and no pump runs.
LEMMA InStepInit ==
  ASSUME TCPInit PROVE TCPInv
<1>1. StartedOnce
  BY DEF TCPInit, StartedOnce, At, Ends
<1>2. <<>> \in Seq(Framed) /\ <<>> \in Seq(Takeable) /\ <<>> \in Seq(Bytes)
  OBVIOUS
<1>3. <<>> \o (<<>> \o <<>>) = <<>> /\ <<>> \o <<>> = <<>>
  <2>1. <<>> \in Seq(Nat)
    OBVIOUS
  <2>2. <<>> \o <<>> = <<>>
    BY <2>1, ConcatEmptySeq
  <2>3. QED
    BY <2>2
<1>4. Carried(<<>>, <<>>, <<>>)
  BY <1>2, <1>3 DEF TCPInit, Carried
<1>5. WriterAt(<<>>, <<>>) /\ ReaderAt(<<>>, <<>>)
  BY <1>3, WireEmpty DEF TCPInit, WriterAt, ReaderAt, At, Ends
<1>6. QED
  BY <1>1, <1>4, <1>5 DEF TCPInv, InStep

\* What neither pump has a part in.
LEMMA StillInStep ==
  ASSUME InStep, UNCHANGED <<tcpSendCh, tcpWritePump, stream, tcpReadPump, accepted, arrived>> PROVE InStep'
<1>1. PICK q, rest, tail : Carried(q, rest, tail) /\ WriterAt(rest, tail) /\ ReaderAt(q, tail)
  BY DEF InStep
<1>2. Carried(q, rest, tail)'
  BY <1>1 DEF Carried
<1>3. WriterAt(rest, tail)'
  BY <1>1 DEF WriterAt
<1>4. ReaderAt(q, tail)'
  BY <1>1 DEF ReaderAt
<1>5. QED
  BY <1>2, <1>3, <1>4 DEF InStep

\* Three sequences, put together.
LEMMA BytesAssoc ==
  \A a, b, c \in Seq(Bytes) : (a \o b) \o c = a \o (b \o c)
BY ConcatAssociative

\* Four sequences, put together.
FromLeft(a, b, c, d) == ((a \o b) \o c) \o d
FromRight(a, b, c, d) == a \o (b \o (c \o d))

\* Four sequences of bytes, put together from either side.
LEMMA FourBytes ==
  \A a, b, c, d \in Seq(Bytes) : FromLeft(a, b, c, d) = FromRight(a, b, c, d)
<1> TAKE a, b, c, d \in Seq(Bytes)
<1>1. PICK ab \in Seq(Bytes), cd \in Seq(Bytes) : ab = a \o b /\ cd = c \o d
  BY ConcatProperties
<1>2. /\ a \in Seq(Bytes) /\ b \in Seq(Bytes) /\ c \in Seq(Bytes) /\ d \in Seq(Bytes)
      /\ ab \in Seq(Bytes) /\ cd \in Seq(Bytes)
  OBVIOUS
<1>3. (ab \o c) \o d = ab \o (c \o d)
  BY ONLY <1>2, BytesAssoc, ZenonT(60)
<1>4. (a \o b) \o cd = a \o (b \o cd)
  BY ONLY <1>2, BytesAssoc, ZenonT(60)
<1>5. QED
  BY ONLY <1>1, <1>3, <1>4 DEF FromLeft, FromRight

\* Three sequences of messages, put together.
LEMMA TakeableAssoc ==
  \A a, b, c \in Seq(Takeable) : (a \o b) \o c = a \o (b \o c)
BY ConcatAssociative

\* A message at the end of the second of two ...
LEMMA TakeableAppend ==
  \A a, b \in Seq(Takeable) : \A m \in Takeable : Append(a \o b, m) = a \o Append(b, m)
OBVIOUS

Joined(a, b, c) == a \o (b \o c)

\* ... and of the third of three.
LEMMA TakeableLast ==
  \A a, b, c \in Seq(Takeable) : \A m \in Takeable : Append(Joined(a, b, c), m) = Joined(a, b, Append(c, m))
<1> TAKE a, b, c \in Seq(Takeable)
<1>1. PICK d \in Seq(Takeable) : d = b \o c
  BY ConcatProperties
<1> TAKE m \in Takeable
<1>2. Append(a \o d, m) = a \o Append(d, m)
  BY TakeableAppend
<1>3. Append(b \o c, m) = b \o Append(c, m)
  BY TakeableAppend
<1>4. QED
  BY <1>1, <1>2, <1>3 DEF Joined

\* A message is accepted, or refused.
LEMMA SendInStep ==
  ASSUME InStep, NEW m \in Payloads, SendTCP(m) PROVE InStep'
<1>1. PICK q, rest, tail : Carried(q, rest, tail) /\ WriterAt(rest, tail) /\ ReaderAt(q, tail)
  BY DEF InStep
<1>2. m \in Takeable /\ UNCHANGED <<tcpWritePump, stream, tcpReadPump, arrived>>
      /\ tcpSendCh' = Append(tcpSendCh, m) /\ accepted' = Append(accepted, m)
  BY DEF SendTCP, Takeable
<1>4. Framed \subseteq Takeable
  BY DEF Framed
<1>5. m \in Takeable /\ q \in Seq(Takeable) /\ rest \in Seq(Takeable) /\ arrived \in Seq(Takeable) /\ tcpSendCh \in Seq(Takeable)
  BY <1>1, <1>2, <1>4 DEF Carried
<1>6. PICK a \in Seq(Takeable), b \in Seq(Takeable), c \in Seq(Takeable), d \in Seq(Takeable) : a = arrived /\ b = q /\ c = rest /\ d = tcpSendCh
  BY <1>5
<1>7. PICK e \in Seq(Takeable) : e = Append(c, m)
  BY <1>5, AppendProperties
<1>8. Append(a \o (b \o c), m) = a \o (b \o e)
  <2>1. Append(a \o (b \o c), m) = a \o (b \o Append(c, m))
    <3>1. a \in Seq(Takeable) /\ b \in Seq(Takeable) /\ c \in Seq(Takeable) /\ m \in Takeable
      BY <1>5
    <3>2. Append(Joined(a, b, c), m) = Joined(a, b, Append(c, m))
      BY ONLY <3>1, TakeableLast, SMTT(40)
    <3>3. QED
      BY <3>2 DEF Joined
  <2>2. QED
    BY <1>7, <2>1
<1>9. Carried(q, e, tail)'
  <2>1. accepted' = arrived' \o (q \o e)
    BY <1>1, <1>2, <1>6, <1>8 DEF Carried
  <2>2. tcpSendCh' \in Seq(Takeable)
    BY <1>2, <1>5, AppendProperties
  <2>3. QED
    BY <1>1, <1>2, <2>1, <2>2 DEF Carried
<1>10. WriterAt(e, tail)'
  <2>1. tcpWritePump.pc = "body" => e = <<tcpWritePump.data>> \o tcpSendCh'
    <3> HAVE tcpWritePump.pc = "body"
    <3>0. PICK x \in Takeable : x = tcpWritePump.data
      BY <1>1, <1>4 DEF WriterAt
    <3>5. <<x>> \in Seq(Takeable)
      BY ONLY x \in Takeable
    <3>1. PICK w \in Seq(Takeable) : w = <<tcpWritePump.data>>
      BY <3>0, <3>5
    <3>2. c = w \o d
      BY <1>1, <1>6, <3>1 DEF WriterAt
    <3>3. Append(w \o d, m) = w \o Append(d, m)
      BY w \in Seq(Takeable), d \in Seq(Takeable), <1>5, TakeableAppend, ZenonT(60)
    <3>4. QED
      BY <1>2, <1>6, <1>7, <3>1, <3>2, <3>3
  <2>2. tcpWritePump.pc \in {"none", "prefix"} => e = tcpSendCh'
    BY <1>1, <1>2, <1>6, <1>7 DEF WriterAt
  <2>3. QED
    BY <1>1, <1>2, <2>1, <2>2 DEF WriterAt
<1>11. ReaderAt(q, tail)'
  BY <1>1, <1>2 DEF ReaderAt
<1>12. QED
  BY <1>9, <1>10, <1>11 DEF InStep

\* The write pump ends: what it has taken is lost, what it has written is not.
LEMMA WriterEnds ==
  ASSUME InStep, tcpWritePump' = At("ended"), UNCHANGED <<stream, tcpReadPump, accepted, arrived>>,
         tcpSendCh' \in Seq(Takeable)
  PROVE  InStep'
<1>1. PICK q, rest, tail : Carried(q, rest, tail) /\ WriterAt(rest, tail) /\ ReaderAt(q, tail)
  BY DEF InStep
<1>2. Carried(q, rest, tail)'
  BY <1>1 DEF Carried
<1>3. tail = <<>> \/ \E n : Fits(n) /\ tail = Prefix(n)
  BY <1>1, FramedAre DEF WriterAt
<1>4. tcpWritePump'.pc = "ended"
  BY DEF At
<1>5. WriterAt(rest, tail)'
  BY <1>3, <1>4 DEF WriterAt
<1>6. ReaderAt(q, tail)'
  BY <1>1, <1>4 DEF ReaderAt
<1>7. QED
  BY <1>2, <1>5, <1>6 DEF InStep

\* The write pump writes a prefix ...
LEMMA PrefixInStep ==
  ASSUME InStep, WritePrefix PROVE InStep'
<1>1. PICK q, rest, tail : Carried(q, rest, tail) /\ WriterAt(rest, tail) /\ ReaderAt(q, tail)
  BY DEF InStep
<1>2. tcpWritePump.pc = "prefix" /\ tcpSendCh # <<>> /\ UNCHANGED <<tcpReadPump, accepted, arrived>>
      /\ tcpSendCh' = Tail(tcpSendCh) /\ tail = <<>> /\ rest = tcpSendCh
  BY <1>1 DEF WritePrefix, WriterAt
<1>3. PICK d \in Seq(Takeable) : d = tcpSendCh /\ d # <<>>
  BY <1>1, <1>2 DEF Carried
<1>4. PICK m \in Takeable, t \in Seq(Takeable) : m = Head(d) /\ t = Tail(d) /\ d = <<m>> \o t
  <2>1. Head(d) \in Takeable /\ Tail(d) \in Seq(Takeable)
    BY <1>3, HeadTailProperties
  <2>2. d = <<Head(d)>> \o Tail(d)
    BY ONLY <1>3, d \in Seq(Takeable)
  <2>3. QED
    BY <2>1, <2>2
<1>5. tcpSendCh' = t
  BY <1>2, <1>3, <1>4
<1>6. CASE tcpWritePump' = At("ended") /\ UNCHANGED stream
  BY <1>2, <1>5, <1>6, WriterEnds
<1>7. CASE /\ FrameSize = 4 \/ Len(m) < Base * Base
           /\ stream' = stream \o Prefix(Len(m))
           /\ tcpWritePump' = [At("body") EXCEPT !.data = m]
  <2>1. m \in Framed
    BY <1>7, FitsTakeable
  <2>2. PICK p \in Seq(Bytes) : p = Prefix(Len(m))
    BY <2>1, FramedAre
  <2>3. tcpWritePump'.pc = "body" /\ tcpWritePump'.data = m
    BY <1>7 DEF At
  <2>4. Carried(q, rest, p)'
    BY <1>1, <1>2, <1>5 DEF Carried
  <2>5. WriterAt(rest, p)'
    BY <1>2, <1>3, <1>4, <1>5, <2>1, <2>2, <2>3 DEF WriterAt
  <2>6. q \in Seq(Framed)
    BY <1>1 DEF Carried
  <2>7. tcpReadPump["reader"].pc \in {"none", "prefix"} => stream' = Wire(q) \o p
    <3> HAVE tcpReadPump["reader"].pc \in {"none", "prefix"}
    <3>1. PICK w \in Seq(Bytes) : w = Wire(q)
      BY <2>6, WireType
    <3>2. stream = w \o <<>>
      BY <1>1, <1>2, <3>1 DEF ReaderAt
    <3>3. w \o <<>> = w
      BY ConcatEmptySeq
    <3>4. QED
      BY <1>7, <2>2, <3>1, <3>2, <3>3
  <2>8. tcpReadPump["reader"].pc = "body" =>
          /\ q # <<>> /\ tcpReadPump["reader"].length = Len(Head(q)) /\ Len(Head(q)) > 0
          /\ stream' = Head(q) \o (Wire(Tail(q)) \o p)
    <3> HAVE tcpReadPump["reader"].pc = "body"
    <3>1. /\ q # <<>> /\ tcpReadPump["reader"].length = Len(Head(q)) /\ Len(Head(q)) > 0
          /\ stream = Head(q) \o (Wire(Tail(q)) \o <<>>)
      BY <1>1, <1>2 DEF ReaderAt
    <3>2. Head(q) \in Framed /\ Tail(q) \in Seq(Framed)
      BY <2>6, <3>1, WireHead
    <3>3. Head(q) \in Seq(Bytes) /\ Wire(Tail(q)) \in Seq(Bytes)
      BY <3>2, FramedAre, WireType
    <3>4. PICK h \in Seq(Bytes), w \in Seq(Bytes) : h = Head(q) /\ w = Wire(Tail(q))
      BY <3>3
    <3>5. w \o <<>> = w /\ (h \o w) \o p = h \o (w \o p)
      BY ConcatEmptySeq, ConcatAssociative, SMTT(40)
    <3>6. QED
      BY <1>7, <2>2, <3>1, <3>4, <3>5
  <2>9. ReaderAt(q, p)'
    BY <1>1, <1>2, <2>7, <2>8 DEF ReaderAt
  <2>10. QED
    BY <2>4, <2>5, <2>9 DEF InStep
<1>8. QED
  BY <1>3, <1>4, <1>6, <1>7 DEF WritePrefix

\* ... and the message that it announced.
LEMMA BodyInStep ==
  ASSUME InStep, WriteBody PROVE InStep'
<1>1. PICK q, rest, tail : Carried(q, rest, tail) /\ WriterAt(rest, tail) /\ ReaderAt(q, tail)
  BY DEF InStep
<1>2. tcpWritePump.pc = "body" /\ UNCHANGED <<tcpSendCh, tcpReadPump, accepted, arrived>> /\ tcpSendCh \in Seq(Takeable)
  BY <1>1 DEF WriteBody, Carried
<1>3. CASE tcpWritePump' = At("ended") /\ UNCHANGED stream
  BY <1>2, <1>3, WriterEnds
<1>4. CASE stream' = stream \o tcpWritePump.data /\ tcpWritePump' = At("prefix")
  <2>1. PICK m \in Framed : m = tcpWritePump.data /\ tail = Prefix(Len(m)) /\ rest = <<m>> \o tcpSendCh
    BY <1>1, <1>2 DEF WriterAt
  <2>2. PICK p \in Seq(Bytes) : p = Prefix(Len(m)) /\ m \in Seq(Bytes) /\ Frame(m) = p \o m /\ p \o m \in Seq(Bytes)
    BY FramedAre DEF Frame
  <2>3. q \in Seq(Framed)
    BY <1>1 DEF Carried
  <2>4. PICK r \in Seq(Framed) : r = Append(q, m)
    BY <2>3, AppendProperties
  <2>5. tcpWritePump'.pc = "prefix"
    BY <1>4 DEF At
  <2>11. PICK sent : sent = tcpSendCh
    OBVIOUS
  <2>6. Carried(r, sent, <<>>)'
    <3>2. Framed \subseteq Takeable
      BY DEF Framed
    <3>9. m \in Takeable
      BY <3>2
    <3>10. <<m>> \in Seq(Takeable)
      BY ONLY <3>9
    <3>11. q \in Seq(Takeable)
      BY <2>3, <3>2
    <3>12. arrived \in Seq(Takeable)
      BY <1>1 DEF Carried
    <3>3. PICK a \in Seq(Takeable), b \in Seq(Takeable), d \in Seq(Takeable), o \in Seq(Takeable) : a = arrived /\ b = q /\ d = tcpSendCh /\ o = <<m>>
      BY <1>2, <3>10, <3>11, <3>12, Zenon
    <3>4. (b \o o) \o d = b \o (o \o d)
      BY b \in Seq(Takeable), o \in Seq(Takeable), d \in Seq(Takeable), TakeableAssoc, ZenonT(60)
    <3>5. Append(q, m) = q \o <<m>>
      BY <2>3, AppendIsConcat
    <3>6. accepted = a \o (r \o d)
      BY <1>1, <2>1, <2>4, <3>3, <3>4, <3>5 DEF Carried
    <3>7. <<>> \in Seq(Bytes)
      OBVIOUS
    <3>8. QED
      BY <1>1, <1>2, <2>11, <3>3, <3>6, <3>7 DEF Carried
  <2>7. WriterAt(sent, <<>>)'
    BY <1>2, <2>5, <2>11 DEF WriterAt
  <2>8. tcpReadPump["reader"].pc \in {"none", "prefix"} => stream' = Wire(r) \o <<>>
    <3> HAVE tcpReadPump["reader"].pc \in {"none", "prefix"}
    <3>1. PICK w \in Seq(Bytes), v \in Seq(Bytes) : w = Wire(q) /\ v = Wire(r)
      BY <2>3, WireType
    <3>2. stream = w \o p
      BY <1>1, <2>1, <2>2, <3>1 DEF ReaderAt
    <3>3. v = w \o (p \o m)
      BY <2>2, <2>3, <2>4, <3>1, WireAppend
    <3>4. (w \o p) \o m = w \o (p \o m)
      <4>1. m \in Seq(Bytes)
        BY <2>2
      <4>2. QED
        BY w \in Seq(Bytes), p \in Seq(Bytes), <4>1, BytesAssoc, ZenonT(60)
    <3>5. v \o <<>> = v
      BY ConcatEmptySeq
    <3>6. QED
      BY <1>4, <2>1, <3>1, <3>2, <3>3, <3>4, <3>5
  <2>9. tcpReadPump["reader"].pc = "body" =>
          /\ r # <<>> /\ tcpReadPump["reader"].length = Len(Head(r)) /\ Len(Head(r)) > 0
          /\ stream' = Head(r) \o (Wire(Tail(r)) \o <<>>)
    <3> HAVE tcpReadPump["reader"].pc = "body"
    <3>1. CASE /\ q # <<>> /\ tcpReadPump["reader"].length = Len(Head(q)) /\ Len(Head(q)) > 0
               /\ stream = Head(q) \o (Wire(Tail(q)) \o tail)
      <4>1. PICK h \in Framed, t \in Seq(Framed) : h = Head(q) /\ t = Tail(q)
        BY <2>3, <3>1, WireHead
      <4>2. Head(r) = h /\ Tail(r) = Append(t, m) /\ r # <<>>
        BY <2>3, <2>4, <3>1, <4>1
      <4>3. PICK w \in Seq(Bytes), v \in Seq(Bytes) : w = Wire(t) /\ v = Wire(Append(t, m)) /\ v = w \o (p \o m)
        <5>1. Append(t, m) \in Seq(Framed)
          BY AppendProperties
        <5>2. QED
          BY <2>2, <5>1, WireType, WireAppend
      <4>4. w \o p \in Seq(Bytes)
        BY ConcatProperties
      <4>11. PICK hb \in Seq(Bytes) : hb = h
        BY FramedAre
      <4>9. m \in Seq(Bytes)
        BY <2>2
      <4>10. PICK wp \in Seq(Bytes) : wp = w \o p
        BY <4>4
      <4>5. (hb \o wp) \o m = hb \o (wp \o m)
        BY <4>9, BytesAssoc, ZenonT(60)
      <4>6. (w \o p) \o m = w \o (p \o m)
        BY <4>9, w \in Seq(Bytes), p \in Seq(Bytes), BytesAssoc, ZenonT(60)
      <4>7. v \o <<>> = v
        BY ConcatEmptySeq
      <4>8. QED
        BY <1>4, <2>1, <2>2, <3>1, <4>1, <4>2, <4>3, <4>5, <4>6, <4>7, <4>10, <4>11
    <3>2. CASE q = <<>> /\ stream = <<>> /\ tcpReadPump["reader"].length > 0 /\ tcpReadPump["reader"].length = Len(m)
      <4>1. r = <<m>> /\ r # <<>>
        BY <2>4, <3>2
      <4>2. Head(r) = m /\ Tail(r) = <<>>
        BY <4>1
      <4>3. <<>> \o m = m /\ m \o <<>> = m /\ <<>> \o <<>> = <<>>
        <5>1. <<>> \in Seq(Bytes)
          OBVIOUS
        <5>2. QED
          BY <2>2, <5>1, ConcatEmptySeq
      <4>4. QED
        BY <1>4, <2>1, <3>2, <4>1, <4>2, <4>3, WireEmpty
    <3>3. QED
      BY <1>1, <1>2, <2>1, <3>1, <3>2 DEF ReaderAt
  <2>10. ReaderAt(r, <<>>)'
    BY <1>1, <1>2, <2>8, <2>9 DEF ReaderAt
  <2>12. QED
    BY <2>6, <2>7, <2>10 DEF InStep
<1>5. QED
  BY <1>3, <1>4 DEF WriteBody

-----------------------------------------------------------------------------
(* The read pump.                                                          *)

MinOfTwo(a, b) == Min({a, b})

\* The less of two.
LEMMA MinOfTwoIs ==
  ASSUME NEW a \in Nat, NEW b \in Nat
  PROVE  MinOfTwo(a, b) \in Nat /\ MinOfTwo(a, b) <= a /\ MinOfTwo(a, b) <= b
<1> DEFINE Least2(x) == x \in {a, b} /\ \A y \in {a, b} : x <= y
<1>1. \E x : Least2(x)
  <2>1. CASE a <= b
    BY <2>1
  <2>2. CASE b <= a
    BY <2>2
  <2>3. QED
    BY <2>1, <2>2
<1>2. MinOfTwo(a, b) = CHOOSE x \in {a, b} : \A y \in {a, b} : x <= y
  BY DEF MinOfTwo, Min
<1>3. Least2(MinOfTwo(a, b))
  BY <1>1, <1>2
<1>4. QED
  BY <1>3

\* A Read that yields all it was asked for.
LEMMA FullRead ==
  ASSUME NEW s \in Seq(Bytes), s = stream, NEW n \in Nat, NEW r \in Reads(n), ~(r.got < n)
  PROVE  r.got = n /\ n <= Len(s) /\ r.buffer = SubSeq(s, 1, n)
<1>1. PICK l \in Nat, most \in Nat : l = Len(s) /\ most = MinOfTwo(n, l) /\ most <= n /\ most <= l
  BY MinOfTwoIs, LenProperties
<1>2. PICK k \in 1..most : r = [buffer |-> SubSeq(s, 1, k) \o [i \in 1..(n - k) |-> 0], got |-> k]
  BY <1>1 DEF Reads, MinOfTwo
<1>3. k = n /\ n <= l
  BY <1>1, <1>2
<1>4. [i \in 1..(n - n) |-> 0] = <<>>
  <2>1. [i \in 1..(n - n) |-> 0] \in [1..0 -> Nat]
    OBVIOUS
  <2>2. PICK f \in [1..0 -> Nat] : f = [i \in 1..(n - n) |-> 0]
    BY <2>1
  <2>3. f \in Seq(Nat) /\ Len(f) = 0
    BY FunctionIsSeq
  <2>4. QED
    BY <2>2, <2>3, EmptySeq
<1>5. SubSeq(s, 1, n) \in Seq(Bytes)
  BY <1>1, <1>3, SubSeqProperties
<1>6. SubSeq(s, 1, n) \o <<>> = SubSeq(s, 1, n)
  BY <1>5, ConcatEmptySeq
<1>7. QED
  BY <1>1, <1>2, <1>3, <1>4, <1>6

\* The read pump reads a prefix, and knows the length that was written ...
LEMMA ReadPrefixInStep ==
  ASSUME InStep, StartedOnce, ReadPrefix, ~short' PROVE InStep'
<1>1. PICK q, rest, tail : Carried(q, rest, tail) /\ WriterAt(rest, tail) /\ ReaderAt(q, tail)
  BY DEF InStep
<1>2. tcpReadPump["reader"].pc = "prefix" /\ stream # <<>> /\ UNCHANGED <<tcpSendCh, tcpWritePump, accepted, arrived>>
  BY DEF ReadPrefix
<1>3. PICK r \in Reads(FrameSize) :
        /\ stream' = SubSeq(stream, r.got + 1, Len(stream))
        /\ short' = (short \/ r.got < FrameSize)
        /\ \/ /\ LengthOf(r.buffer) \in 1..MaxMessageSize
              /\ tcpReadPump' = [tcpReadPump EXCEPT !["reader"] = [At("body") EXCEPT !.length = LengthOf(r.buffer)]]
           \/ /\ LengthOf(r.buffer) \notin 1..MaxMessageSize
              /\ PumpReturns("reader")
  BY DEF ReadPrefix
<1>4. ~(r.got < FrameSize)
  BY <1>3
<1>5. stream = Wire(q) \o tail /\ q \in Seq(Framed) /\ tail \in Seq(Bytes)
  BY <1>1, <1>2 DEF ReaderAt, Carried
<1>6. PICK w \in Seq(Bytes), tl \in Seq(Bytes), s \in Seq(Bytes) : w = Wire(q) /\ tl = tail /\ s = stream /\ s = w \o tl
  BY <1>5, WireType, ConcatProperties
<1>7. FrameSize \in Nat \ {0}
  BY TCPFramesAssumption
<1>8. r.got = FrameSize /\ FrameSize <= Len(s) /\ r.buffer = SubSeq(s, 1, FrameSize)
  BY <1>4, <1>6, <1>7, FullRead
<1>9. stream' = SubSeq(s, FrameSize + 1, Len(s))
  BY <1>3, <1>6, <1>8
<1>10. "reader" \in DOMAIN tcpReadPump
  BY DEF StartedOnce, Ends
<1>11. Carried(q, rest, tail)' /\ WriterAt(rest, tail)'
  BY <1>1, <1>2 DEF Carried, WriterAt
<1>12. ASSUME PumpReturns("reader") PROVE ReaderAt(q, tail)'
  <2>1. tcpReadPump'["reader"].pc = "ended"
    BY <1>10, <1>12 DEF PumpReturns, At
  <2>2. QED
    BY <2>1 DEF ReaderAt
<1>13. ASSUME NEW b, tcpReadPump' = [tcpReadPump EXCEPT !["reader"] = [At("body") EXCEPT !.length = b]]
       PROVE  tcpReadPump'["reader"].pc = "body" /\ tcpReadPump'["reader"].length = b
  BY <1>10, <1>13 DEF At
<1>14. CASE q # <<>>
  <2>1. PICK h \in Framed, t \in Seq(Framed) : h = Head(q) /\ t = Tail(q) /\ Wire(q) = Frame(h) \o Wire(t)
    BY <1>5, <1>14, WireHead
  <2>2. PICK p \in Seq(Bytes), hb \in Seq(Bytes), v \in Seq(Bytes) :
          p = Prefix(Len(h)) /\ hb = h /\ v = Wire(t) /\ w = (p \o hb) \o v /\ Len(p) = FrameSize /\ LengthOf(p) = Len(h)
    BY <1>6, <2>1, FramedAre, WireType, PrefixIs DEF Frame
  <2>3. s = p \o (hb \o (v \o tl))
    <3>0. p \in Seq(Bytes) /\ hb \in Seq(Bytes) /\ v \in Seq(Bytes) /\ tl \in Seq(Bytes)
      OBVIOUS
    <3>1. FromLeft(p, hb, v, tl) = FromRight(p, hb, v, tl)
      BY ONLY <3>0, FourBytes
    <3>2. QED
      BY <1>6, <2>2, <3>1 DEF FromLeft, FromRight
  <2>4. PICK x \in Seq(Bytes) : x = hb \o (v \o tl)
    <3>1. v \o tl \in Seq(Bytes)
      BY ConcatProperties
    <3>2. PICK y \in Seq(Bytes) : y = v \o tl
      BY <3>1
    <3>3. hb \o y \in Seq(Bytes)
      BY ConcatProperties
    <3>4. QED
      BY <3>2, <3>3
  <2>5. SubSeq(p \o x, 1, Len(p)) = p /\ SubSeq(p \o x, Len(p) + 1, Len(p \o x)) = x
    BY CutConcat
  <2>6. r.buffer = p /\ stream' = x
    BY <1>8, <1>9, <2>2, <2>3, <2>4, <2>5
  <2>7. ASSUME LengthOf(r.buffer) \in 1..MaxMessageSize,
               tcpReadPump' = [tcpReadPump EXCEPT !["reader"] = [At("body") EXCEPT !.length = LengthOf(r.buffer)]]
        PROVE  ReaderAt(q, tail)'
    <3>1. tcpReadPump'["reader"].pc = "body" /\ tcpReadPump'["reader"].length = LengthOf(r.buffer)
      BY <1>13, <2>7
    <3>2. LengthOf(r.buffer) = Len(h) /\ Len(h) > 0
      BY <2>2, <2>6, <2>7
    <3>3. stream' = Head(q) \o (Wire(Tail(q)) \o tail)
      BY <1>6, <2>1, <2>2, <2>4, <2>6
    <3>4. QED
      BY <1>14, <2>1, <3>1, <3>2, <3>3 DEF ReaderAt
  <2>8. QED
    BY <1>3, <1>11, <1>12, <2>7 DEF InStep
<1>15. CASE q = <<>>
  <2>1. s = tl
    BY <1>6, <1>15, WireEmpty, ConcatEmptySeq
  <2>2. tl # <<>>
    BY <1>2, <1>6, <2>1
  <2>3. PICK n : /\ Fits(n) /\ tl = Prefix(n) /\ tcpWritePump.pc \in {"body", "ended"}
                 /\ tcpWritePump.pc = "body" => n = Len(tcpWritePump.data)
    BY <1>1, <1>6, <2>2, FramedAre DEF WriterAt
  <2>4. Len(tl) = FrameSize /\ LengthOf(tl) = n
    BY <2>3, PrefixIs
  <2>5. SubSeq(tl, 1, Len(tl)) = tl
    BY SubSeqFull
  <2>6. SubSeq(tl, Len(tl) + 1, Len(tl)) = <<>>
    BY <1>7, <2>4, SubSeqEmpty
  <2>7. LengthOf(r.buffer) = n /\ stream' = <<>>
    BY <1>8, <1>9, <2>1, <2>4, <2>5, <2>6
  <2>8. ASSUME LengthOf(r.buffer) \in 1..MaxMessageSize,
               tcpReadPump' = [tcpReadPump EXCEPT !["reader"] = [At("body") EXCEPT !.length = LengthOf(r.buffer)]]
        PROVE  ReaderAt(q, tail)'
    <3>1. tcpReadPump'["reader"].pc = "body" /\ tcpReadPump'["reader"].length = n
      BY <1>13, <2>7, <2>8
    <3>2. n > 0
      BY <2>7, <2>8
    <3>3. QED
      BY <1>2, <1>15, <2>3, <2>7, <3>1, <3>2 DEF ReaderAt
  <2>9. QED
    BY <1>3, <1>11, <1>12, <2>8 DEF InStep
<1>16. QED
  BY <1>14, <1>15

\* The first of the messages on their way goes to the end of those that arrived.
LEMMA TakeableFirst ==
  ASSUME NEW a \in Seq(Takeable), NEW h \in Takeable, NEW t \in Seq(Takeable), NEW c \in Seq(Takeable)
  PROVE  Joined(a, <<h>> \o t, c) = Append(a, h) \o (t \o c)
<1>1. <<h>> \in Seq(Takeable)
  OBVIOUS
<1>2. PICK o \in Seq(Takeable), tc \in Seq(Takeable) : o = <<h>> /\ tc = t \o c
  BY <1>1, ConcatProperties
<1>3. (o \o t) \o c = o \o (t \o c)
  BY TakeableAssoc, ZenonT(60)
<1>4. (a \o o) \o tc = a \o (o \o tc)
  BY TakeableAssoc, ZenonT(60)
<1>5. Append(a, h) = a \o o
  BY <1>2, AppendIsConcat
<1>6. QED
  BY <1>2, <1>3, <1>4, <1>5 DEF Joined

\* A sequence is its head and then the rest.
LEMMA HeadIsFirst ==
  ASSUME NEW S, NEW s \in Seq(S), s # <<>>
  PROVE  s = <<Head(s)>> \o Tail(s)
OBVIOUS

\* ... and then the message.
LEMMA ReadBodyInStep ==
  ASSUME InStep, StartedOnce, ReadBody, ~short' PROVE InStep'
<1>1. PICK q, rest, tail : Carried(q, rest, tail) /\ WriterAt(rest, tail) /\ ReaderAt(q, tail)
  BY DEF InStep
<1>2. PICK n : n = tcpReadPump["reader"].length
  OBVIOUS
<1>3. /\ tcpReadPump["reader"].pc = "body" /\ stream # <<>> /\ UNCHANGED <<tcpSendCh, tcpWritePump, accepted>>
      /\ tcpReadPump' = [tcpReadPump EXCEPT !["reader"] = At("prefix")]
  BY DEF ReadBody
<1>4. PICK r \in Reads(n) :
        /\ stream' = SubSeq(stream, r.got + 1, Len(stream))
        /\ short' = (short \/ r.got < n)
        /\ arrived' = Append(arrived, r.buffer)
  BY <1>2 DEF ReadBody
<1>5. ~(r.got < n)
  BY <1>4
<1>6. /\ q # <<>> /\ n = Len(Head(q)) /\ Len(Head(q)) > 0
      /\ stream = Head(q) \o (Wire(Tail(q)) \o tail)
  BY <1>1, <1>2, <1>3 DEF ReaderAt
<1>7. /\ q \in Seq(Framed) /\ rest \in Seq(Takeable) /\ tail \in Seq(Bytes)
      /\ arrived \in Seq(Takeable) /\ tcpSendCh \in Seq(Takeable) /\ accepted = arrived \o (q \o rest)
  BY <1>1 DEF Carried
<1>8. PICK h \in Framed, t \in Seq(Framed) : h = Head(q) /\ t = Tail(q)
  BY <1>6, <1>7, WireHead
<1>9. PICK hb \in Seq(Bytes), x \in Seq(Bytes), s \in Seq(Bytes) : hb = h /\ x = Wire(t) \o tail /\ s = stream /\ s = hb \o x
  <2>1. Wire(t) \o tail \in Seq(Bytes)
    BY <1>7, WireType, ConcatProperties
  <2>2. PICK hb \in Seq(Bytes), x \in Seq(Bytes) : hb = h /\ x = Wire(t) \o tail
    BY <2>1, FramedAre
  <2>3. hb \o x \in Seq(Bytes)
    BY ConcatProperties
  <2>4. QED
    BY <1>6, <1>8, <2>2, <2>3
<1>10. n \in Nat /\ n = Len(hb)
  BY <1>6, <1>8, <1>9
<1>11. r.got = n /\ n <= Len(s) /\ r.buffer = SubSeq(s, 1, n)
  BY <1>5, <1>9, <1>10, FullRead
<1>12. SubSeq(hb \o x, 1, Len(hb)) = hb /\ SubSeq(hb \o x, Len(hb) + 1, Len(hb \o x)) = x
  BY CutConcat
<1>13. stream' = x /\ arrived' = Append(arrived, h)
  BY <1>4, <1>9, <1>10, <1>11, <1>12
<1>14. Framed \subseteq Takeable
  BY DEF Framed
<1>15. arrived' \in Seq(Takeable)
  <2>1. h \in Takeable
    BY <1>14
  <2>2. Append(arrived, h) \in Seq(Takeable)
    BY <1>7, <2>1, AppendProperties
  <2>3. QED
    BY <1>13, <2>2
<1>16. accepted' = arrived' \o (t \o rest)
  <2>1. t \in Seq(Takeable) /\ h \in Takeable /\ <<h>> \in Seq(Framed)
    BY <1>14
  <2>2. PICK a \in Seq(Takeable), u \in Seq(Takeable), c \in Seq(Takeable) : a = arrived /\ u = t /\ c = rest
    BY <1>7, <2>1
  <2>3. q = <<h>> \o t
    BY <1>6, <1>7, <1>8, HeadIsFirst
  <2>4. Joined(a, <<h>> \o u, c) = Append(a, h) \o (u \o c)
    BY <2>1, TakeableFirst, ZenonT(60)
  <2>5. QED
    BY <1>3, <1>7, <1>13, <2>2, <2>3, <2>4 DEF Joined
<1>17. Carried(t, rest, tail)'
  BY <1>3, <1>7, <1>15, <1>16 DEF Carried
<1>18. WriterAt(rest, tail)'
  BY <1>1, <1>3 DEF WriterAt
<1>19. tcpReadPump'["reader"].pc = "prefix"
  BY <1>3 DEF At, StartedOnce, Ends
<1>20. ReaderAt(t, tail)'
  BY <1>9, <1>13, <1>19 DEF ReaderAt
<1>21. QED
  BY <1>17, <1>18, <1>20 DEF InStep

-----------------------------------------------------------------------------
(* The steps together.                                                     *)

\* A read fails, and the pump ends.
LEMMA FailsInStep ==
  ASSUME InStep, StartedOnce, NEW e \in Ends, ReadFails(e) PROVE InStep'
<1>1. PICK q, rest, tail : Carried(q, rest, tail) /\ WriterAt(rest, tail) /\ ReaderAt(q, tail)
  BY DEF InStep
<1>2. UNCHANGED <<tcpSendCh, tcpWritePump, stream, accepted, arrived>>
  BY DEF ReadFails
<1>3. tcpReadPump'["reader"].pc = "ended" \/ tcpReadPump'["reader"] = tcpReadPump["reader"]
  BY DEF ReadFails, PumpReturns, StartedOnce, At, Ends
<1>4. Carried(q, rest, tail)' /\ WriterAt(rest, tail)'
  BY <1>1, <1>2 DEF Carried, WriterAt
<1>5. ReaderAt(q, tail)'
  <2>1. CASE tcpReadPump'["reader"].pc = "ended"
    BY <2>1 DEF ReaderAt
  <2>2. CASE tcpReadPump'["reader"] = tcpReadPump["reader"]
    BY <1>1, <1>2, <2>2 DEF ReaderAt
  <2>3. QED
    BY <1>3, <2>1, <2>2
<1>6. QED
  BY <1>4, <1>5 DEF InStep

\* Only a connection that was never made starts the pumps.
LEMMA ConnectInStep ==
  ASSUME InStep, StartedOnce, ConnectTCP PROVE InStep'
<1>1. PICK q, rest, tail : Carried(q, rest, tail) /\ WriterAt(rest, tail) /\ ReaderAt(q, tail)
  BY DEF InStep
<1>2. UNCHANGED <<tcpSendCh, stream, accepted, arrived>>
  BY DEF ConnectTCP
<1>3. tcpWritePump.pc = "none" /\ tcpReadPump["reader"].pc = "none"
  BY DEF StartedOnce, ConnectTCP, Ends
<1>4. tcpWritePump'.pc = "prefix" /\ tcpReadPump'["reader"].pc = "prefix"
  BY DEF ConnectTCP, At, Ends
<1>5. Carried(q, rest, tail)' /\ WriterAt(rest, tail)' /\ ReaderAt(q, tail)'
  BY <1>1, <1>2, <1>3, <1>4 DEF Carried, WriterAt, ReaderAt
<1>6. QED
  BY <1>5 DEF InStep

\* The pumps are started once.
LEMMA StartedOnceKeeps ==
  ASSUME StartedOnce, TCPNext PROVE StartedOnce'
<1>1. CASE ConnectTCP
  BY <1>1 DEF StartedOnce, ConnectTCP, Ends
<1>2. CASE WritePrefix
  BY <1>2 DEF StartedOnce, WritePrefix, lifeVars
<1>3. CASE WriteBody
  BY <1>3 DEF StartedOnce, WriteBody, lifeVars
<1>4. CASE WriterStops
  BY <1>4 DEF StartedOnce, WriterStops, lifeVars
<1>5. CASE ReadPrefix
  <2>1. \A e \in Ends : tcpConnected[e] \/ tcpClosed[e]
    BY <1>5 DEF StartedOnce, ReadPrefix
  <2>2. \/ UNCHANGED lifeVars /\ DOMAIN tcpReadPump' = Ends
        \/ PumpReturns("reader")
    BY <1>5 DEF ReadPrefix, StartedOnce
  <2>3. QED
    BY <2>1, <2>2 DEF StartedOnce, PumpReturns, lifeVars, Ends
<1>6. CASE ReadBody
  BY <1>6 DEF StartedOnce, ReadBody, lifeVars
<1>7. CASE ReceiveTCP
  BY <1>7 DEF StartedOnce, ReceiveTCP, lifeVars
<1>8. ASSUME NEW m \in Payloads, SendTCP(m) PROVE StartedOnce'
  BY <1>8 DEF StartedOnce, SendTCP, lifeVars
<1>9. ASSUME NEW e \in Ends, CloseTCP(e) PROVE StartedOnce'
  <2>1. CASE \A f \in Ends : tcpConnected[f] \/ tcpClosed[f]
    BY <1>9, <2>1 DEF StartedOnce, CloseTCP
  <2>2. CASE tcpWritePump.pc = "none" /\ tcpReadPump["reader"].pc = "none"
    BY <1>9, <2>2 DEF StartedOnce, CloseTCP
  <2>3. QED
    BY <2>1, <2>2 DEF StartedOnce
<1>10. ASSUME NEW e \in Ends, ReconnectTCP(e) PROVE StartedOnce'
  BY <1>10 DEF StartedOnce, ReconnectTCP
<1>11. ASSUME NEW e \in Ends, ReadFails(e) PROVE StartedOnce'
  <2>1. CASE \A f \in Ends : tcpConnected[f] \/ tcpClosed[f]
    BY <1>11, <2>1 DEF StartedOnce, ReadFails, PumpReturns
  <2>2. CASE tcpWritePump.pc = "none" /\ tcpReadPump["reader"].pc = "none"
    BY <1>11, <2>2 DEF StartedOnce, ReadFails, PumpReturns, Ends
  <2>3. QED
    BY <2>1, <2>2 DEF StartedOnce
<1>12. QED
  BY <1>1, <1>2, <1>3, <1>4, <1>5, <1>6, <1>7, <1>8, <1>9, <1>10, <1>11 DEF TCPNext

\* Every step that cuts no Read short keeps both ends in step.
LEMMA TCPStep ==
  ASSUME StartedOnce, InStep, ~short', TCPNext PROVE InStep'
<1>1. ASSUME UNCHANGED <<tcpSendCh, tcpWritePump, stream, tcpReadPump, accepted, arrived>> PROVE InStep'
  BY <1>1, StillInStep
<1>2. CASE WriterStops
  <2>1. tcpSendCh' \in Seq(Takeable)
    BY <1>2 DEF WriterStops, InStep, Carried
  <2>2. QED
    BY <1>2, <2>1, WriterEnds DEF WriterStops
<1>3. CASE ReceiveTCP
  BY <1>1, <1>3 DEF ReceiveTCP
<1>4. ASSUME NEW e \in Ends, CloseTCP(e) \/ ReconnectTCP(e) PROVE InStep'
  BY <1>1, <1>4 DEF CloseTCP, ReconnectTCP
<1>5. QED
  BY <1>2, <1>3, <1>4, SendInStep, PrefixInStep, BodyInStep, ReadPrefixInStep, ReadBodyInStep, FailsInStep, ConnectInStep DEF TCPNext

\* As long as every Read returns all it was asked for, the messages that arrive
\* are those that Send took, in their order, whatever their lengths and
\* whenever either end closes.
THEOREM FramesStayIntact == TCPSpec => []FramesIntact
<1>1. TCPInit => TCPInv
  BY InStepInit
<1>2. TCPInv /\ [TCPNext]_tcpVars => TCPInv'
  <2> SUFFICES ASSUME TCPInv, [TCPNext]_tcpVars PROVE TCPInv'
    OBVIOUS
  <2>1. CASE TCPNext
    <3>1. StartedOnce'
      BY <2>1, StartedOnceKeeps DEF TCPInv
    <3>2. short => short'
      BY <2>1 DEF TCPNext, ConnectTCP, WritePrefix, WriteBody, WriterStops, ReadPrefix, ReadBody, ReceiveTCP,
                  SendTCP, CloseTCP, ReconnectTCP, ReadFails
    <3>3. short' \/ InStep'
      BY <2>1, <3>2, TCPStep DEF TCPInv
    <3>4. QED
      BY <3>1, <3>3 DEF TCPInv
  <2>2. CASE UNCHANGED tcpVars
    <3>1. StartedOnce' /\ (short' <=> short)
      BY <2>2 DEF TCPInv, StartedOnce, tcpVars
    <3>2. InStep => InStep'
      BY <2>2, StillInStep DEF tcpVars
    <3>3. QED
      BY <3>1, <3>2 DEF TCPInv
  <2>3. QED
    BY <2>1, <2>2
<1>3. TCPInv => FramesIntact
  BY InStepIntact DEF TCPInv, FramesIntact
<1>4. QED
  BY <1>1, <1>2, <1>3, PTL DEF TCPSpec

-----------------------------------------------------------------------------
(***************************************************************************)
(* Pipelines. The sort is right at every depth of its recursion: L is      *)
(* what the list holds and g its graph, and what is in the result is       *)
(* before all that depends on it. A call of visit on the stack was made    *)
(* for a dependent of the operation below it, which makes a dependent      *)
(* that is being visited a cycle. Then what was begun and what is left to  *)
(* run make up the sorted list.                                            *)
(***************************************************************************)

SortFrame(L) == [op : L, left : SUBSET L]

\* The result: every operation once, and before what depends on it.
Before(g, L, res) ==
  /\ \A i, j \in 1..Len(res) : res[i] = res[j] => i = j
  /\ \A i, j \in 1..Len(res) : <<res[i], res[j]>> \in g => i < j
  /\ \A i \in 1..Len(res) : \A e \in L : <<res[i], e>> \in g => \E j \in 1..Len(res) : res[j] = e

\* The calls of visit that have not returned: each was made by the next one for
\* a dependent of its operation, and what is not left to look at is in the
\* result, or is what the call before it is for.  The innermost call is about to
\* visit what is in next.
Calling(g, L, stk, grey, vis, next) ==
  /\ \A i, j \in 1..Len(stk) : stk[i].op = stk[j].op => i = j
  /\ \A i \in 1..Len(stk) : \A e \in L : <<stk[i].op, e>> \in g =>
       e \in stk[i].left \/ e \in vis \/ (i = 1 /\ e \in next) \/ (i > 1 /\ e = stk[i - 1].op)
  /\ \A i \in 1..Len(stk) : \A e \in stk[i].left : <<stk[i].op, e>> \in g
  /\ \A i \in 1..Len(stk) : i > 1 => <<stk[i].op, stk[i - 1].op>> \in g

SortSets(L, stk, grey, vis, res) ==
  /\ stk \in Seq(SortFrame(L)) /\ res \in Seq(L)
  /\ grey \subseteq L /\ vis \subseteq L /\ grey \cap vis = {}
  /\ \A o \in L : o \in grey <=> \E i \in 1..Len(stk) : stk[i].op = o
  /\ \A o \in L : o \in vis <=> \E i \in 1..Len(res) : res[i] = o

Depth(g, L, stk, grey, vis, res, next) ==
  SortSets(L, stk, grey, vis, res) /\ Calling(g, L, stk, grey, vis, next) /\ Before(g, L, res)

\* An element put in front.
LEMMA InFront ==
  ASSUME NEW S, NEW x \in S, NEW s \in Seq(S)
  PROVE  /\ <<x>> \o s \in Seq(S) /\ Len(<<x>> \o s) = Len(s) + 1 /\ (<<x>> \o s)[1] = x
         /\ \A i \in 1..Len(s) : (<<x>> \o s)[i + 1] = s[i]
         /\ \A i \in 1..Len(s) + 1 : i > 1 => (<<x>> \o s)[i] = s[i - 1]
<1>1. PICK n \in Nat : n = Len(s)
  OBVIOUS
<1>2. QED
  BY <1>1

\* The first element replaced, which is not the other elements' business.
LEMMA Replaced ==
  ASSUME NEW S, NEW x \in S, NEW s \in Seq(S), s # <<>>
  PROVE  /\ <<x>> \o Tail(s) \in Seq(S) /\ Len(<<x>> \o Tail(s)) = Len(s) /\ (<<x>> \o Tail(s))[1] = x
         /\ \A i \in 1..Len(s) : i > 1 => (<<x>> \o Tail(s))[i] = s[i]
<1>1. PICK n \in Nat : n + 1 = Len(s)
  <2>1. Len(s) \in Nat /\ Len(s) # 0
    BY EmptySeq
  <2>2. Len(s) - 1 \in Nat /\ (Len(s) - 1) + 1 = Len(s)
    BY <2>1
  <2>3. QED
    BY <2>2
<1>2. PICK t \in Seq(S) : t = Tail(s) /\ Len(t) = n /\ \A i \in 1..n : t[i] = s[i + 1]
  <2>1. PICK t \in Seq(S) : t = Tail(s)
    BY HeadTailProperties
  <2>2. Len(t) = n /\ \A i \in 1..n : t[i] = s[i + 1]
    BY <1>1, <2>1
  <2>3. QED
    BY <2>1, <2>2
<1>3. \A i \in 1..n : (<<x>> \o t)[i + 1] = t[i]
  BY <1>2
<1>4. \A i \in 1..n + 1 : i > 1 => (<<x>> \o t)[i] = s[i]
  <2> SUFFICES ASSUME NEW i \in 1..n + 1, i > 1 PROVE (<<x>> \o t)[i] = s[i]
    OBVIOUS
  <2>1. PICK j \in 1..n : j + 1 = i
    <3>1. i - 1 \in 1..n /\ (i - 1) + 1 = i
      OBVIOUS
    <3>2. QED
      BY <3>1
  <2>2. QED
    BY <1>2, <1>3, <2>1
<1>5. <<x>> \o t \in Seq(S) /\ Len(<<x>> \o t) = n + 1 /\ (<<x>> \o t)[1] = x
  BY <1>2, InFront
<1>6. QED
  BY <1>1, <1>2, <1>4, <1>5, SMTT(40)

\* Before the sort.
LEMMA DepthEmpty ==
  ASSUME NEW g, NEW L
  PROVE  Depth(g, L, <<>>, {}, {}, <<>>, {})
BY DEF Depth, SortSets, Calling, Before

\* A dependent is taken from what is left.
LEMMA DepthTakes ==
  ASSUME NEW g, NEW L, NEW stk, NEW grey, NEW vis, NEW res, Depth(g, L, stk, grey, vis, res, {}), stk # <<>>,
         NEW o \in Head(stk).left
  PROVE  Depth(g, L, <<[Head(stk) EXCEPT !.left = @ \ {o}]>> \o Tail(stk), grey, vis, res, {o})
<1>1. stk \in Seq(SortFrame(L))
  BY DEF Depth, SortSets
<1>2. PICK f \in SortFrame(L) : f = Head(stk) /\ f = stk[1]
  BY <1>1, HeadTailProperties
<1>3. PICK x : x = [f EXCEPT !.left = @ \ {o}]
  OBVIOUS
<1>4. x \in SortFrame(L) /\ x.op = f.op /\ x.left = f.left \ {o}
  BY <1>3 DEF SortFrame
<1>5. PICK n \in Nat, s \in Seq(SortFrame(L)) : n = Len(stk) /\ n >= 1 /\ s = <<x>> \o Tail(stk) /\ Len(s) = n /\ s[1] = x
                                     /\ \A i \in 1..n : i > 1 => s[i] = stk[i]
  <2>1. PICK n \in Nat : n = Len(stk) /\ n >= 1
    BY <1>1, EmptySeq, LenProperties
  <2>2. /\ <<x>> \o Tail(stk) \in Seq(SortFrame(L)) /\ Len(<<x>> \o Tail(stk)) = Len(stk) /\ (<<x>> \o Tail(stk))[1] = x
        /\ \A i \in 1..Len(stk) : i > 1 => (<<x>> \o Tail(stk))[i] = stk[i]
    BY ONLY <1>1, <1>4, stk # <<>>, Replaced
  <2>3. QED
    BY <2>1, <2>2
<1>6. \A i \in 1..n : s[i].op = stk[i].op /\ s[i].left \subseteq stk[i].left
  <2> TAKE i \in 1..n
  <2>1. i = 1 \/ i > 1
    OBVIOUS
  <2>2. QED
    BY <1>2, <1>4, <1>5, <2>1
<1>7. SortSets(L, s, grey, vis, res)
  BY <1>5, <1>6, SMTT(40) DEF Depth, SortSets
<1>8. Calling(g, L, s, grey, vis, {o})
  <2>0. Calling(g, L, stk, grey, vis, {})
    BY DEF Depth
  <2>1. \A i, j \in 1..n : s[i].op = s[j].op => i = j
    BY <1>5, <1>6, <2>0 DEF Calling
  <2>2. ASSUME NEW i \in 1..n, NEW e \in L, <<s[i].op, e>> \in g
        PROVE  e \in s[i].left \/ e \in vis \/ (i = 1 /\ e \in {o}) \/ (i > 1 /\ e = s[i - 1].op)
    <3>1. e \in stk[i].left \/ e \in vis \/ (i > 1 /\ e = stk[i - 1].op)
      BY <1>5, <1>6, <2>0, <2>2 DEF Calling
    <3>2. i > 1 => i - 1 \in 1..n
      OBVIOUS
    <3>3. e \in stk[i].left => e \in s[i].left \/ (i = 1 /\ e = o)
      <4>1. i = 1 \/ i > 1
        OBVIOUS
      <4>2. QED
        BY <1>2, <1>4, <1>5, <4>1
    <3>4. QED
      BY <1>6, <3>1, <3>2, <3>3
  <2>3. \A i \in 1..n : \A e \in s[i].left : <<s[i].op, e>> \in g
    BY <1>5, <1>6, <2>0 DEF Calling
  <2>4. ASSUME NEW i \in 1..n, i > 1 PROVE <<s[i].op, s[i - 1].op>> \in g
    <3>1. i - 1 \in 1..n
      BY <2>4
    <3>2. QED
      BY <1>5, <1>6, <2>0, <2>4, <3>1 DEF Calling
  <2>5. QED
    BY <1>5, <2>1, <2>2, <2>3, <2>4 DEF Calling
<1>9. QED
  BY <1>2, <1>3, <1>5, <1>7, <1>8 DEF Depth

\* What has been visited is passed over.
LEMMA DepthPasses ==
  ASSUME NEW g, NEW L, NEW stk, NEW grey, NEW vis, NEW res, NEW o \in vis, Depth(g, L, stk, grey, vis, res, {o})
  PROVE  Depth(g, L, stk, grey, vis, res, {})
BY DEF Depth, Calling

\* visit is called.
LEMMA DepthEnters ==
  ASSUME NEW g, NEW L, NEW stk, NEW grey, NEW vis, NEW res, NEW o \in L, Depth(g, L, stk, grey, vis, res, {o}),
         o \notin grey, o \notin vis, stk # <<>> => <<stk[1].op, o>> \in g,
         NEW left \in SUBSET L, \A e \in L : e \in left <=> <<o, e>> \in g
  PROVE  Depth(g, L, <<[op |-> o, left |-> left]>> \o stk, grey \cup {o}, vis, res, {})
<1>1. stk \in Seq(SortFrame(L))
  BY DEF Depth, SortSets
<1>2. PICK x \in SortFrame(L) : x = [op |-> o, left |-> left]
  BY DEF SortFrame
<1>3. PICK n \in Nat, s \in Seq(SortFrame(L)) : n = Len(stk) /\ s = <<x>> \o stk /\ Len(s) = n + 1 /\ s[1] = x
                                     /\ (\A i \in 1..n : s[i + 1] = stk[i]) /\ \A i \in 1..n + 1 : i > 1 => s[i] = stk[i - 1]
  <2>1. PICK n \in Nat : n = Len(stk)
    BY <1>1, LenProperties
  <2>2. /\ <<x>> \o stk \in Seq(SortFrame(L)) /\ Len(<<x>> \o stk) = Len(stk) + 1 /\ (<<x>> \o stk)[1] = x
        /\ \A i \in 1..Len(stk) : (<<x>> \o stk)[i + 1] = stk[i]
        /\ \A i \in 1..Len(stk) + 1 : i > 1 => (<<x>> \o stk)[i] = stk[i - 1]
    <3>1. PICK F : F = SortFrame(L)
      OBVIOUS
    <3>2. x \in F /\ stk \in Seq(F)
      BY <1>1, <3>1
    <3>3. QED
      BY ONLY <3>1, <3>2, InFront
  <2>3. QED
    BY <2>1, <2>2
<1>4. x.op = o /\ x.left = left
  BY <1>2
<1>5. SortSets(L, s, grey \cup {o}, vis, res)
  <2>0. SortSets(L, stk, grey, vis, res)
    BY DEF Depth
  <2>1. ASSUME NEW p \in L PROVE p \in grey \cup {o} <=> \E i \in 1..n + 1 : s[i].op = p
    <3>1. ASSUME p \in grey PROVE \E i \in 1..n + 1 : s[i].op = p
      <4>1. PICK i \in 1..n : stk[i].op = p
        BY <1>3, <2>0, <3>1 DEF SortSets
      <4>2. i + 1 \in 1..n + 1 /\ s[i + 1].op = p
        BY <1>3, <4>1
      <4>3. QED
        BY <4>2
    <3>2. ASSUME NEW i \in 1..n + 1, s[i].op = p PROVE p \in grey \cup {o}
      <4>1. i = 1 \/ (i > 1 /\ i - 1 \in 1..n)
        OBVIOUS
      <4>2. QED
        BY <1>3, <1>4, <2>0, <3>2, <4>1 DEF SortSets
    <3>3. 1 \in 1..n + 1
      OBVIOUS
    <3>4. QED
      BY <1>3, <1>4, <3>1, <3>2, <3>3
  <2>2. QED
    BY <1>3, <2>0, <2>1 DEF SortSets
<1>6. Calling(g, L, s, grey \cup {o}, vis, {})
  <2>0. Calling(g, L, stk, grey, vis, {o}) /\ \A i \in 1..n : stk[i].op \in grey
    <3>1. \A i \in 1..n : stk[i] \in SortFrame(L)
      BY <1>1, <1>3
    <3>2. \A i \in 1..n : stk[i].op \in L
      BY <3>1 DEF SortFrame
    <3>3. QED
      BY <1>3, <3>2 DEF Depth, SortSets
  <2>1. ASSUME NEW i \in 1..n + 1, NEW j \in 1..n + 1, s[i].op = s[j].op PROVE i = j
    <3>1. i = 1 \/ (i > 1 /\ i - 1 \in 1..n)
      OBVIOUS
    <3>2. j = 1 \/ (j > 1 /\ j - 1 \in 1..n)
      OBVIOUS
    <3>3. CASE i = 1 \/ j = 1
      BY <1>3, <1>4, <2>0, <2>1, <3>1, <3>2, <3>3
    <3>4. CASE i > 1 /\ j > 1
      <4>0. PICK k \in 1..n, l \in 1..n : k = i - 1 /\ l = j - 1 /\ s[i] = stk[k] /\ s[j] = stk[l]
        BY <1>3, <3>1, <3>2, <3>4
      <4>1. k = l
        BY <1>3, <2>0, <2>1, <4>0 DEF Calling
      <4>2. QED
        BY <4>0, <4>1
    <3>5. QED
      BY <3>1, <3>2, <3>3, <3>4
  <2>2. ASSUME NEW i \in 1..n + 1, NEW e \in L, <<s[i].op, e>> \in g
        PROVE  e \in s[i].left \/ e \in vis \/ (i > 1 /\ e = s[i - 1].op)
    <3>1. CASE i = 1
      BY <1>3, <1>4, <2>2, <3>1
    <3>2. CASE i = 2
      <4>1. 1 \in 1..n /\ s[i] = stk[1] /\ s[i - 1] = x
        BY <1>3, <3>2
      <4>2. e \in stk[1].left \/ e \in vis \/ e = o
        BY <1>3, <2>0, <2>2, <4>1 DEF Calling
      <4>3. QED
        BY <1>4, <3>2, <4>1, <4>2
    <3>3. CASE i > 2
      <4>1. PICK k \in 1..n : k = i - 1 /\ k > 1 /\ s[i] = stk[k] /\ k - 1 \in 1..n
        BY <1>3, <3>3
      <4>2. s[i - 1] = stk[k - 1]
        BY <1>3, <3>3, <4>1
      <4>3. e \in stk[k].left \/ e \in vis \/ e = stk[k - 1].op
        BY <1>3, <2>0, <2>2, <4>1 DEF Calling
      <4>4. QED
        BY <3>3, <4>1, <4>2, <4>3
    <3>4. QED
      BY <3>1, <3>2, <3>3
  <2>3. ASSUME NEW i \in 1..n + 1, NEW e \in s[i].left PROVE <<s[i].op, e>> \in g
    <3>1. i = 1 \/ (i > 1 /\ i - 1 \in 1..n)
      OBVIOUS
    <3>2. QED
      BY <1>3, <1>4, <2>0, <2>3, <3>1 DEF Calling
  <2>4. ASSUME NEW i \in 1..n + 1, i > 1 PROVE <<s[i].op, s[i - 1].op>> \in g
    <3>1. CASE i = 2
      <4>1. 1 \in 1..n /\ s[i] = stk[1] /\ s[i - 1] = x /\ stk # <<>>
        BY <1>3, <3>1
      <4>2. QED
        BY <1>4, <4>1
    <3>2. CASE i > 2
      <4>1. PICK k \in 1..n : k = i - 1 /\ k > 1 /\ s[i] = stk[k] /\ k - 1 \in 1..n
        BY <1>3, <3>2
      <4>2. s[i - 1] = stk[k - 1]
        BY <1>3, <3>2, <4>1
      <4>3. QED
        BY <1>3, <2>0, <4>1, <4>2 DEF Calling
    <3>3. QED
      BY <2>4, <3>1, <3>2
  <2>5. QED
    BY <1>3, <2>1, <2>2, <2>3, <2>4 DEF Calling
<1>7. QED
  BY <1>2, <1>3, <1>5, <1>6 DEF Depth

\* A visit returns, with all dependents in the result.
LEMMA DepthReturns ==
  ASSUME NEW g, NEW L, NEW stk, NEW grey, NEW vis, NEW res, Depth(g, L, stk, grey, vis, res, {}), stk # <<>>,
         NEW o \in L, o = Head(stk).op, Head(stk).left = {}
  PROVE  Depth(g, L, Tail(stk), grey \ {o}, vis \cup {o}, <<o>> \o res, {})
<1>1. stk \in Seq(SortFrame(L)) /\ res \in Seq(L) /\ SortSets(L, stk, grey, vis, res) /\ Calling(g, L, stk, grey, vis, {}) /\ Before(g, L, res)
  BY SMTT(40) DEF Depth, SortSets
<1>2. PICK n \in Nat : n + 1 = Len(stk)
  <2>1. Len(stk) \in Nat /\ Len(stk) # 0
    BY <1>1, EmptySeq
  <2>2. Len(stk) - 1 \in Nat /\ (Len(stk) - 1) + 1 = Len(stk)
    BY <2>1
  <2>3. QED
    BY <2>2
<1>3. PICK s \in Seq(SortFrame(L)) : s = Tail(stk) /\ Len(s) = n /\ \A i \in 1..n : s[i] = stk[i + 1]
  <2>1. PICK t \in Seq(SortFrame(L)) : t = Tail(stk)
    BY <1>1, HeadTailProperties
  <2>2. Len(t) = n /\ \A i \in 1..n : t[i] = stk[i + 1]
    BY <1>1, <1>2, <2>1
  <2>3. QED
    BY <2>1, <2>2
<1>4. stk[1].op = o /\ stk[1].left = {} /\ 1 \in 1..n + 1
  BY <1>1, <1>2
<1>5. PICK m \in Nat, r \in Seq(L) : m = Len(res) /\ r = <<o>> \o res /\ Len(r) = m + 1 /\ r[1] = o
                             /\ (\A i \in 1..m : r[i + 1] = res[i]) /\ \A i \in 1..m + 1 : i > 1 => r[i] = res[i - 1]
  <2>1. PICK m \in Nat : m = Len(res)
    BY <1>1, LenProperties
  <2>2. /\ <<o>> \o res \in Seq(L) /\ Len(<<o>> \o res) = Len(res) + 1 /\ (<<o>> \o res)[1] = o
        /\ \A i \in 1..Len(res) : (<<o>> \o res)[i + 1] = res[i]
        /\ \A i \in 1..Len(res) + 1 : i > 1 => (<<o>> \o res)[i] = res[i - 1]
    <3>1. o \in L /\ res \in Seq(L)
      BY <1>1
    <3>2. QED
      BY ONLY <3>1, InFront
  <2>3. QED
    BY <2>1, <2>2
<1>6. o \in grey /\ o \notin vis
  BY <1>1, <1>2, <1>4 DEF SortSets
<1>7. \A e \in L : <<o, e>> \in g => e \in vis
  <2>1. \A e \in L : <<stk[1].op, e>> \in g => e \in stk[1].left \/ e \in vis \/ (1 = 1 /\ e \in {}) \/ (1 > 1 /\ e = stk[1 - 1].op)
    BY <1>1, <1>2, <1>4 DEF Calling
  <2>2. QED
    BY <1>4, <2>1
<1>8. \A e \in L : e \in vis => \E i \in 1..m : res[i] = e
  BY <1>1, <1>5 DEF SortSets
<1>9. \A i \in 1..m : res[i] \in vis /\ res[i] \in L
  <2>1. \A i \in 1..m : res[i] \in L
    BY <1>1, <1>5
  <2>2. QED
    BY <1>1, <1>5, <2>1 DEF SortSets
<1>10. SortSets(L, s, grey \ {o}, vis \cup {o}, r)
  <2>1. ASSUME NEW p \in L PROVE p \in grey \ {o} <=> \E i \in 1..n : s[i].op = p
    <3>1. ASSUME p \in grey, p # o PROVE \E i \in 1..n : s[i].op = p
      <4>1. PICK i \in 1..n + 1 : stk[i].op = p
        BY <1>1, <1>2, <3>1 DEF SortSets
      <4>2. i # 1
        BY <1>4, <3>1, <4>1
      <4>3. PICK k \in 1..n : k + 1 = i
        <5>1. i - 1 \in 1..n /\ (i - 1) + 1 = i
          BY <4>2
        <5>2. QED
          BY <5>1
      <4>4. QED
        BY <1>3, <4>1, <4>3
    <3>2. ASSUME NEW i \in 1..n, s[i].op = p PROVE p \in grey /\ p # o
      <4>1. i + 1 \in 1..n + 1 /\ i + 1 # 1
        OBVIOUS
      <4>2. stk[i + 1].op = p
        BY <1>3, <3>2
      <4>3. p \in grey
        BY <1>1, <1>2, <4>1, <4>2 DEF SortSets
      <4>4. p # o
        BY <1>1, <1>2, <1>4, <4>1, <4>2 DEF Calling
      <4>5. QED
        BY <4>3, <4>4
    <3>3. QED
      BY <3>1, <3>2
  <2>2. ASSUME NEW p \in L PROVE p \in vis \cup {o} <=> \E i \in 1..m + 1 : r[i] = p
    <3>1. ASSUME p \in vis PROVE \E i \in 1..m + 1 : r[i] = p
      <4>1. PICK i \in 1..m : res[i] = p
        BY <1>8, <3>1
      <4>2. i + 1 \in 1..m + 1 /\ r[i + 1] = p
        BY <1>5, <4>1
      <4>3. QED
        BY <4>2
    <3>2. ASSUME NEW i \in 1..m + 1, r[i] = p PROVE p \in vis \cup {o}
      <4>1. i = 1 \/ (i > 1 /\ i - 1 \in 1..m)
        OBVIOUS
      <4>2. QED
        BY <1>5, <1>9, <3>2, <4>1
    <3>3. 1 \in 1..m + 1
      OBVIOUS
    <3>4. QED
      BY <1>5, <3>1, <3>2, <3>3
  <2>3. grey \ {o} \subseteq L /\ vis \cup {o} \subseteq L /\ (grey \ {o}) \cap (vis \cup {o}) = {}
    BY <1>1 DEF SortSets
  <2>4. QED
    BY <1>3, <1>5, <2>1, <2>2, <2>3, ZenonT(60) DEF SortSets
<1>11. Calling(g, L, s, grey \ {o}, vis \cup {o}, {})
  <2>0. \A i \in 1..n : i + 1 \in 1..n + 1 /\ i + 1 > 1
    OBVIOUS
  <2>1. ASSUME NEW i \in 1..n, NEW j \in 1..n, s[i].op = s[j].op PROVE i = j
    <3>1. i + 1 = j + 1
      BY <1>1, <1>2, <1>3, <2>0, <2>1 DEF Calling
    <3>2. QED
      BY <3>1
  <2>2. ASSUME NEW i \in 1..n, NEW e \in L, <<s[i].op, e>> \in g
        PROVE  e \in s[i].left \/ e \in vis \cup {o} \/ (i > 1 /\ e = s[i - 1].op)
    <3>1. e \in stk[i + 1].left \/ e \in vis \/ e = stk[(i + 1) - 1].op
      BY <1>1, <1>2, <1>3, <2>0, <2>2 DEF Calling
    <3>2. (i + 1) - 1 = i /\ (i = 1 \/ (i > 1 /\ i - 1 \in 1..n /\ (i - 1) + 1 = i))
      OBVIOUS
    <3>3. i = 1 => stk[i].op = o
      BY <1>4
    <3>4. i > 1 => s[i - 1] = stk[i]
      BY <1>3, <3>2
    <3>5. QED
      BY <1>3, <3>1, <3>2, <3>3, <3>4
  <2>3. \A i \in 1..n : \A e \in s[i].left : <<s[i].op, e>> \in g
    BY <1>1, <1>2, <1>3, <2>0 DEF Calling
  <2>4. ASSUME NEW i \in 1..n, i > 1 PROVE <<s[i].op, s[i - 1].op>> \in g
    <3>1. PICK k \in 1..n : k = i - 1 /\ k + 1 = i
      <4>1. i - 1 \in 1..n /\ (i - 1) + 1 = i
        BY <2>4
      <4>2. QED
        BY <4>1
    <3>2. s[i] = stk[i + 1] /\ s[k] = stk[i] /\ (i + 1) - 1 = i
      BY <1>3, <3>1
    <3>3. <<stk[i + 1].op, stk[(i + 1) - 1].op>> \in g
      BY <1>1, <1>2, <2>0 DEF Calling
    <3>4. QED
      BY <3>1, <3>2, <3>3
  <2>5. QED
    BY <1>3, <2>1, <2>2, <2>3, <2>4 DEF Calling
<1>12. Before(g, L, r)
  <2>0. \A i \in 1..m + 1 : i = 1 \/ (i > 1 /\ i - 1 \in 1..m)
    OBVIOUS
  <2>1. ASSUME NEW i \in 1..m + 1, NEW j \in 1..m + 1, r[i] = r[j] PROVE i = j
    <3>1. CASE i = 1 \/ j = 1
      BY <1>5, <1>6, <1>9, <2>0, <2>1, <3>1
    <3>2. CASE i > 1 /\ j > 1
      <4>1. PICK k \in 1..m, l \in 1..m : k = i - 1 /\ l = j - 1 /\ r[i] = res[k] /\ r[j] = res[l]
        BY <1>5, <2>0, <3>2
      <4>2. k = l
        <5>1. res[k] = res[l]
          BY <2>1, <4>1
        <5>2. k \in 1..Len(res) /\ l \in 1..Len(res)
          BY <1>5
        <5>3. QED
          BY <1>1, <5>1, <5>2 DEF Before
      <4>3. QED
        BY <4>1, <4>2
    <3>3. QED
      BY <2>0, <3>1, <3>2
  <2>2. ASSUME NEW i \in 1..m + 1, NEW j \in 1..m + 1, <<r[i], r[j]>> \in g PROVE i < j
    <3>1. CASE j = 1
      <4>1. r[i] = o \/ r[i] \in vis
        BY <1>5, <1>9, <2>0
      <4>2. r[i] = o => FALSE
        BY <1>5, <1>6, <1>7, <2>2, <3>1
      <4>3. r[i] \in vis => FALSE
        <5> HAVE r[i] \in vis
        <5>1. i > 1
          BY <1>5, <1>6, <2>0
        <5>2. PICK k \in 1..m : r[i] = res[k]
          BY <1>5, <2>0, <5>1
        <5>3. <<res[k], o>> \in g
          BY <1>5, <2>2, <3>1, <5>2
        <5>4. \E l \in 1..m : res[l] = o
          BY <1>1, <1>5, <5>3 DEF Before
        <5>5. QED
          BY <1>6, <1>9, <5>4
      <4>4. QED
        BY <4>1, <4>2, <4>3
    <3>2. CASE i = 1 /\ j > 1
      BY <3>2
    <3>3. CASE i > 1 /\ j > 1
      <4>1. PICK k \in 1..m, l \in 1..m : k = i - 1 /\ l = j - 1 /\ r[i] = res[k] /\ r[j] = res[l]
        BY <1>5, <2>0, <3>3
      <4>2. k < l
        BY <1>1, <1>5, <2>2, <4>1 DEF Before
      <4>3. QED
        BY <4>1, <4>2
    <3>4. QED
      BY <2>0, <3>1, <3>2, <3>3
  <2>3. ASSUME NEW i \in 1..m + 1, NEW e \in L, <<r[i], e>> \in g PROVE \E j \in 1..m + 1 : r[j] = e
    <3>1. e \in vis
      <4>1. CASE i = 1
        BY <1>5, <1>7, <2>3, <4>1
      <4>2. CASE i > 1
        <5>1. PICK k \in 1..m : r[i] = res[k]
          BY <1>5, <2>0, <4>2
        <5>2. \E l \in 1..m : res[l] = e
          BY <1>1, <1>5, <2>3, <5>1 DEF Before
        <5>3. QED
          BY <1>9, <5>2
      <4>3. QED
        BY <2>0, <4>1, <4>2
    <3>2. PICK k \in 1..m : res[k] = e
      BY <1>8, <3>1
    <3>3. k + 1 \in 1..m + 1 /\ r[k + 1] = e
      BY <1>5, <3>2
    <3>4. QED
      BY <3>3
  <2>4. Len(r) = m + 1
    BY <1>5
  <2>5. QED
    BY ONLY <2>1, <2>2, <2>3, <2>4 DEF Before
<1>13. QED
  BY <1>3, <1>5, <1>10, <1>11, <1>12 DEF Depth

\* An order of what L holds, in which every dependency comes first.
Ranked(g, L, rank) == \A edge \in g : rank[edge[1]] < rank[edge[2]]

\* A dependent that is being visited closes a cycle.
LEMMA DepthCycle ==
  ASSUME NEW g, NEW L, NEW stk, NEW grey, NEW vis, NEW res, Depth(g, L, stk, grey, vis, res, {}), stk # <<>>,
         NEW o \in L, o \in Head(stk).left, o \in grey, NEW c \in Nat, NEW rank \in [L -> 1..c], Ranked(g, L, rank)
  PROVE  FALSE
<1>1. stk \in Seq(SortFrame(L)) /\ SortSets(L, stk, grey, vis, res) /\ Calling(g, L, stk, grey, vis, {})
  BY DEF Depth, SortSets
<1>2. PICK n \in Nat : n = Len(stk) /\ 1 \in 1..n /\ Head(stk) = stk[1] /\ \A i \in 1..n : stk[i] \in SortFrame(L)
  BY <1>1, EmptySeq, LenProperties
<1>3. \A i \in 1..n : rank[stk[i].op] \in Nat
  BY <1>2 DEF SortFrame
<1>4. PICK k \in 1..n : stk[k].op = o
  BY <1>1, <1>2 DEF SortSets
<1> DEFINE Up == {i \in Nat : i \in 1..n => rank[stk[i].op] <= rank[stk[1].op]}
<1>5. Nat \subseteq Up
  <2>1. 0 \in Up
    OBVIOUS
  <2>2. ASSUME NEW i \in Nat, i \in Up PROVE i + 1 \in Up
    <3> SUFFICES ASSUME i + 1 \in 1..n PROVE rank[stk[i + 1].op] <= rank[stk[1].op]
      OBVIOUS
    <3>1. CASE i = 0
      BY <1>3, <3>1
    <3>2. CASE i > 0
      <4>1. i \in 1..n /\ (i + 1) - 1 = i /\ i + 1 > 1
        BY <3>2
      <4>2. <<stk[i + 1].op, stk[i].op>> \in g
        BY <1>1, <1>2, <4>1 DEF Calling
      <4>3. rank[stk[i + 1].op] < rank[stk[i].op]
        BY <4>2 DEF Ranked
      <4>4. QED
        BY <1>3, <2>2, <4>1, <4>3
    <3>3. QED
      BY <3>1, <3>2
  <2> HIDE DEF Up
  <2>3. QED
    BY <2>1, <2>2, Induct
<1>6. rank[o] <= rank[stk[1].op]
  BY <1>4, <1>5
<1>7. <<stk[1].op, o>> \in g
  BY <1>1, <1>2 DEF Calling
<1>8. rank[stk[1].op] < rank[o]
  BY <1>7 DEF Ranked
<1>9. QED
  BY <1>2, <1>3, <1>4, <1>6, <1>8

-----------------------------------------------------------------------------
(***************************************************************************)
(* The inductive invariant.                                                 *)
(***************************************************************************)

PipePCs == {"no", "started", "sort", "cycle", "loop", "operation", "complete", "fail", "returned", "returnedCycle"}
RunPCs == {"loop", "operation", "complete", "fail", "returned"}

PipeTypeOK ==
  /\ operations \in Seq(Operations) /\ list \in Seq(Operations) /\ begun \in Seq(Operations)
  /\ executing \in [pc : PipePCs, todo : Seq(Operations)]
  /\ optimize \in BOOLEAN /\ cancelled \in BOOLEAN /\ after \in {0, 1}

SortSound == Depth(DependencyGraph(list), Range(list), stack, visiting, visited, result, {})

\* What is run: the list, sorted or as it was.
Order == IF optimize THEN result ELSE list

NothingYet ==
  executing.pc \in {"no", "started"} =>
    list = <<>> /\ stack = <<>> /\ visiting = {} /\ visited = {} /\ result = <<>>

Sorting ==
  /\ executing.pc \notin RunPCs => begun = <<>>
  /\ executing.pc \in {"sort", "cycle"} => optimize
  /\ executing.pc \in {"cycle", "returnedCycle"} => ~Acyclic(DependencyGraph(list))

\* What was begun and what is left are the order.
Running ==
  executing.pc \in RunPCs =>
    /\ optimize => Range(list) \subseteq visited
    /\ \E rest \in Seq(Operations) :
         /\ Order = begun \o rest
         /\ executing.pc \in {"loop", "operation", "complete"} \/ status = "completed" => rest = executing.todo

RunStages ==
  /\ executing.pc = "operation" => executing.todo # <<>> /\ after = 0
  /\ executing.pc = "complete" \/ status = "completed" => executing.todo = <<>>
  /\ status = "completed" => executing.pc = "returned"
  /\ after = 1 => cancelled

PipeInv == PipeTypeOK /\ SortSound /\ NothingYet /\ Sorting /\ Running /\ RunStages

\* An edge is between operations of the list.
LEMMA GraphEdges ==
  ASSUME NEW ops
  PROVE  DependencyGraph(ops) \subseteq Range(ops) \X Range(ops)
BY DEF DependencyGraph

\* The graph is that of the list and the dependencies.
LEMMA GraphSame ==
  ASSUME UNCHANGED <<inputs, list>>
  PROVE  /\ DependencyGraph(list)' = DependencyGraph(list) /\ Range(list)' = Range(list)
         /\ Acyclic(DependencyGraph(list))' <=> Acyclic(DependencyGraph(list))
<1>1. DependencyGraph(list)' = DependencyGraph(list)
  BY DEF DependencyGraph, ByResult, inputs
<1>2. Range(list)' = Range(list)
  BY DEF Range
<1>3. QED
  BY <1>1, <1>2 DEF Acyclic

\* A step outside the sort.
LEMMA SortSame ==
  ASSUME SortSound, UNCHANGED <<inputs, sortVars>> PROVE SortSound'
<1>1. DependencyGraph(list)' = DependencyGraph(list) /\ Range(list)' = Range(list)
  BY GraphSame DEF sortVars
<1>2. QED
  BY <1>1 DEF SortSound, sortVars

\* Nothing is added or executed.
LEMMA SortInit ==
  ASSUME PipeInit PROVE PipeInv
<1>1. <<>> \in Seq(Operations) /\ <<>> \o <<>> = <<>>
  OBVIOUS
<1>2. SortSound
  BY DepthEmpty DEF PipeInit, SortSound
<1>3. executing = [pc |-> "no", todo |-> <<>>] /\ status = "pending" /\ begun = <<>> /\ after = 0
  BY DEF PipeInit
<1>4. PipeTypeOK
  <2>1. operations = <<>> /\ list = <<>> /\ optimize \in BOOLEAN /\ cancelled = FALSE
    BY DEF PipeInit
  <2>2. executing \in [pc : PipePCs, todo : Seq(Operations)]
    BY <1>1, <1>3 DEF PipePCs
  <2>3. QED
    BY <1>1, <1>3, <2>1, <2>2 DEF PipeTypeOK
<1>5. NothingYet
  BY DEF PipeInit, NothingYet
<1>6. Sorting /\ Running /\ RunStages
  BY <1>3 DEF Sorting, Running, RunStages, RunPCs
<1>7. QED
  BY <1>2, <1>4, <1>5, <1>6 DEF PipeInv

\* The stack is empty, and what is entered is not in the result.
LEMMA StartsSound ==
  ASSUME SortSound, SortVisits PROVE SortSound'
<1>1. PICK g, L, vis, res : g = DependencyGraph(list) /\ L = Range(list) /\ vis = visited /\ res = result
  OBVIOUS
<1>2. PICK o \in L : o \notin vis /\ stack = <<>> /\ stack' = <<[op |-> o, left |-> Dependents(o)]>> \o <<>>
                     /\ visiting' = visiting \cup {o} /\ UNCHANGED <<inputs, list, visited, result>>
  BY <1>1 DEF SortVisits, Enter
<1>3. PICK grey : grey = visiting
  OBVIOUS
<1>4. Depth(g, L, <<>>, grey, vis, res, {})
  BY <1>1, <1>2, <1>3 DEF SortSound
<1>5. Depth(g, L, <<>>, grey, vis, res, {o}) /\ o \notin grey
  BY <1>4 DEF Depth, SortSets, Calling
<1>6. PICK left \in SUBSET L : left = Dependents(o) /\ \A e \in L : e \in left <=> <<o, e>> \in g
  <2>1. Dependents(o) = {e \in L : <<o, e>> \in g}
    BY <1>1 DEF Dependents
  <2>2. QED
    BY <2>1
<1>7. Depth(g, L, <<[op |-> o, left |-> left]>> \o <<>>, grey \cup {o}, vis, res, {})
  BY ONLY <1>2, <1>5, <1>6, DepthEnters
<1>8. DependencyGraph(list)' = g /\ Range(list)' = L
  BY <1>1, <1>2, GraphSame
<1>9. QED
  BY <1>1, <1>2, <1>3, <1>6, <1>7, <1>8 DEF SortSound

\* A dependent is looked at.
LEMMA VisitSound ==
  ASSUME SortSound, VisitDependent PROVE SortSound'
<1>1. PICK g, L, vis, res, grey, stk : g = DependencyGraph(list) /\ L = Range(list) /\ vis = visited /\ res = result
                                       /\ grey = visiting /\ stk = stack
  OBVIOUS
<1>2. Depth(g, L, stk, grey, vis, res, {}) /\ g \subseteq L \X L
  BY <1>1, GraphEdges DEF SortSound
<1>3. stk # <<>> /\ UNCHANGED <<inputs, list, visited, result>>
  BY <1>1 DEF VisitDependent
<1>4. DependencyGraph(list)' = g /\ Range(list)' = L
  BY <1>1, <1>3, GraphSame
<1>5. PICK o \in Head(stk).left :
        LET calls == <<[Head(stk) EXCEPT !.left = @ \ {o}]>> \o Tail(stk) IN
        \/ UNCHANGED <<stack, visiting>>
        \/ o \in vis /\ stack' = calls /\ UNCHANGED visiting
        \/ o \notin grey /\ o \notin vis /\ Enter(o, calls)
  BY <1>1 DEF VisitDependent
<1>6. PICK calls : calls = <<[Head(stk) EXCEPT !.left = @ \ {o}]>> \o Tail(stk)
  OBVIOUS
<1>7. Depth(g, L, calls, grey, vis, res, {o})
  BY ONLY <1>2, <1>3, <1>6, o \in Head(stk).left, DepthTakes
<1>8. CASE UNCHANGED <<stack, visiting>>
  BY <1>1, <1>2, <1>3, <1>4, <1>8 DEF SortSound
<1>9. CASE o \in vis /\ stack' = calls /\ UNCHANGED visiting
  <2>1. o \in vis
    BY <1>9
  <2>2. Depth(g, L, calls, grey, vis, res, {})
    BY ONLY <1>7, <2>1, DepthPasses
  <2>3. QED
    BY <1>1, <1>3, <1>4, <1>9, <2>2 DEF SortSound
<1>10. CASE o \notin grey /\ o \notin vis /\ Enter(o, calls)
  <2>1. PICK f \in SortFrame(L) : f = Head(stk)
    <3>1. stk \in Seq(SortFrame(L))
      BY <1>2 DEF Depth, SortSets
    <3>2. QED
      BY <1>3, <3>1, HeadTailProperties
  <2>2. o \in f.left /\ f.left \subseteq L
    BY <2>1 DEF SortFrame
  <2>3. o \in L
    BY <2>2
  <2>4. calls # <<>> => <<calls[1].op, o>> \in g
    <3>1. 1 \in 1..Len(stk) /\ stk[1] = f
      <4>1. stk \in Seq(SortFrame(L))
        BY <1>2 DEF Depth, SortSets
      <4>2. Len(stk) \in Nat /\ Len(stk) # 0
        BY <1>3, <4>1, EmptySeq
      <4>3. QED
        BY <2>1, <4>1, <4>2
    <3>2. <<f.op, o>> \in g
      BY <1>2, <2>2, <3>1 DEF Depth, Calling
    <3>3. calls[1].op = f.op
      <4>1. PICK x : x = [f EXCEPT !.left = @ \ {o}]
        OBVIOUS
      <4>2. x \in SortFrame(L) /\ x.op = f.op
        BY <4>1 DEF SortFrame
      <4>3. stk \in Seq(SortFrame(L)) /\ stk # <<>>
        BY <1>2, <1>3 DEF Depth, SortSets
      <4>4. (<<x>> \o Tail(stk))[1] = x
        BY ONLY <4>2, <4>3, Replaced
      <4>5. QED
        BY <1>6, <2>1, <4>1, <4>2, <4>4
    <3>4. QED
      BY <3>2, <3>3
  <2>5. PICK left \in SUBSET L : left = Dependents(o) /\ \A e \in L : e \in left <=> <<o, e>> \in g
    <3>1. Dependents(o) = {e \in L : <<o, e>> \in g}
      BY <1>1 DEF Dependents
    <3>2. QED
      BY <3>1
  <2>6. o \notin grey /\ o \notin vis
    BY <1>10
  <2>7. Depth(g, L, <<[op |-> o, left |-> left]>> \o calls, grey \cup {o}, vis, res, {})
    BY ONLY <1>7, <2>3, <2>4, <2>5, <2>6, DepthEnters
  <2>8. QED
    BY <1>1, <1>3, <1>4, <1>10, <2>5, <2>7 DEF SortSound, Enter
<1>11. QED
  BY <1>5, <1>6, <1>8, <1>9, <1>10

\* A visit returns.
LEMMA ReturnSound ==
  ASSUME SortSound, VisitReturns PROVE SortSound'
<1>1. PICK g, L, vis, res, grey, stk : g = DependencyGraph(list) /\ L = Range(list) /\ vis = visited /\ res = result
                                       /\ grey = visiting /\ stk = stack
  OBVIOUS
<1>2. Depth(g, L, stk, grey, vis, res, {})
  BY <1>1 DEF SortSound
<1>3. /\ stk # <<>> /\ UNCHANGED <<inputs, list>> /\ Head(stk).left = {}
      /\ stack' = Tail(stk) /\ visiting' = grey \ {Head(stk).op} /\ visited' = vis \cup {Head(stk).op}
      /\ result' = <<Head(stk).op>> \o res
  BY <1>1 DEF VisitReturns, Leave
<1>4. DependencyGraph(list)' = g /\ Range(list)' = L
  BY <1>1, <1>3, GraphSame
<1>5. PICK o \in L : o = Head(stk).op
  <2>1. stk \in Seq(SortFrame(L))
    BY <1>2 DEF Depth, SortSets
  <2>2. Head(stk) \in SortFrame(L)
    BY <1>3, <2>1, HeadTailProperties
  <2>3. QED
    BY <2>2 DEF SortFrame
<1>6. Head(stk).left = {}
  BY <1>3
<1>7. Depth(g, L, Tail(stk), grey \ {o}, vis \cup {o}, <<o>> \o res, {})
  BY ONLY <1>2, <1>3, <1>5, <1>6, DepthReturns
<1>8. QED
  BY <1>3, <1>4, <1>5, <1>7 DEF SortSound

\* The sort gives up: there is no order.
LEMMA CycleFound ==
  ASSUME SortSound, VisitDependent, executing' # executing, list \in Seq(Operations) PROVE ~Acyclic(DependencyGraph(list))
<1>1. PICK g, L, vis, res, grey, stk : g = DependencyGraph(list) /\ L = Range(list) /\ vis = visited /\ res = result
                                       /\ grey = visiting /\ stk = stack
  OBVIOUS
<1>2. Depth(g, L, stk, grey, vis, res, {}) /\ stk # <<>>
  BY <1>1 DEF SortSound, VisitDependent
<1>3. PICK o : o \in Head(stk).left /\ o \in grey
  BY <1>1 DEF VisitDependent
<1>4. o \in L
  BY <1>2, <1>3 DEF Depth, SortSets
<1>5. Len(list) \in Nat
  BY LenProperties
<1>6. ASSUME NEW rank \in [L -> 1..Len(list)], \A edge \in g : rank[edge[1]] < rank[edge[2]] PROVE FALSE
  <2>1. Ranked(g, L, rank)
    BY <1>6 DEF Ranked
  <2>2. QED
    BY ONLY <1>2, <1>3, <1>4, <1>5, <2>1, rank \in [L -> 1..Len(list)], DepthCycle
<1>7. QED
  BY <1>1, <1>6 DEF Acyclic

\* The sort is done: its result is an order.
LEMMA SortedAcyclic ==
  ASSUME SortSound, list \in Seq(Operations), Range(list) \subseteq visited PROVE Acyclic(DependencyGraph(list))
<1>1. PICK g, L, res, n, s : /\ g = DependencyGraph(list) /\ L = Range(list) /\ res = result /\ n = Len(list) /\ s = list
                             /\ \E stk, grey : Depth(g, L, stk, grey, visited, res, {})
  BY DEF SortSound
<1>2. /\ g \subseteq L \X L /\ Before(g, L, res) /\ res \in Seq(L) /\ n \in Nat
      /\ \A o \in L : \E i \in 1..Len(res) : res[i] = o
  BY <1>1, GraphEdges, LenProperties DEF Depth, SortSets
<1>3. PICK m \in Nat : m = Len(res)
  BY <1>2, LenProperties
<1>4. \A i \in 1..m : res[i] \in L /\ \E k \in 1..n : s[k] = res[i]
  <2>1. DOMAIN s = 1..n
    BY <1>1
  <2>2. \A o \in L : \E k \in 1..n : s[k] = o
    BY <1>1, <2>1 DEF Range
  <2>3. \A i \in 1..m : res[i] \in L
    BY <1>2, <1>3
  <2>4. QED
    BY <2>2, <2>3
<1>5. m <= n
  <2> DEFINE f == [i \in 1..m |-> CHOOSE k \in 1..n : s[k] = res[i]]
  <2>1. \A i \in 1..m : f[i] \in 1..n /\ s[f[i]] = res[i]
    BY <1>4
  <2>2. \A i, j \in 1..m : f[i] = f[j] => i = j
    <3> SUFFICES ASSUME NEW i \in 1..m, NEW j \in 1..m, f[i] = f[j] PROVE i = j
      OBVIOUS
    <3> HIDE DEF f
    <3>1. res[i] = res[j]
      BY <2>1
    <3>2. QED
      BY <1>2, <1>3, <3>1 DEF Before
  <2>3. f \in Injection(1..m, 1..n)
    <3>1. f \in [1..m -> 1..n] /\ DOMAIN f = 1..m
      BY <2>1
    <3> HIDE DEF f
    <3>2. QED
      BY <2>2, <3>1 DEF Injection, IsInjective
  <2>4. PICK h \in Injection(1..m, 1..n) : TRUE
    BY <2>3
  <2>5. IsFiniteSet(1..n) /\ Cardinality(1..n) = n /\ Cardinality(1..m) = m
    BY <1>2, FS_Interval
  <2>6. Cardinality(1..m) <= Cardinality(1..n)
    BY ONLY h \in Injection(1..m, 1..n), <2>5, FS_Injection
  <2>7. QED
    BY <2>5, <2>6
<1>6. PICK rank : rank = [o \in L |-> CHOOSE i \in 1..m : res[i] = o]
  OBVIOUS
<1>7. \A o \in L : rank[o] \in 1..m /\ res[rank[o]] = o
  BY <1>2, <1>3, <1>6
<1>8. rank \in [L -> 1..n]
  <2>1. \A o \in L : rank[o] \in 1..n
    <3>1. 1..m \subseteq 1..n
      BY <1>2, <1>5
    <3>2. QED
      BY <1>7, <3>1
  <2>2. QED
    BY <1>6, <2>1
<1>9. ASSUME NEW edge \in g PROVE rank[edge[1]] < rank[edge[2]]
  <2>1. PICK d \in L, o \in L : edge = <<d, o>>
    BY <1>2, <1>9
  <2>2. PICK i \in 1..m, j \in 1..m : i = rank[d] /\ j = rank[o] /\ res[i] = d /\ res[j] = o
    BY <1>7
  <2>3. <<res[i], res[j]>> \in g
    BY <2>1, <2>2
  <2>4. i < j
    BY <1>2, <1>3, <2>3 DEF Before
  <2>5. QED
    BY <2>1, <2>2, <2>4
<1>10. QED
  BY <1>1, <1>8, <1>9 DEF Acyclic

-----------------------------------------------------------------------------
(* The steps.                                                              *)

\* Every step keeps the types ...
LEMMA PipeTypeKeeps ==
  ASSUME PipeInv, PipeNext PROVE PipeTypeOK'
<1>0. PipeTypeOK
  BY DEF PipeInv
<1>1. CASE CreatePipeline
  BY <1>0, <1>1 DEF PipeTypeOK, CreatePipeline, inputs, sortVars
<1>2. CASE ExecuteStarts
  BY <1>0, <1>2 DEF PipeTypeOK, ExecuteStarts, inputs, sortVars, PipePCs
<1>3. CASE ExecuteReads
  BY <1>0, <1>3 DEF PipeTypeOK, ExecuteReads, inputs, PipePCs
<1>4. CASE SortVisits
  BY <1>0, <1>4 DEF PipeTypeOK, SortVisits, inputs
<1>5. CASE VisitDependent
  <2>1. executing' = executing \/ executing' = [executing EXCEPT !.pc = "cycle"]
    BY <1>5 DEF VisitDependent
  <2>2. UNCHANGED <<operations, list, begun, optimize, cancelled, after>>
    BY <1>5 DEF VisitDependent, inputs
  <2>3. QED
    BY <1>0, <2>1, <2>2 DEF PipeTypeOK, PipePCs
<1>6. CASE VisitReturns
  BY <1>0, <1>6 DEF PipeTypeOK, VisitReturns, Leave, inputs
<1>7. CASE SortReturns
  <2>1. result \in Seq(Operations)
    <3>1. result \in Seq(Range(list))
      BY DEF PipeInv, SortSound, Depth, SortSets
    <3>2. Range(list) \subseteq Operations
      BY <1>0 DEF PipeTypeOK, Range
    <3>3. QED
      BY <3>1, <3>2
  <2>2. executing' \in [pc : PipePCs, todo : Seq(Operations)]
    BY <1>7, <2>1 DEF SortReturns, PipePCs
  <2>3. QED
    BY <1>0, <1>7, <2>2 DEF PipeTypeOK, SortReturns, inputs, sortVars
<1>8. CASE ExecuteChecks
  BY <1>0, <1>8 DEF PipeTypeOK, ExecuteChecks, inputs, sortVars, PipePCs
<1>9. CASE ExecuteOperation
  <2>1. executing.pc = "operation" /\ executing.todo # <<>> /\ after = 0 /\ executing.todo \in Seq(Operations)
    BY <1>0, <1>9 DEF PipeInv, RunStages, ExecuteOperation, PipeTypeOK
  <2>2. Head(executing.todo) \in Operations /\ Tail(executing.todo) \in Seq(Operations) /\ <<>> \in Seq(Operations)
    BY <2>1, HeadTailProperties
  <2>3. begun' \in Seq(Operations)
    <3>1. begun \in Seq(Operations) /\ begun' = Append(begun, Head(executing.todo))
      BY <1>0, <1>9 DEF PipeTypeOK, ExecuteOperation
    <3>2. QED
      BY <2>2, <3>1, AppendProperties, Zenon
  <2>4. executing' \in [pc : PipePCs, todo : Seq(Operations)] /\ after' \in {0, 1}
    <3>1. executing' \in {[pc |-> "loop", todo |-> Tail(executing.todo)], [pc |-> "fail", todo |-> <<>>]}
          /\ after' \in {after, after + 1}
      BY <1>9 DEF ExecuteOperation
    <3>2. PICK t \in Seq(Operations) : t = Tail(executing.todo)
      BY <2>2
    <3>3. executing' = [pc |-> "loop", todo |-> t] \/ executing' = [pc |-> "fail", todo |-> <<>>]
      BY <3>1, <3>2
    <3>4. executing' \in [pc : PipePCs, todo : Seq(Operations)]
      <4>1. CASE executing' = [pc |-> "loop", todo |-> t]
        BY <4>1 DEF PipePCs
      <4>2. CASE executing' = [pc |-> "fail", todo |-> <<>>]
        BY <2>2, <4>2 DEF PipePCs
      <4>3. QED
        BY <3>3, <4>1, <4>2
    <3>5. after' = 0 \/ after' = 1
      BY <2>1, <3>1
    <3>6. QED
      BY <3>4, <3>5
  <2>5. QED
    BY <1>0, <1>9, <2>3, <2>4 DEF PipeTypeOK, ExecuteOperation, inputs, sortVars
<1>10. CASE ExecuteEnds
  BY <1>0, <1>10 DEF PipeTypeOK, ExecuteEnds, inputs, sortVars, PipePCs
<1>11. CASE CancelPipeline
  BY <1>0, <1>11 DEF PipeTypeOK, CancelPipeline, inputs, sortVars
<1>12. ASSUME NEW o \in Operations, AddChecks(o) \/ AddAppends(o) PROVE PipeTypeOK'
  <2>1. operations' = operations \/ operations' = Append(operations, o)
    BY <1>12 DEF AddChecks, AddAppends
  <2>2. operations' \in Seq(Operations)
    <3>1. operations \in Seq(Operations)
      BY <1>0 DEF PipeTypeOK
    <3>2. Append(operations, o) \in Seq(Operations)
      BY <3>1, AppendProperties, Zenon
    <3>3. QED
      BY <2>1, <3>1, <3>2
  <2>3. QED
    BY <1>0, <1>12, <2>2 DEF PipeTypeOK, AddChecks, AddAppends, inputs, sortVars
<1>13. QED
  BY <1>1, <1>2, <1>3, <1>4, <1>5, <1>6, <1>7, <1>8, <1>9, <1>10, <1>11, <1>12 DEF PipeNext

\* ... what the sort has done so far ...
LEMMA SortSoundKeeps ==
  ASSUME PipeInv, PipeNext PROVE SortSound'
<1>0. SortSound
  BY DEF PipeInv
<1>1. ASSUME UNCHANGED <<inputs, sortVars>> PROVE SortSound'
  BY <1>0, <1>1, SortSame
<1>2. CASE CreatePipeline \/ ExecuteStarts \/ SortReturns \/ ExecuteChecks \/ ExecuteOperation \/ ExecuteEnds \/ CancelPipeline
  BY <1>1, <1>2 DEF CreatePipeline, ExecuteStarts, SortReturns, ExecuteChecks, ExecuteOperation, ExecuteEnds, CancelPipeline
<1>3. CASE ExecuteReads
  <2>1. stack' = <<>> /\ visiting' = {} /\ visited' = {} /\ result' = <<>>
    BY <1>3 DEF PipeInv, NothingYet, ExecuteReads
  <2>2. QED
    BY <2>1, DepthEmpty DEF SortSound
<1>4. ASSUME NEW o \in Operations, AddChecks(o) \/ AddAppends(o) PROVE SortSound'
  BY <1>1, <1>4 DEF AddChecks, AddAppends
<1>5. QED
  BY <1>0, <1>2, <1>3, <1>4, StartsSound, VisitSound, ReturnSound DEF PipeNext

\* ... that nothing is begun before the list is sorted ...
LEMMA NothingYetKeeps ==
  ASSUME PipeInv, PipeNext PROVE NothingYet'
<1>0. NothingYet /\ executing \in [pc : PipePCs, todo : Seq(Operations)]
  BY DEF PipeInv, PipeTypeOK
<1>1. CASE CreatePipeline \/ ExecuteStarts \/ CancelPipeline
  BY <1>0, <1>1 DEF NothingYet, CreatePipeline, ExecuteStarts, CancelPipeline, sortVars
<1>2. CASE ExecuteReads \/ SortReturns
  BY <1>0, <1>2 DEF NothingYet, ExecuteReads, SortReturns
<1>3. CASE SortVisits \/ VisitReturns
  BY <1>0, <1>3 DEF NothingYet, SortVisits, VisitReturns, Leave
<1>4. CASE VisitDependent
  <2>1. executing'.pc \in {"sort", "cycle"}
    BY <1>0, <1>4 DEF VisitDependent
  <2>2. QED
    BY <2>1 DEF NothingYet
<1>5. CASE ExecuteChecks \/ ExecuteEnds
  BY <1>0, <1>5 DEF NothingYet, ExecuteChecks, ExecuteEnds
<1>6. CASE ExecuteOperation
  <2>1. executing'.pc \in {"loop", "fail"}
    BY <1>6 DEF ExecuteOperation
  <2>2. QED
    BY <2>1 DEF NothingYet
<1>7. ASSUME NEW o \in Operations, AddChecks(o) \/ AddAppends(o) PROVE NothingYet'
  BY <1>0, <1>7 DEF NothingYet, AddChecks, AddAppends, sortVars
<1>8. QED
  BY <1>1, <1>2, <1>3, <1>4, <1>5, <1>6, <1>7 DEF PipeNext

\* ... where the sort stands ...
LEMMA SortingKeeps ==
  ASSUME PipeInv, PipeNext PROVE Sorting'
<1>0. Sorting /\ NothingYet /\ executing \in [pc : PipePCs, todo : Seq(Operations)] /\ list \in Seq(Operations) /\ optimize \in BOOLEAN
  BY DEF PipeInv, PipeTypeOK
<1>1. ASSUME UNCHANGED <<inputs, list, begun, executing>> PROVE Sorting'
  BY <1>0, <1>1, GraphSame DEF Sorting, inputs
<1>2. CASE CreatePipeline \/ SortVisits \/ VisitReturns \/ CancelPipeline
  BY <1>1, <1>2 DEF CreatePipeline, SortVisits, VisitReturns, Leave, CancelPipeline, sortVars
<1>3. ASSUME NEW o \in Operations, AddChecks(o) \/ AddAppends(o) PROVE Sorting'
  BY <1>1, <1>3 DEF AddChecks, AddAppends, sortVars
<1>4. CASE ExecuteStarts
  <2>1. executing.pc = "no" /\ executing'.pc = "started" /\ UNCHANGED begun
    BY <1>0, <1>4 DEF ExecuteStarts
  <2>2. QED
    BY <1>0, <2>1 DEF Sorting, RunPCs
<1>5. CASE ExecuteReads
  <2>1. executing.pc = "started" /\ UNCHANGED <<begun, optimize>> /\ executing'.pc = IF optimize THEN "sort" ELSE "loop"
    BY <1>0, <1>5 DEF ExecuteReads, inputs
  <2>2. QED
    BY <1>0, <2>1 DEF Sorting, RunPCs
<1>6. CASE VisitDependent
  <2>1. UNCHANGED <<inputs, list, begun>> /\ executing.pc = "sort"
    BY <1>6 DEF VisitDependent
  <2>2. CASE executing' = executing
    BY <1>1, <2>1, <2>2
  <2>3. CASE executing' # executing
    <3>1. ~Acyclic(DependencyGraph(list))
      BY <1>0, <1>6, <2>3, CycleFound DEF PipeInv
    <3>2. executing'.pc = "cycle"
      BY <1>0, <1>6, <2>3 DEF VisitDependent
    <3>3. QED
      BY <1>0, <2>1, <3>1, <3>2, GraphSame DEF Sorting, inputs, RunPCs
  <2>4. QED
    BY <2>2, <2>3
<1>7. CASE SortReturns \/ ExecuteChecks
  <2>1. executing'.pc \in RunPCs
    BY <1>0, <1>7 DEF SortReturns, ExecuteChecks, RunPCs
  <2>2. QED
    BY <2>1 DEF Sorting, RunPCs
<1>8. CASE ExecuteOperation
  <2>1. executing'.pc \in RunPCs
    BY <1>8 DEF ExecuteOperation, RunPCs
  <2>2. QED
    BY <2>1 DEF Sorting, RunPCs
<1>9. CASE ExecuteEnds
  <2>1. /\ executing.pc = "cycle" => executing'.pc = "returnedCycle"
        /\ executing.pc # "cycle" => executing'.pc = "returned"
        /\ UNCHANGED <<inputs, list, begun>>
    BY <1>0, <1>9 DEF ExecuteEnds, sortVars
  <2>2. CASE executing.pc = "cycle"
    BY <1>0, <2>1, <2>2, GraphSame DEF Sorting, RunPCs
  <2>3. CASE executing.pc # "cycle"
    BY <2>1, <2>3 DEF Sorting, RunPCs
  <2>4. QED
    BY <2>2, <2>3
<1>10. QED
  BY <1>2, <1>3, <1>4, <1>5, <1>6, <1>7, <1>8, <1>9 DEF PipeNext

\* ... what has been begun at each stage ...
LEMMA RunStagesKeeps ==
  ASSUME PipeInv, PipeNext PROVE RunStages'
<1>0. RunStages /\ executing \in [pc : PipePCs, todo : Seq(Operations)] /\ after \in {0, 1}
  BY DEF PipeInv, PipeTypeOK
<1>1. CASE CreatePipeline \/ SortVisits \/ VisitReturns
  BY <1>0, <1>1 DEF RunStages, CreatePipeline, SortVisits, VisitReturns, Leave
<1>2. ASSUME NEW o \in Operations, AddChecks(o) \/ AddAppends(o) PROVE RunStages'
  BY <1>0, <1>2 DEF RunStages, AddChecks, AddAppends
<1>3. CASE ExecuteStarts \/ ExecuteReads \/ SortReturns
  <2>1. /\ executing'.pc \in {"started", "sort", "loop"} /\ UNCHANGED <<after, cancelled>>
        /\ status' \in {status, "running"} /\ executing.pc \in {"no", "started", "sort"}
    BY <1>0, <1>3 DEF ExecuteStarts, ExecuteReads, SortReturns
  <2>2. QED
    BY <1>0, <2>1 DEF RunStages
<1>4. CASE VisitDependent
  <2>1. executing.pc = "sort" /\ executing'.pc \in {"sort", "cycle"} /\ UNCHANGED <<after, cancelled, status>>
    BY <1>0, <1>4 DEF VisitDependent
  <2>2. QED
    BY <1>0, <2>1 DEF RunStages
<1>5. CASE ExecuteChecks
  <2>1. /\ executing.pc = "loop" /\ UNCHANGED <<after, cancelled, status>> /\ executing'.todo = executing.todo
        /\ executing'.pc = IF executing.todo = <<>> THEN "complete" ELSE IF cancelled THEN "fail" ELSE "operation"
    BY <1>0, <1>5 DEF ExecuteChecks
  <2>2. QED
    BY <1>0, <2>1 DEF RunStages
<1>6. CASE ExecuteOperation
  <2>1. executing.pc = "operation" /\ executing'.pc \in {"loop", "fail"} /\ UNCHANGED <<cancelled, status>>
        /\ after' = IF cancelled THEN after + 1 ELSE after
    BY <1>6 DEF ExecuteOperation
  <2>2. QED
    BY <1>0, <2>1 DEF RunStages
<1>7. CASE ExecuteEnds
  <2>1. /\ executing.pc \in {"complete", "cycle", "fail"} /\ UNCHANGED <<after, cancelled>> /\ executing'.todo = executing.todo
        /\ executing'.pc = IF executing.pc = "cycle" THEN "returnedCycle" ELSE "returned"
        /\ status' = IF executing.pc = "complete" THEN "completed" ELSE "failed"
    BY <1>0, <1>7 DEF ExecuteEnds
  <2>2. QED
    BY <1>0, <2>1 DEF RunStages
<1>8. CASE CancelPipeline
  BY <1>0, <1>8 DEF RunStages, CancelPipeline
<1>9. QED
  BY <1>1, <1>2, <1>3, <1>4, <1>5, <1>6, <1>7, <1>8 DEF PipeNext

\* The next operation goes from what is left to what was begun.
LEMMA HeadMoves ==
  ASSUME NEW S, NEW b \in Seq(S), NEW t \in Seq(S), t # <<>>
  PROVE  Append(b, Head(t)) \o Tail(t) = b \o t
OBVIOUS

\* ... and that what was begun and what is left make up the order.
LEMMA RunningKeeps ==
  ASSUME PipeInv, PipeNext PROVE Running'
<1>0. /\ Running /\ Sorting /\ RunStages /\ executing \in [pc : PipePCs, todo : Seq(Operations)]
      /\ operations \in Seq(Operations) /\ begun \in Seq(Operations) /\ optimize \in BOOLEAN
  BY DEF PipeInv, PipeTypeOK
<1>1. ASSUME UNCHANGED <<inputs, sortVars, begun, executing>>, status' = status \/ status' # "completed" PROVE Running'
  BY <1>0, <1>1 DEF Running, Order, inputs, sortVars, Range
<1>2. CASE CreatePipeline \/ CancelPipeline
  BY <1>1, <1>2 DEF CreatePipeline, CancelPipeline
<1>3. ASSUME NEW o \in Operations, AddChecks(o) \/ AddAppends(o) PROVE Running'
  BY <1>1, <1>3 DEF AddChecks, AddAppends
<1>4. CASE ExecuteStarts \/ SortVisits \/ VisitReturns \/ VisitDependent
  <2>1. executing'.pc \in {"started", "sort", "cycle"}
    BY <1>0, <1>4 DEF ExecuteStarts, SortVisits, VisitReturns, Leave, VisitDependent
  <2>2. QED
    BY <2>1 DEF Running, RunPCs
<1>5. CASE ExecuteReads
  <2>1. begun' = <<>> /\ list' = operations /\ UNCHANGED optimize
    BY <1>0, <1>5 DEF ExecuteReads, Sorting, RunPCs, inputs
  <2>2. CASE optimize
    <3>1. executing'.pc = "sort"
      BY <1>0, <1>5, <2>2 DEF ExecuteReads
    <3>2. QED
      BY <3>1 DEF Running, RunPCs
  <2>3. CASE ~optimize
    <3>1. executing'.todo = operations
      BY <1>5, <2>3 DEF ExecuteReads
    <3>2. <<>> \o operations = operations
      BY <1>0, ConcatEmptySeq
    <3>3. Order' = begun' \o operations
      BY <2>1, <2>3, <3>2 DEF Order
    <3>4. QED
      BY <1>0, <2>1, <2>3, <3>1, <3>3 DEF Running
  <2>4. QED
    BY <2>2, <2>3
<1>6. CASE SortReturns
  <2>1. /\ begun' = <<>> /\ optimize' /\ executing'.todo = result /\ UNCHANGED <<list, visited, result>>
        /\ Range(list) \subseteq visited
    BY <1>0, <1>6 DEF SortReturns, Sorting, RunPCs, inputs, sortVars
  <2>2. result \in Seq(Operations)
    BY <1>6, PipeTypeKeeps, <2>1 DEF PipeTypeOK
  <2>3. <<>> \o result = result
    BY <2>2, ConcatEmptySeq
  <2>4. Order' = begun' \o result
    BY <2>1, <2>3 DEF Order
  <2>5. Range(list)' \subseteq visited'
    BY <2>1 DEF Range
  <2>6. QED
    BY <2>1, <2>2, <2>4, <2>5 DEF Running
<1>7. CASE ExecuteChecks
  <2>1. /\ executing.pc = "loop" /\ executing'.todo = executing.todo /\ UNCHANGED <<optimize, list, visited, result, begun, status>>
    BY <1>0, <1>7 DEF ExecuteChecks, inputs, sortVars
  <2>2. Order' = Order /\ Range(list)' = Range(list)
    BY <2>1 DEF Order, Range
  <2>3. /\ optimize => Range(list) \subseteq visited
        /\ executing.todo \in Seq(Operations) /\ Order = begun \o executing.todo
    BY <1>0, <2>1 DEF Running, RunPCs
  <2>4. QED
    BY <2>1, <2>2, <2>3 DEF Running
<1>8. CASE ExecuteOperation
  <2>1. /\ executing.pc = "operation" /\ executing.todo # <<>> /\ UNCHANGED <<optimize, list, visited, result, status>>
        /\ begun' = Append(begun, Head(executing.todo))
    BY <1>0, <1>8 DEF ExecuteOperation, inputs, sortVars, RunStages
  <2>2. PICK b \in Seq(Operations), t \in Seq(Operations) : b = begun /\ t = executing.todo
    BY <1>0
  <2>3. PICK u \in Seq(Operations), h \in Operations : u = Tail(t) /\ h = Head(t)
    BY <2>1, <2>2, HeadTailProperties
  <2>4. Append(b, h) \o u = b \o t
    <3>1. Append(b, Head(t)) \o Tail(t) = b \o t
      <4>1. t # <<>>
        BY <2>1, <2>2
      <4>2. QED
        BY ONLY <4>1, b \in Seq(Operations), t \in Seq(Operations), HeadMoves
    <3>2. QED
      BY <2>3, <3>1
  <2>5. executing' = [pc |-> "loop", todo |-> u] \/ executing' = [pc |-> "fail", todo |-> <<>>]
    BY <1>8, <2>2, <2>3 DEF ExecuteOperation
  <2>6. /\ optimize => Range(list) \subseteq visited
        /\ Order = b \o t
    BY <1>0, <2>1, <2>2 DEF Running, RunPCs
  <2>7. Order' = begun' \o u /\ Range(list)' = Range(list)
    BY <2>1, <2>2, <2>3, <2>4, <2>6 DEF Order, Range
  <2>8. status' # "completed"
    BY <1>0, <2>1 DEF RunStages
  <2>9. executing'.pc \in {"loop", "operation", "complete"} \/ status' = "completed" => u = executing'.todo
    BY <2>5, <2>8
  <2>10. QED
    BY <2>1, <2>6, <2>7, <2>9 DEF Running
<1>9. CASE ExecuteEnds
  <2>1. /\ UNCHANGED <<optimize, list, visited, result, begun>> /\ executing'.todo = executing.todo
        /\ executing.pc \in {"complete", "cycle", "fail"}
        /\ executing'.pc = IF executing.pc = "cycle" THEN "returnedCycle" ELSE "returned"
        /\ status' = IF executing.pc = "complete" THEN "completed" ELSE "failed"
    BY <1>0, <1>9 DEF ExecuteEnds, inputs, sortVars
  <2>2. Order' = Order /\ Range(list)' = Range(list)
    BY <2>1 DEF Order, Range
  <2>3. CASE executing.pc = "cycle"
    BY <2>1, <2>3 DEF Running, RunPCs
  <2>4. CASE executing.pc # "cycle"
    <3>1. PICK rest \in Seq(Operations) : Order = begun \o rest /\ (executing.pc = "complete" => rest = executing.todo)
      BY <1>0, <2>1, <2>4 DEF Running, RunPCs
    <3>2. optimize => Range(list) \subseteq visited
      BY <1>0, <2>1, <2>4 DEF Running, RunPCs
    <3>3. executing'.pc \in {"loop", "operation", "complete"} \/ status' = "completed" => rest = executing'.todo
      BY <2>1, <2>4, <3>1
    <3>4. QED
      BY <2>1, <2>2, <3>1, <3>2, <3>3 DEF Running
  <2>5. QED
    BY <2>3, <2>4
<1>10. QED
  BY <1>2, <1>3, <1>4, <1>5, <1>6, <1>7, <1>8, <1>9 DEF PipeNext

\* Every step keeps the invariant.
LEMMA PipeInvKeeps ==
  ASSUME PipeInv, [PipeNext]_pipeVars PROVE PipeInv'
<1>1. CASE PipeNext
  BY <1>1, PipeTypeKeeps, SortSoundKeeps, NothingYetKeeps, SortingKeeps, RunStagesKeeps, RunningKeeps DEF PipeInv
<1>2. CASE UNCHANGED pipeVars
  <2>1. SortSound'
    <3>1. UNCHANGED <<inputs, sortVars>>
      BY <1>2 DEF pipeVars, inputs, sortVars
    <3>2. QED
      BY <3>1, SortSame DEF PipeInv
  <2>2. PipeTypeOK' /\ NothingYet' /\ RunStages'
    BY <1>2 DEF PipeInv, pipeVars, sortVars, inputs, PipeTypeOK, NothingYet, RunStages
  <2>3. Sorting'
    <3>1. UNCHANGED <<executing, begun, optimize>> /\ (Acyclic(DependencyGraph(list))' <=> Acyclic(DependencyGraph(list)))
      BY <1>2, GraphSame DEF pipeVars, inputs, sortVars
    <3>2. QED
      BY <3>1 DEF PipeInv, Sorting
  <2>4. Running'
    BY <1>2 DEF PipeInv, pipeVars, sortVars, inputs, Running, Order, Range
  <2>5. QED
    BY <2>1, <2>2, <2>3, <2>4 DEF PipeInv
<1>3. QED
  BY <1>1, <1>2

\* Every operation is begun after those it depends on, wherever the sort starts,
\* and a cycle is reported if and only if there is one.
LEMMA DependenciesInv ==
  ASSUME PipeInv PROVE DependenciesFirst
<1> SUFFICES ASSUME optimize PROVE DependenciesFirst
  BY DEF DependenciesFirst
<1>1. PICK g, L, res, b : g = DependencyGraph(list) /\ L = Range(list) /\ res = result /\ b = begun
  OBVIOUS
<1>2. list \in Seq(Operations) /\ b \in Seq(Operations) /\ Sorting /\ SortSound
  BY <1>1 DEF PipeInv, PipeTypeOK
<1>3. /\ g \subseteq L \X L /\ res \in Seq(L) /\ Before(g, L, res)
      /\ \A o \in L : o \in visited => \E i \in 1..Len(res) : res[i] = o
  BY <1>1, <1>2, GraphEdges DEF SortSound, Depth, SortSets
<1>4. executing.pc \in RunPCs => Acyclic(g)
  BY <1>1, <1>2, SortedAcyclic DEF PipeInv, Running
<1>5. ASSUME NEW i \in DOMAIN b, NEW d \in Operations, <<d, b[i]>> \in g PROVE \E j \in 1..(i - 1) : b[j] = d
  <2>1. executing.pc \in RunPCs
    BY <1>1, <1>2, <1>5 DEF Sorting
  <2>2. PICK rest \in Seq(Operations) : res = b \o rest
    BY <1>1, <2>1 DEF PipeInv, Running, Order
  <2>3. PICK n \in Nat, m \in Nat : n = Len(b) /\ m = Len(res) /\ n <= m /\ \A k \in 1..n : res[k] = b[k]
    <3>1. Len(b) \in Nat /\ Len(rest) \in Nat /\ Len(b \o rest) = Len(b) + Len(rest) /\ \A k \in 1..Len(b) : (b \o rest)[k] = b[k]
      BY <1>2, ConcatProperties, LenProperties
    <3>2. QED
      BY <2>2, <3>1
  <2>4. i \in 1..n /\ d \in L /\ d \in visited
    <3>1. d \in L
      BY <1>3, <1>5
    <3>2. L \subseteq visited
      BY <1>1, <2>1 DEF PipeInv, Running
    <3>3. QED
      BY <1>2, <1>5, <2>3, <3>1, <3>2
  <2>5. PICK j \in 1..m : res[j] = d
    BY <1>3, <2>3, <2>4
  <2>6. i \in 1..m /\ <<res[j], res[i]>> \in g
    BY <1>5, <2>3, <2>4, <2>5, SMTT(40)
  <2>7. j < i
    BY <1>3, <2>3, <2>6 DEF Before
  <2>8. j \in 1..(i - 1) /\ j \in 1..n
    BY <2>4, <2>7
  <2>9. QED
    BY <2>3, <2>5, <2>8
<1>6. executing.pc \in {"cycle", "returnedCycle"} => ~Acyclic(g)
  BY <1>1, <1>2 DEF Sorting
<1>7. executing.pc \notin {"no", "started", "sort", "cycle", "returnedCycle"} => executing.pc \in RunPCs
  BY DEF PipeInv, PipeTypeOK, PipePCs, RunPCs
<1>8. QED
  BY <1>1, <1>4, <1>5, <1>6, <1>7 DEF DependenciesFirst

\* What the invariant says of a cancel.
LEMMA CancelInv ==
  ASSUME PipeInv PROVE CancelStops
<1>1. after <= 1
  BY DEF PipeInv, PipeTypeOK
<1>2. ASSUME status = "completed" PROVE Range(begun) = Range(list)
  <2>1. executing.pc = "returned" /\ executing.todo = <<>>
    BY <1>2 DEF PipeInv, RunStages
  <2>2. Order = begun \o <<>> /\ (optimize => Range(list) \subseteq visited)
    BY <1>2, <2>1 DEF PipeInv, Running, RunPCs
  <2>3. begun \o <<>> = begun
    BY ConcatEmptySeq DEF PipeInv, PipeTypeOK
  <2>4. CASE optimize
    <3>1. begun = result
      BY <2>2, <2>3, <2>4 DEF Order
    <3>2. /\ result \in Seq(Range(list))
          /\ \A o \in Range(list) : o \in visited => \E i \in 1..Len(result) : result[i] = o
      BY DEF PipeInv, SortSound, Depth, SortSets
    <3>3. \A o \in Range(list) : \E i \in 1..Len(result) : result[i] = o
      BY <2>2, <2>4, <3>2
    <3>4. PICK L : L = Range(list)
      OBVIOUS
    <3>5. PICK r \in Seq(L) : r = result
      BY <3>2, <3>4
    <3>6. Range(r) = L
      BY <3>3, <3>4, <3>5 DEF Range
    <3>7. QED
      BY <3>1, <3>4, <3>5, <3>6
  <2>5. CASE ~optimize
    BY <2>2, <2>3, <2>5 DEF Order
  <2>6. QED
    BY <2>4, <2>5 DEF PipeInv, PipeTypeOK
<1>3. QED
  BY <1>1, <1>2 DEF CancelStops

\* An operation is begun after every operation it depends on, whatever order the map
\* yields the operations in, and the sort reports a cycle exactly when there is one
\* (pipelining.go:259-343).
THEOREM DependenciesRunFirst == PipeSpec => []DependenciesFirst
<1>1. PipeInit => PipeInv
  BY SortInit
<1>2. PipeInv /\ [PipeNext]_pipeVars => PipeInv'
  BY PipeInvKeeps
<1>3. PipeInv => DependenciesFirst
  BY DependenciesInv
<1>4. QED
  BY <1>1, <1>2, <1>3, PTL DEF PipeSpec

\* After a cancel at most one operation is begun, the one that had passed the check,
\* and a completed pipeline has begun all that its list held (pipelining.go:224-256,
\* 354-371, 448-469).
THEOREM CancelledPipelinesStop == PipeSpec => []CancelStops
<1>1. PipeInit => PipeInv
  BY SortInit
<1>2. PipeInv /\ [PipeNext]_pipeVars => PipeInv'
  BY PipeInvKeeps
<1>3. PipeInv => CancelStops
  BY CancelInv
<1>4. QED
  BY <1>1, <1>2, <1>3, PTL DEF PipeSpec
==============================================================================
