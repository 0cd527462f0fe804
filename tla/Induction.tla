------------------------------- MODULE Induction -------------------------------
(***************************************************************************)
(* What the proofs need of induction over the naturals, in a form that has  *)
(* sets for predicates, and of the operators of the community modules whose *)
(* definitions are recursive.                                               *)
(***************************************************************************)
EXTENDS Integers, Sequences, FiniteSets, SequencesExt, WellFoundedInduction, SequenceTheorems, FiniteSetTheorems, TLAPS

\* A set of naturals that is not empty has a least element.
LEMMA Least ==
  ASSUME NEW T, T \subseteq Nat, T # {}
  PROVE  \E n \in T : \A m \in T : n <= m
<1> DEFINE Below == {ss \in Nat \X Nat : ss[1] < ss[2]}
<1>1. IsWellFoundedOn(Below, Nat)
  BY NatLessThanWellFounded DEF OpToRel
<1> HIDE DEF Below
<1>2. PICK n \in T : \A m \in T : ~ (<<m, n>> \in Below)
  BY <1>1, WFMin
<1>3. ASSUME NEW m \in T, m < n PROVE <<m, n>> \in Below
  BY <1>3 DEF Below
<1>4. \A m \in T : ~(m < n)
  BY <1>2, <1>3
<1>5. \A m \in T : m \in Int /\ n \in Int
  OBVIOUS
<1>6. QED
  BY <1>4, <1>5

\* Induction: a set with zero and with every successor has all naturals.
LEMMA Induct ==
  ASSUME NEW T, 0 \in T, \A n \in Nat : n \in T => n + 1 \in T
  PROVE  Nat \subseteq T
<1> SUFFICES ASSUME Nat \ T # {} PROVE FALSE
  OBVIOUS
<1>1. PICK n \in Nat \ T : \A m \in Nat \ T : n <= m
  BY Least
<1>2. n # 0 /\ n - 1 \in Nat /\ ~(n <= n - 1)
  BY <1>1
<1>3. QED
  BY <1>1, <1>2

\* A function on 1..n is a sequence.
LEMMA FunctionIsSeq ==
  ASSUME NEW S, NEW n \in Nat, NEW f \in [1..n -> S]
  PROVE  f \in Seq(S) /\ Len(f) = n
OBVIOUS

\* Max, by what it is the greatest of.
LEMMA MaxIs ==
  ASSUME NEW S \in SUBSET Int, NEW m \in S, \A x \in S : x <= m
  PROVE  Max(S) = m
<1>1. \A x \in S : (\A y \in S : x >= y) => x = m
  OBVIOUS
<1>2. \A y \in S : m >= y
  OBVIOUS
<1>3. QED
  BY <1>1, <1>2 DEF Max

\* A bounded set of naturals that is not empty has a greatest element.
LEMMA Greatest ==
  ASSUME NEW S \in SUBSET Nat, S # {}, NEW b \in Nat, \A x \in S : x <= b
  PROVE  Max(S) \in S /\ \A x \in S : x <= Max(S)
<1> DEFINE T == {n \in Nat : \A x \in S : x <= n}
<1>1. PICK n \in T : \A m \in T : n <= m
  BY Least
<1>2. n \in S
  <2> SUFFICES ASSUME n \notin S PROVE FALSE
    OBVIOUS
  <2>1. \A x \in S : x \in Nat /\ x <= n /\ x # n
    OBVIOUS
  <2>2. n # 0
    <3>1. PICK x \in S : TRUE
      OBVIOUS
    <3>2. x \in Nat /\ x <= n /\ x # n /\ n \in Nat
      BY <2>1
    <3>3. QED
      BY <3>2
  <2>4. n - 1 \in Nat /\ \A x \in S : x <= n - 1
    BY <2>1, <2>2
  <2>3. QED
    BY <1>1, <2>4
<1>3. QED
  BY <1>1, <1>2, MaxIs

\* Induction over a finite set: a set of sets with every set whose sets with one
\* element less it has.
LEMMA FiniteInduct ==
  ASSUME NEW S, IsFiniteSet(S), NEW F,
         \A T \in SUBSET S : (\A x \in T : T \ {x} \in F) => T \in F
  PROVE  SUBSET S \subseteq F
<1> DEFINE N == {n \in Nat : \A T \in SUBSET S : Cardinality(T) = n => T \in F}
<1>1. 0 \in N
  <2>1. ASSUME NEW T \in SUBSET S, Cardinality(T) = 0 PROVE T \in F
    <3>1. IsFiniteSet(T)
      BY FS_Subset
    <3>2. T = {}
      BY <2>1, <3>1, FS_EmptySet
    <3>3. QED
      BY <3>2
  <2>2. QED
    BY <2>1
<1>2. ASSUME NEW n \in Nat, n \in N PROVE n + 1 \in N
  <2>1. ASSUME NEW T \in SUBSET S, Cardinality(T) = n + 1, NEW x \in T PROVE T \ {x} \in F
    <3>1. IsFiniteSet(T)
      BY FS_Subset
    <3>2. Cardinality(T \ {x}) = Cardinality(T) - 1
      BY <3>1, FS_RemoveElement
    <3>3. Cardinality(T \ {x}) = n
      BY <2>1, <3>2
    <3>4. QED
      BY <1>2, <3>3
  <2>2. \A T \in SUBSET S : Cardinality(T) = n + 1 => T \in F
    BY <2>1
  <2>3. QED
    BY <2>2
<1>3. Nat \subseteq N
  <2> HIDE DEF N
  <2>1. QED
    BY <1>1, <1>2, Induct
<1>4. \A T \in SUBSET S : Cardinality(T) \in Nat
  BY FS_Subset, FS_CardinalityType
<1>5. QED
  BY <1>3, <1>4

\* Two functions on the subsets of a finite set that agree on a set whenever
\* they do on those with one element less.
LEMMA AgreeOnSets ==
  ASSUME NEW S, IsFiniteSet(S), NEW u, NEW w,
         \A T \in SUBSET S : (\A x \in T : u[T \ {x}] = w[T \ {x}]) => u[T] = w[T]
  PROVE  u[S] = w[S]
<1> DEFINE F == {T \in SUBSET S : u[T] = w[T]}
<1>1. \A T \in SUBSET S : (\A x \in T : T \ {x} \in F) => T \in F
  OBVIOUS
<1>2. SUBSET S \subseteq F
  <2> HIDE DEF F
  <2>1. QED
    BY <1>1, FiniteInduct, Zenon
<1>3. QED
  BY <1>2

\* Finitely many naturals have a bound.
LEMMA FiniteBound ==
  ASSUME NEW S, IsFiniteSet(S), NEW f \in [S -> Nat]
  PROVE  \E b \in Nat : \A x \in S : f[x] <= b
<1> DEFINE F == {T \in SUBSET S : \E b \in Nat : \A x \in T : f[x] <= b}
<1>1. ASSUME NEW T \in SUBSET S, \A x \in T : T \ {x} \in F PROVE T \in F
  <2>1. CASE T = {}
    BY <2>1
  <2>2. CASE T # {}
    <3>1. PICK x \in T : TRUE
      BY <2>2
    <3>2. PICK b \in Nat : \A y \in T \ {x} : f[y] <= b
      BY <1>1
    <3>3. f[x] \in Nat /\ \A y \in T : f[y] \in Nat
      OBVIOUS
    <3>4. b + f[x] \in Nat /\ \A y \in T : f[y] <= b + f[x]
      BY <3>2, <3>3
    <3>5. QED
      BY <3>4
  <2>3. QED
    BY <2>1, <2>2
<1>2. SUBSET S \subseteq F
  <2> HIDE DEF F
  <2>1. QED
    BY <1>1, FiniteInduct
<1>3. QED
  BY <1>2

-----------------------------------------------------------------------------
\* One step of the sum that MapThenSumSet makes of r over subsets of S.
SumStep(r, S, w) ==
  [s \in SUBSET S |-> IF s = {} THEN 0 ELSE r[CHOOSE x \in s : TRUE] + w[s \ {CHOOSE x \in s : TRUE}]]

\* The sum of r over S, as MapThenSumSet computes it.
SumOf(r, S) == (CHOOSE w : w = SumStep(r, S, w))[S]

\* The weights of the subsets of S: whichever element one takes away, it makes
\* its difference.
Weights(r, S) ==
  {w \in [SUBSET S -> Nat] : w[{}] = 0 /\ \A s \in SUBSET S : \A x \in s : w[s] = r[x] + w[s \ {x}]}

\* What one element more makes of the weights.
LEMMA WeightsGrow ==
  ASSUME NEW S, NEW m, NEW T, T = S \cup {m}, m \notin S, NEW r, \A x \in T : r[x] \in Nat,
         NEW w \in Weights(r, S)
  PROVE  Weights(r, T) # {}
<1> DEFINE v == [s \in SUBSET T |-> IF m \in s THEN r[m] + w[s \ {m}] ELSE w[s]]
<1>1. /\ w \in [SUBSET S -> Nat] /\ w[{}] = 0 /\ r[m] \in Nat
      /\ \A s \in SUBSET S : \A x \in s : w[s] = r[x] + w[s \ {x}]
  BY DEF Weights
<1>2. \A s \in SUBSET T : /\ s \ {m} \in SUBSET S /\ w[s \ {m}] \in Nat
                          /\ m \notin s => s \in SUBSET S /\ w[s] \in Nat
  <2> TAKE s \in SUBSET T
  <2>1. s \ {m} \in SUBSET S /\ (m \notin s => s \in SUBSET S)
    OBVIOUS
  <2>2. QED
    BY <1>1, <2>1
<1>3. v \in [SUBSET T -> Nat] /\ v[{}] = 0
  <2>1. \A s \in SUBSET T : r[m] + w[s \ {m}] \in Nat
    <3> TAKE s \in SUBSET T
    <3>1. PICK a \in Nat, b \in Nat : a = r[m] /\ b = w[s \ {m}]
      BY <1>1, <1>2
    <3>2. a + b \in Nat
      OBVIOUS
    <3>3. QED
      BY ONLY <3>1, <3>2
  <2>2. QED
    BY <1>1, <1>2, <2>1
<1>4. ASSUME NEW s \in SUBSET T, NEW x \in s PROVE v[s] = r[x] + v[s \ {x}]
  <2>1. s \ {x} \in SUBSET T
    OBVIOUS
  <2>2. CASE x = m
    <3>1. v[s] = r[m] + w[s \ {m}] /\ v[s \ {m}] = w[s \ {m}]
      BY <2>2
    <3>2. QED
      BY <2>2, <3>1
  <2>3. CASE x # m /\ m \in s
    <3>1. x \in s \ {m} /\ s \ {m} \in SUBSET S
      BY <1>2, <2>3
    <3>2. w[s \ {m}] = r[x] + w[(s \ {m}) \ {x}]
      BY <1>1, <3>1
    <3>3. v[s] = r[m] + w[s \ {m}] /\ v[s \ {x}] = r[m] + w[(s \ {x}) \ {m}]
      BY <2>1, <2>3
    <3>4. (s \ {x}) \ {m} = (s \ {m}) \ {x} /\ (s \ {m}) \ {x} \in SUBSET S
      BY <3>1
    <3>5. PICK a \in Nat, b \in Nat, c \in Nat : a = r[m] /\ b = r[x] /\ c = w[(s \ {m}) \ {x}]
      BY <1>1, <3>4
    <3>6. v[s] = a + (b + c) /\ v[s \ {x}] = a + c
      BY ONLY <3>2, <3>3, <3>4, <3>5
    <3>7. a + (b + c) = b + (a + c)
      OBVIOUS
    <3>8. QED
      BY ONLY <3>5, <3>6, <3>7
  <2>4. CASE x # m /\ m \notin s
    <3>1. v[s] = w[s] /\ v[s \ {x}] = w[s \ {x}] /\ s \in SUBSET S
      BY <1>2, <2>1, <2>4
    <3>2. QED
      BY <1>1, <3>1
  <2>5. QED
    BY <2>2, <2>3, <2>4
<1>5. v \in Weights(r, T)
  <2> HIDE DEF v
  <2>1. QED
    BY ONLY <1>3, <1>4 DEF Weights
<1>6. QED
  BY <1>5

\* Finite sets have weights.
LEMMA WeightsExist ==
  ASSUME NEW S, IsFiniteSet(S), NEW r \in [S -> Nat]
  PROVE  Weights(r, S) # {}
<1> DEFINE F == {T \in SUBSET S : Weights(r, T) # {}}
<1>1. ASSUME NEW T \in SUBSET S, \A x \in T : T \ {x} \in F PROVE T \in F
  <2>1. CASE T = {}
    <3> DEFINE w == [s \in SUBSET {} |-> 0]
    <3>1. w \in [SUBSET {} -> Nat] /\ w[{}] = 0 /\ \A s \in SUBSET {} : s = {}
      OBVIOUS
    <3>2. w \in Weights(r, {})
      BY <3>1 DEF Weights
    <3>3. QED
      BY <2>1, <3>2
  <2>2. CASE T # {}
    <3>1. PICK m \in T : TRUE
      BY <2>2
    <3>2. PICK U : U = T \ {m}
      OBVIOUS
    <3>3. PICK w : w \in Weights(r, U)
      BY <1>1, <3>2
    <3>4. T = U \cup {m} /\ m \notin U /\ \A x \in T : r[x] \in Nat
      BY <3>2
    <3>5. Weights(r, T) # {}
      BY ONLY <3>3, <3>4, WeightsGrow
    <3>6. QED
      BY <3>5
  <2>3. QED
    BY <2>1, <2>2
<1>2. SUBSET S \subseteq F
  <2> HIDE DEF F
  <2>1. QED
    BY <1>1, FiniteInduct, IsFiniteSet(S)
<1>3. QED
  BY <1>2

\* The sum's choice has something to choose, and it can only be the weight.
LEMMA SumIsWeight ==
  ASSUME NEW S, IsFiniteSet(S), NEW r, NEW w \in Weights(r, S)
  PROVE  SumOf(r, S) = w[S]
<1>1. w \in [SUBSET S -> Nat] /\ w[{}] = 0
      /\ \A s \in SUBSET S : \A x \in s : w[s] = r[x] + w[s \ {x}]
  BY DEF Weights
<1>2. \A s \in SUBSET S : w[s] = IF s = {} THEN 0 ELSE r[CHOOSE x \in s : TRUE] + w[s \ {CHOOSE x \in s : TRUE}]
  <2> TAKE s \in SUBSET S
  <2>1. CASE s = {}
    BY <1>1, <2>1
  <2>2. CASE s # {}
    <3>1. PICK x \in s : x = CHOOSE y \in s : TRUE
      BY <2>2
    <3>2. w[s] = r[x] + w[s \ {x}]
      BY <1>1
    <3>3. QED
      BY <2>2, <3>1, <3>2
  <2>3. QED
    BY <2>1, <2>2
<1>3. w = SumStep(r, S, w)
  <2>1. w = [s \in SUBSET S |-> w[s]]
    BY <1>1
  <2>2. QED
    BY <1>2, <2>1 DEF SumStep
<1>4. PICK u : u = (CHOOSE ww : ww = SumStep(r, S, ww))
  OBVIOUS
<1>5. u = SumStep(r, S, u)
  BY <1>3, <1>4
<1>6. ASSUME NEW s \in SUBSET S, \A x \in s : u[s \ {x}] = w[s \ {x}] PROVE u[s] = w[s]
  <2>1. u[s] = IF s = {} THEN 0 ELSE r[CHOOSE x \in s : TRUE] + u[s \ {CHOOSE x \in s : TRUE}]
    BY <1>5 DEF SumStep
  <2>2. CASE s = {}
    BY <1>1, <2>1, <2>2
  <2>3. CASE s # {}
    <3>1. PICK x \in s : x = CHOOSE y \in s : TRUE
      BY <2>3
    <3>2. u[s] = r[x] + u[s \ {x}] /\ w[s] = r[x] + w[s \ {x}] /\ u[s \ {x}] = w[s \ {x}]
      BY <1>1, <1>6, <2>1, <2>3, <3>1
    <3>3. QED
      BY <3>2
  <2>4. QED
    BY <2>2, <2>3
<1>7. \A s \in SUBSET S : (\A x \in s : u[s \ {x}] = w[s \ {x}]) => u[s] = w[s]
  BY <1>6
<1>8. u[S] = w[S]
  BY <1>7, AgreeOnSets, IsFiniteSet(S)
<1>9. QED
  BY <1>4, <1>8 DEF SumOf

\* A part of a set has the weights that the set gives it.
LEMMA WeightsPart ==
  ASSUME NEW S, NEW r, NEW w \in Weights(r, S), NEW T \in SUBSET S
  PROVE  [s \in SUBSET T |-> w[s]] \in Weights(r, T)
<1> DEFINE v == [s \in SUBSET T |-> w[s]]
<1>1. w \in [SUBSET S -> Nat] /\ w[{}] = 0 /\ \A s \in SUBSET S : \A x \in s : w[s] = r[x] + w[s \ {x}]
  BY DEF Weights
<1>2. \A s \in SUBSET T : s \in SUBSET S
  OBVIOUS
<1>3. v \in [SUBSET T -> Nat] /\ v[{}] = 0
  BY <1>1, <1>2
<1>4. ASSUME NEW s \in SUBSET T, NEW x \in s PROVE v[s] = r[x] + v[s \ {x}]
  <2>1. s \ {x} \in SUBSET T /\ s \in SUBSET S
    OBVIOUS
  <2>2. v[s] = w[s] /\ v[s \ {x}] = w[s \ {x}]
    BY <2>1
  <2>3. QED
    BY <1>1, <2>1, <2>2
<1>5. QED
  BY <1>3, <1>4 DEF Weights

\* A sum, by any one of its terms.
LEMMA SumParts ==
  ASSUME NEW S, IsFiniteSet(S), NEW r \in [S -> Nat]
  PROVE  /\ SumOf(r, S) \in Nat
         /\ SumOf(r, {}) = 0
         /\ \A T \in SUBSET S : /\ SumOf(r, T) \in Nat
                                /\ \A x \in T : SumOf(r, T) = r[x] + SumOf(r, T \ {x})
<1>1. PICK w : w \in Weights(r, S)
  BY WeightsExist
<1>2. w \in [SUBSET S -> Nat] /\ w[{}] = 0 /\ \A s \in SUBSET S : \A x \in s : w[s] = r[x] + w[s \ {x}]
  BY <1>1 DEF Weights
<1>3. ASSUME NEW T \in SUBSET S PROVE SumOf(r, T) = w[T]
  <2>1. PICK v : v = [s \in SUBSET T |-> w[s]]
    OBVIOUS
  <2>2. v \in Weights(r, T) /\ v[T] = w[T]
    BY <1>1, <2>1, WeightsPart
  <2>3. IsFiniteSet(T)
    BY FS_Subset
  <2>4. SumOf(r, T) = v[T]
    BY ONLY <2>2, <2>3, SumIsWeight
  <2>5. QED
    BY <2>2, <2>4
<1>4. \A T \in SUBSET S : \A x \in T : T \ {x} \in SUBSET S
  OBVIOUS
<1>5. S \in SUBSET S /\ {} \in SUBSET S
  OBVIOUS
<1>6. QED
  BY <1>2, <1>3, <1>4, <1>5

\* A term and the rest of the sum.
LEMMA SumTakes ==
  ASSUME NEW S, IsFiniteSet(S), NEW r \in [S -> Nat], NEW T \in SUBSET S, NEW x \in T
  PROVE  SumOf(r, T) = r[x] + SumOf(r, T \ {x}) /\ SumOf(r, T) \in Nat
BY SumParts

\* Equal terms have equal sums.
LEMMA SumAgrees ==
  ASSUME NEW S, IsFiniteSet(S), NEW r, NEW q, \A x \in S : r[x] = q[x] /\ r[x] \in Nat
  PROVE  SumOf(r, S) = SumOf(q, S)
<1>1. PICK f : f = [x \in S |-> r[x]]
  OBVIOUS
<1>2. f \in [S -> Nat] /\ \A x \in S : f[x] = r[x] /\ f[x] = q[x]
  BY <1>1
<1>3. PICK w : w \in Weights(f, S)
  BY <1>2, WeightsExist
<1>4. w \in Weights(r, S) /\ w \in Weights(q, S)
  <2>1. /\ w \in [SUBSET S -> Nat] /\ w[{}] = 0
        /\ \A s \in SUBSET S : \A x \in s : w[s] = f[x] + w[s \ {x}]
    BY <1>3 DEF Weights
  <2>2. \A s \in SUBSET S : \A x \in s : f[x] = r[x] /\ f[x] = q[x]
    BY <1>2
  <2>3. QED
    BY <2>1, <2>2 DEF Weights
<1>5. QED
  BY <1>4, SumIsWeight

\* Sums grow with their terms.
LEMMA SumGrows ==
  ASSUME NEW S, IsFiniteSet(S), NEW p \in [S -> Nat], NEW q \in [S -> Nat], NEW r \in [S -> Nat], NEW m \in Nat,
         \A x \in S : p[x] <= q[x] + r[x] * m
  PROVE  SumOf(p, S) <= SumOf(q, S) + SumOf(r, S) * m
<1> DEFINE F == {T \in SUBSET S : SumOf(p, T) <= SumOf(q, T) + SumOf(r, T) * m}
<1>1. ASSUME NEW T \in SUBSET S, \A x \in T : T \ {x} \in F PROVE T \in F
  <2>1. CASE T = {}
    <3>1. SumOf(p, {}) = 0 /\ SumOf(q, {}) = 0 /\ SumOf(r, {}) = 0 /\ 0 <= 0 + 0 * m
      BY SumParts
    <3>2. QED
      BY <2>1, <3>1
  <2>2. CASE T # {}
    <3>1. PICK x \in T : TRUE
      BY <2>2
    <3>2. PICK U \in SUBSET S : U = T \ {x}
      OBVIOUS
    <3>3. PICK a \in Nat, b \in Nat, c \in Nat : a = p[x] /\ b = q[x] /\ c = r[x] /\ a <= b + c * m
      OBVIOUS
    <3>4. PICK d \in Nat, e \in Nat, f \in Nat : d = SumOf(p, U) /\ e = SumOf(q, U) /\ f = SumOf(r, U)
      BY SumParts
    <3>5. SumOf(p, T) = a + d /\ SumOf(q, T) = b + e /\ SumOf(r, T) = c + f
      BY <3>2, <3>3, <3>4, SumParts
    <3>6. d <= e + f * m
      BY <1>1, <3>2, <3>4
    <3>7. (c + f) * m = c * m + f * m /\ c * m \in Nat /\ f * m \in Nat
      OBVIOUS
    <3>8. a + d <= (b + e) + (c + f) * m
      BY <3>3, <3>6, <3>7
    <3>9. QED
      BY <3>5, <3>8
  <2>3. QED
    BY <2>1, <2>2
<1>2. SUBSET S \subseteq F
  <2> HIDE DEF F
  <2>1. QED
    BY <1>1, FiniteInduct, IsFiniteSet(S)
<1>3. QED
  BY <1>2

\* The partial sums of r below n.
PartialSums(n, r) == {g \in [0..n -> Nat] : g[0] = 0 /\ \A t \in 0..n-1 : g[t + 1] = g[t] + r[t]}

\* The sum of r below n, by its partial sums.
LEMMA SumIs ==
  ASSUME NEW n \in Nat, NEW r \in [0..n-1 -> Nat], NEW g \in PartialSums(n, r)
  PROVE  SumOf(r, 0..n-1) = g[n]
<1>1. g \in [0..n -> Nat] /\ g[0] = 0 /\ \A t \in 0..n-1 : g[t + 1] = g[t] + r[t]
  BY DEF PartialSums
<1>2. IsFiniteSet(0..n-1)
  BY FS_Interval
<1> DEFINE M == {m \in Nat : m <= n => SumOf(r, 0..m-1) = g[m]}
<1>3. 0 \in M
  <2>1. 0..0-1 = {} /\ SumOf(r, {}) = 0
    BY <1>2, SumParts
  <2>2. SumOf(r, 0..0-1) = 0
    BY <2>1
  <2>3. QED
    BY <1>1, <2>2
<1>4. ASSUME NEW m \in Nat, m \in M PROVE m + 1 \in M
  <2> SUFFICES ASSUME m + 1 <= n PROVE SumOf(r, 0..(m + 1)-1) = g[m + 1]
    OBVIOUS
  <2>1. m <= n /\ m \in 0..n-1 /\ (m + 1) - 1 = m
    OBVIOUS
  <2>2. (0..m) \ {m} = 0..m-1 /\ m \in 0..m
    <3>1. \A x \in Int : (0 <= x /\ x <= m /\ x # m) <=> (0 <= x /\ x <= m - 1)
      OBVIOUS
    <3>2. QED
      BY ONLY <3>1, m \in Nat
  <2>3. 0..m \in SUBSET (0..n-1)
    BY <2>1
  <2>4. SumOf(r, 0..m) = r[m] + SumOf(r, 0..m-1)
    <3>1. PICK S : S = 0..n-1
      OBVIOUS
    <3>2. PICK T \in SUBSET S : T = 0..m /\ m \in T /\ T \ {m} = 0..m-1
      BY <2>2, <2>3, <3>1
    <3>3. IsFiniteSet(S) /\ r \in [S -> Nat]
      BY <1>2, <3>1
    <3>4. SumOf(r, T) = r[m] + SumOf(r, T \ {m})
      BY ONLY <3>2, <3>3, SumTakes, SMTT(40)
    <3>5. QED
      BY <3>2, <3>4
  <2>5. SumOf(r, 0..m-1) = g[m]
    BY <1>4, <2>1
  <2>6. g[m + 1] = g[m] + r[m] /\ r[m] \in Nat /\ g[m] \in Nat
    BY <1>1, <2>1
  <2>7. QED
    BY <2>1, <2>4, <2>5, <2>6
<1>5. Nat \subseteq M
  <2> HIDE DEF M
  <2>1. QED
    BY <1>3, <1>4, Induct
<1>6. n \in M /\ n <= n
  <2>1. n <= n
    OBVIOUS
  <2> HIDE DEF M
  <2>2. QED
    BY <1>5, <2>1
<1>7. QED
  BY <1>6

-----------------------------------------------------------------------------
\* What FlattenSeq computes at each place of ss, from the place before.
FlatStep(ss, n, f) ==
  f = [i \in 1..n |-> IF i = 1 THEN ss[i] ELSE f[i-1] \o ss[i]]

\* What FlattenSeq computes step by step.
LEMMA FlattenExists ==
  ASSUME NEW S, NEW ss \in Seq(Seq(S)), Len(ss) # 0
  PROVE  \E f \in [1..Len(ss) -> Seq(S)] : FlatStep(ss, Len(ss), f) /\ FlattenSeq(ss) = f[Len(ss)]
<1>0. PICK N \in Nat : N = Len(ss) /\ N # 0
  OBVIOUS
<1>1. \A i \in 1..N : ss[i] \in Seq(S)
  BY <1>0
<1> DEFINE M == {m \in Nat : m + 1 <= N => \E f \in [1..m+1 -> Seq(S)] : FlatStep(ss, m + 1, f)}
<1>2. 0 \in M
  <2> DEFINE f == [i \in 1..0+1 |-> ss[i]]
  <2>1. 1..0+1 = {1} /\ 1 \in 1..N
    BY <1>0
  <2>2. f \in [1..0+1 -> Seq(S)] /\ f = [i \in 1..0+1 |-> IF i = 1 THEN ss[i] ELSE f[i-1] \o ss[i]]
    BY <1>1, <2>1
  <2>3. QED
    BY <2>2 DEF FlatStep
<1>3. ASSUME NEW m \in Nat, m \in M PROVE m + 1 \in M
  <2> SUFFICES ASSUME (m + 1) + 1 <= N PROVE \E f \in [1..(m+1)+1 -> Seq(S)] : FlatStep(ss, (m + 1) + 1, f)
    OBVIOUS
  <2>1. PICK k \in Nat : k = m + 1
    OBVIOUS
  <2>2. k <= N /\ k + 1 \in 1..N /\ k \in 1..k /\ k + 1 # 1
    BY <1>0, <2>1
  <2>3. PICK f \in [1..k -> Seq(S)] : FlatStep(ss, k, f)
    BY <1>0, <1>3, <2>1, <2>2
  <2> DEFINE h == [i \in 1..k+1 |-> IF i = k + 1 THEN f[k] \o ss[k + 1] ELSE f[i]]
  <2>4. \A i \in 1..k+1 : i # k + 1 => i \in 1..k /\ (i # 1 => i - 1 \in 1..k+1 /\ i - 1 # k + 1)
    OBVIOUS
  <2>5. f[k] \in Seq(S) /\ ss[k + 1] \in Seq(S)
    BY <1>1, <2>2
  <2>6. f[k] \o ss[k + 1] \in Seq(S)
    BY <2>5
  <2>7. h \in [1..k+1 -> Seq(S)]
    BY <2>4, <2>6
  <2>8. \A i \in 1..k+1 : h[i] = IF i = 1 THEN ss[i] ELSE h[i-1] \o ss[i]
    <3> TAKE i \in 1..k+1
    <3>1. CASE i = k + 1
      <4>1. (k + 1) - 1 = k /\ k \in 1..k+1 /\ k # k + 1
        BY <2>2
      <4>2. h[k] = f[k] /\ h[k + 1] = f[k] \o ss[k + 1]
        BY <4>1, SMTT(40)
      <4>3. QED
        BY <2>2, <3>1, <4>1, <4>2
    <3>2. CASE i # k + 1
      <4>1. f[i] = IF i = 1 THEN ss[i] ELSE f[i-1] \o ss[i]
        BY <2>3, <2>4, <3>2 DEF FlatStep
      <4>2. h[i] = f[i] /\ (i # 1 => h[i-1] = f[i-1])
        BY <2>4, <3>2
      <4>3. QED
        BY <4>1, <4>2
    <3>3. QED
      BY <3>1, <3>2
  <2>9. FlatStep(ss, k + 1, h)
    BY <2>8 DEF FlatStep
  <2>10. QED
    BY <2>1, <2>7, <2>9
<1>4. Nat \subseteq M
  <2> HIDE DEF M
  <2>1. QED
    BY <1>2, <1>3, Induct
<1>5. \E f \in [1..N -> Seq(S)] : FlatStep(ss, N, f)
  <2>1. N - 1 \in Nat /\ (N - 1) + 1 = N /\ N <= N
    BY <1>0
  <2>2. N - 1 \in M
    BY <1>4, <2>1
  <2>3. QED
    BY <2>1, <2>2
<1>6. PICK f : f = (CHOOSE g : FlatStep(ss, N, g))
  OBVIOUS
<1>7. FlatStep(ss, N, f)
  BY <1>5, <1>6
<1>8. FlattenSeq(ss) = f[N]
  BY <1>0, <1>6 DEF FlattenSeq, FlatStep
<1>9. PICK g \in [1..N -> Seq(S)] : FlatStep(ss, N, g)
  BY <1>5
<1> DEFINE E == {m \in Nat : m + 1 <= N => f[m + 1] = g[m + 1]}
<1>10. 0 \in E
  BY <1>0, <1>7, <1>9 DEF FlatStep
<1>11. ASSUME NEW m \in Nat, m \in E PROVE m + 1 \in E
  <2> SUFFICES ASSUME (m + 1) + 1 <= N PROVE f[(m + 1) + 1] = g[(m + 1) + 1]
    OBVIOUS
  <2>1. (m + 1) + 1 \in 1..N /\ (m + 1) + 1 # 1 /\ ((m + 1) + 1) - 1 = m + 1 /\ m + 1 <= N
    BY <1>0
  <2>2. f[(m + 1) + 1] = f[((m + 1) + 1) - 1] \o ss[(m + 1) + 1]
    BY <1>7, <2>1 DEF FlatStep
  <2>3. g[(m + 1) + 1] = g[((m + 1) + 1) - 1] \o ss[(m + 1) + 1]
    BY <1>9, <2>1 DEF FlatStep
  <2>4. f[m + 1] = g[m + 1]
    BY <1>11, <2>1
  <2>5. QED
    BY <2>1, <2>2, <2>3, <2>4
<1>12. Nat \subseteq E
  <2> HIDE DEF E
  <2>1. QED
    BY <1>10, <1>11, Induct
<1>13. f[N] = g[N]
  <2>1. N - 1 \in Nat /\ (N - 1) + 1 = N /\ N <= N
    BY <1>0
  <2>2. N - 1 \in E
    BY <1>12, <2>1
  <2>3. QED
    BY <2>1, <2>2
<1>14. QED
  BY <1>0, <1>8, <1>9, <1>13

\* Sequences flattened, one after the other.
LEMMA FlattenEmpty == FlattenSeq(<<>>) = <<>>
BY DEF FlattenSeq

\* The type of what is flattened.
LEMMA FlattenType ==
  ASSUME NEW S, NEW ss \in Seq(Seq(S))
  PROVE  FlattenSeq(ss) \in Seq(S)
<1>1. CASE Len(ss) = 0
  <2>1. ss = <<>>
    BY <1>1, EmptySeq
  <2>2. FlattenSeq(ss) = <<>>
    BY ONLY <2>1, FlattenEmpty
  <2>3. QED
    BY <2>2, EmptySeq
<1>2. CASE Len(ss) # 0
  <2>1. PICK N \in Nat : N = Len(ss) /\ N # 0
    BY <1>2
  <2>2. PICK f \in [1..N -> Seq(S)] : FlattenSeq(ss) = f[N]
    BY <2>1, FlattenExists
  <2>3. N \in 1..N
    BY <2>1
  <2>4. f[N] \in Seq(S)
    BY ONLY <2>3, f \in [1..N -> Seq(S)]
  <2>5. QED
    BY <2>2, <2>4
<1>3. QED
  BY <1>1, <1>2

\* Flattening, from the end ...
LEMMA FlattenAppend ==
  ASSUME NEW S, NEW ss \in Seq(Seq(S)), NEW b \in Seq(S)
  PROVE  FlattenSeq(Append(ss, b)) = FlattenSeq(ss) \o b
<1>0. PICK ts \in Seq(Seq(S)) : ts = Append(ss, b)
  BY AppendProperties, b \in Seq(S), Zenon
<1>1. PICK N \in Nat : N = Len(ss)
  OBVIOUS
<1>2. Len(ts) = N + 1 /\ ts[N + 1] = b /\ \A i \in 1..N : ts[i] = ss[i]
  BY <1>0, <1>1
<1>3. PICK h \in [1..N+1 -> Seq(S)] : FlatStep(ts, N + 1, h) /\ FlattenSeq(ts) = h[N + 1]
  <2>1. Len(ts) = N + 1 /\ Len(ts) # 0
    BY <1>2
  <2>2. \E h \in [1..Len(ts) -> Seq(S)] : FlatStep(ts, Len(ts), h) /\ FlattenSeq(ts) = h[Len(ts)]
    BY <2>1, FlattenExists, Zenon
  <2>3. QED
    BY <2>1, <2>2, Zenon
<1>4. CASE N = 0
  <2>1. ss = <<>>
    BY <1>1, <1>4, EmptySeq
  <2>2. FlattenSeq(ss) = <<>>
    BY <2>1, FlattenEmpty
  <2>3. h[N + 1] = b
    BY <1>2, <1>3, <1>4 DEF FlatStep
  <2>4. <<>> \o b = b
    OBVIOUS
  <2>5. QED
    BY <1>0, <1>3, <2>2, <2>3, <2>4
<1>5. CASE N # 0
  <2>1. PICK f \in [1..N -> Seq(S)] : FlatStep(ss, N, f) /\ FlattenSeq(ss) = f[N]
    BY <1>1, <1>5, FlattenExists
  <2> DEFINE E == {m \in Nat : m + 1 <= N => f[m + 1] = h[m + 1]}
  <2>2. 0 \in E
    <3>1. 0 + 1 = 1 /\ 1 \in 1..N /\ 1 \in 1..N+1
      BY <1>5
    <3>2. f[1] = ss[1] /\ h[1] = ts[1]
      BY <1>3, <2>1, <3>1 DEF FlatStep
    <3>3. QED
      BY <1>2, <3>1, <3>2
  <2>3. ASSUME NEW m \in Nat, m \in E PROVE m + 1 \in E
    <3> SUFFICES ASSUME (m + 1) + 1 <= N PROVE f[(m + 1) + 1] = h[(m + 1) + 1]
      OBVIOUS
    <3>1. PICK k \in 1..N : k = (m + 1) + 1 /\ k # 1 /\ k - 1 = m + 1 /\ m + 1 <= N /\ k \in 1..N+1
      BY <1>5
    <3>2. f[k] = f[k-1] \o ss[k]
      BY <2>1, <3>1 DEF FlatStep
    <3>3. h[k] = h[k-1] \o ts[k]
      BY <1>3, <3>1 DEF FlatStep
    <3>4. f[m + 1] = h[m + 1]
      BY <2>3, <3>1
    <3>5. QED
      BY <1>2, <3>1, <3>2, <3>3, <3>4
  <2>4. Nat \subseteq E
    <3> HIDE DEF E
    <3>1. QED
      BY <2>2, <2>3, Induct
  <2>5. f[N] = h[N]
    <3>1. N - 1 \in Nat /\ (N - 1) + 1 = N /\ N <= N
      BY <1>5
    <3>2. N - 1 \in E
      BY <2>4, <3>1
    <3>3. QED
      BY <3>1, <3>2
  <2>6. h[N + 1] = h[N] \o ts[N + 1]
    <3>1. N + 1 \in 1..N+1 /\ N + 1 # 1 /\ (N + 1) - 1 = N
      BY <1>5
    <3>2. QED
      BY <1>3, <3>1 DEF FlatStep
  <2>7. QED
    BY <1>0, <1>2, <1>3, <2>1, <2>5, <2>6
<1>6. QED
  BY <1>4, <1>5

\* ... and from the front.
LEMMA FlattenHead ==
  ASSUME NEW S, NEW ss \in Seq(Seq(S)), ss # <<>>
  PROVE  FlattenSeq(ss) = Head(ss) \o FlattenSeq(Tail(ss))
<1> DEFINE P(ts) == FlattenSeq(ts) = Head(ts) \o FlattenSeq(Tail(ts))
           M == {m \in Nat : \A ts \in Seq(Seq(S)) : Len(ts) = m + 1 => P(ts)}
<1>1. \A ts \in Seq(Seq(S)) : \A m \in Nat : Len(ts) = m + 1 =>
        \E us \in Seq(Seq(S)), b \in Seq(S) : ts = Append(us, b) /\ Len(us) = m
  <2> TAKE ts \in Seq(Seq(S))
  <2> TAKE m \in Nat
  <2> HAVE Len(ts) = m + 1
  <2>1. PICK us : us = [i \in 1..m |-> ts[i]]
    OBVIOUS
  <2>2. us \in [1..m -> Seq(S)]
    BY <2>1
  <2>3. us \in Seq(Seq(S)) /\ Len(us) = m
    BY <2>2, FunctionIsSeq
  <2>4. PICK b \in Seq(S) : b = ts[m + 1]
    <3>1. m + 1 \in 1..Len(ts)
      OBVIOUS
    <3>2. QED
      BY <3>1, ElementOfSeq
  <2>5. PICK vs \in Seq(Seq(S)) : vs = Append(us, b)
    BY <2>3, AppendProperties, Zenon
  <2>6. Len(vs) = m + 1 /\ vs[m + 1] = b /\ \A i \in 1..m : vs[i] = us[i]
    BY <2>3, <2>5
  <2>7. \A i \in 1..m+1 : vs[i] = ts[i]
    <3> TAKE i \in 1..m+1
    <3>1. i = m + 1 \/ i \in 1..m
      OBVIOUS
    <3>2. QED
      BY <2>1, <2>4, <2>6, <3>1
  <2>8. vs = ts
    BY <2>6, <2>7, SeqEqual
  <2>9. QED
    BY <2>3, <2>5, <2>8
<1>2. 0 \in M
  <2>1. ASSUME NEW ts \in Seq(Seq(S)), Len(ts) = 0 + 1 PROVE P(ts)
    <3>1. PICK us \in Seq(Seq(S)), b \in Seq(S) : ts = Append(us, b) /\ Len(us) = 0
      BY <1>1, <2>1
    <3>2. us = <<>>
      BY <3>1, EmptySeq
    <3>3. FlattenSeq(ts) = FlattenSeq(<<>>) \o b
      BY <3>1, <3>2, FlattenAppend
    <3>4. ts = <<b>>
      BY <3>1, <3>2
    <3>5. Head(ts) = b /\ Tail(ts) = <<>>
      BY <3>4
    <3>6. FlattenSeq(<<>>) = <<>>
      BY FlattenEmpty
    <3>7. <<>> \o b = b /\ b \o <<>> = b
      BY ConcatEmptySeq
    <3>8. QED
      BY <3>3, <3>5, <3>6, <3>7
  <2>2. QED
    BY <2>1
<1>3. ASSUME NEW m \in Nat, m \in M PROVE m + 1 \in M
  <2>1. ASSUME NEW ts \in Seq(Seq(S)), Len(ts) = (m + 1) + 1 PROVE P(ts)
    <3>0. m + 1 \in Nat
      OBVIOUS
    <3>1. PICK us \in Seq(Seq(S)), b \in Seq(S) : ts = Append(us, b) /\ Len(us) = m + 1
      BY ONLY <1>1, <2>1, <3>0, ts \in Seq(Seq(S))
    <3>2. FlattenSeq(us) = Head(us) \o FlattenSeq(Tail(us))
      BY <1>3, <3>1
    <3>3. us # <<>>
      BY <3>1
    <3>4. PICK h \in Seq(S), vs \in Seq(Seq(S)) : h = Head(us) /\ vs = Tail(us)
      BY <3>3, HeadTailProperties
    <3>5. PICK f \in Seq(S), g \in Seq(S) : f = FlattenSeq(us) /\ g = FlattenSeq(vs)
      BY FlattenType
    <3>6. FlattenSeq(ts) = f \o b
      BY <3>1, <3>5, FlattenAppend
    <3>7. FlattenSeq(Append(vs, b)) = g \o b
      BY <3>5, FlattenAppend
    <3>8. Head(ts) = h /\ Tail(ts) = Append(vs, b)
      <4>1. Head(Append(us, b)) = Head(us)
        BY <3>3, HeadTailAppend, Zenon
      <4>2. Tail(Append(us, b)) = Append(Tail(us), b)
        BY <3>3, HeadTailAppend, Zenon
      <4>3. QED
        BY <3>1, <3>4, <4>1, <4>2, Zenon
    <3>9. (h \o g) \o b = h \o (g \o b)
      BY ONLY h \in Seq(S), g \in Seq(S), b \in Seq(S), SMTT(60)
    <3>10. QED
      BY <3>2, <3>4, <3>5, <3>6, <3>7, <3>8, <3>9
  <2>2. QED
    BY <2>1
<1>4. Nat \subseteq M
  <2> HIDE DEF M
  <2>1. QED
    BY <1>2, <1>3, Induct
<1>5. Len(ss) \in Nat \ {0}
  BY EmptySeq
<1>6. Len(ss) - 1 \in Nat /\ (Len(ss) - 1) + 1 = Len(ss)
  BY <1>5
<1>7. Len(ss) - 1 \in M
  BY <1>4, <1>6
<1>8. QED
  BY <1>6, <1>7

\* A sequence, cut where two were put together.
LEMMA CutConcat ==
  ASSUME NEW S, NEW s \in Seq(S), NEW t \in Seq(S)
  PROVE  /\ SubSeq(s \o t, 1, Len(s)) = s
         /\ SubSeq(s \o t, Len(s) + 1, Len(s \o t)) = t
         /\ Len(s \o t) = Len(s) + Len(t)
<1>0. s \o t \in Seq(S) /\ Len(s \o t) = Len(s) + Len(t) /\ Len(s) \in Nat /\ Len(t) \in Nat
  BY ConcatProperties, LenProperties
<1>1. PICK u \in Seq(S), m \in Nat, n \in Nat : u = s \o t /\ m = Len(s) /\ n = Len(t) /\ Len(u) = m + n
  BY <1>0
<1>2. /\ \A i \in 1..m : u[i] = s[i]
      /\ \A i \in 1..n : u[m + i] = t[i]
  BY <1>1
<1>3. PICK v : v = SubSeq(u, 1, m)
  OBVIOUS
<1>4. v \in Seq(S) /\ Len(v) = m /\ \A i \in 1..m : v[i] = u[i]
  BY <1>1, <1>3
<1>5. v = s
  BY <1>1, <1>2, <1>4, SeqEqual
<1>6. PICK w : w = SubSeq(u, m + 1, m + n)
  OBVIOUS
<1>7. w \in Seq(S) /\ Len(w) = n /\ \A i \in 1..n : w[i] = u[m + i]
  BY <1>1, <1>6
<1>8. w = t
  BY <1>1, <1>2, <1>7, SeqEqual
<1>9. QED
  BY <1>1, <1>3, <1>5, <1>6, <1>8
==============================================================================
