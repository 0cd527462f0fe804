---------------------------- MODULE Limits_proofs ----------------------------
(***************************************************************************)
(* Proofs about rate limiting and quotas, for any finite set of limits     *)
(* and any keys, calls and objects: no schedule of lookups, cleanup and    *)
(* changes of a limit grants more than it should.                          *)
(***************************************************************************)
EXTENDS TokenBuckets, Quotas, Induction

-----------------------------------------------------------------------------
(***************************************************************************)
(* TokenBuckets. Covered needs the bounds that the limits put on a         *)
(* bucket: one with more tokens than its capacity, or with another's       *)
(* refill interval, would give more than it should. A bucket a call holds  *)
(* may have left the table; what is taken from it is granted to the key    *)
(* all the same, and no bucket of the table gets poorer by it, so that what *)
(* the calls ask for that hold such a bucket is set aside, and the rest of *)
(* the credit, Free, is what the bucket of the table is measured against.  *)
(***************************************************************************)

Objects == [capacity : Nat, refill : Nat \ {0}, tokens : Nat, age : Nat]

Calls == [op : {"none", "allow", "wait", "setlimit"},
          pc : {"idle", "lookup", "relookup", "reserve", "set", "take", "sleep"},
          key : Keys \cup {CHOOSE k \in Keys : TRUE}, n : Nat, limit : Limits,
          held : Buckets \cup {NoBucket}, timer : Int]

BucketsTyped ==
  /\ buckets \in [Keys -> Buckets \cup {NoBucket}]
  /\ bucket \in [Buckets -> Objects]
  /\ caller \in [Callers -> Calls]
  /\ credit \in [Keys -> Int]

\* A call knows its key, and holds a bucket while it uses one.
CallsHold ==
  \A c \in Callers :
    /\ caller[c].pc # "idle" => caller[c].key \in Keys
    /\ caller[c].pc \in {"take", "set", "reserve"} => caller[c].held \in Buckets

\* What the limits allow of a bucket.
Sound(b) == b.tokens <= b.capacity /\ b.capacity <= Capacity /\ Refill <= b.refill /\ b.refill <= SlowRefill

TableSound == \A k \in Keys : buckets[k] # NoBucket => Sound(bucket[buckets[k]])

\* The credit without what is set aside for the calls with a dropped bucket.
Free == [k \in Keys |-> credit[k] - Asked(k) * Refill]

FreeCovers ==
  \A k \in Keys :
    (IF buckets[k] = NoBucket THEN Capacity * Refill
     ELSE Smaller(MaxCredit, bucket[buckets[k]].tokens * Refill + bucket[buckets[k]].age)) <= Free[k]

BucketInv == BucketsTyped /\ CallsHold /\ TableSound /\ FreeCovers

\* The bounds that the limits give.
LEMMA LimitBounds ==
  /\ Capacity \in Nat \ {0} /\ Refill \in Nat \ {0} /\ SlowRefill \in Nat \ {0}
  /\ \A l \in Limits : l.capacity \in Nat \ {0} /\ l.refill \in Nat \ {0}
                       /\ l.capacity <= Capacity /\ Refill <= l.refill /\ l.refill <= SlowRefill
<1>1. Limits # {} /\ \A l \in Limits : l.capacity \in Nat \ {0} /\ l.refill \in Nat \ {0}
  BY TokenBucketsAssumption
<1>2. Capacity \in {l.capacity : l \in Limits} /\ \A l \in Limits : l.capacity <= Capacity
  <2> DEFINE S == {l.capacity : l \in Limits}
             f == [l \in Limits |-> l.capacity]
  <2>1. f \in [Limits -> Nat] /\ \A l \in Limits : f[l] = l.capacity
    BY <1>1
  <2>2. PICK b \in Nat : \A l \in Limits : f[l] <= b
    <3> HIDE DEF f
    <3>1. QED
      BY <2>1, FiniteBound, TokenBucketsAssumption
  <2>3. S \in SUBSET Nat /\ S # {} /\ \A x \in S : x <= b
    BY <1>1, <2>1, <2>2
  <2>4. \E m \in S : \A x \in S : x <= m
    <3> HIDE DEF S
    <3>1. QED
      BY <2>3, Greatest
  <2>5. \E m \in {l.capacity : l \in Limits} : \A l \in Limits : l.capacity <= m
    BY <2>4
  <2>6. QED
    BY <2>5 DEF Capacity
<1>3. SlowRefill \in {l.refill : l \in Limits} /\ \A l \in Limits : l.refill <= SlowRefill
  <2> DEFINE S == {l.refill : l \in Limits}
             f == [l \in Limits |-> l.refill]
  <2>1. f \in [Limits -> Nat] /\ \A l \in Limits : f[l] = l.refill
    BY <1>1
  <2>2. PICK b \in Nat : \A l \in Limits : f[l] <= b
    <3> HIDE DEF f
    <3>1. QED
      BY <2>1, FiniteBound, TokenBucketsAssumption
  <2>3. S \in SUBSET Nat /\ S # {} /\ \A x \in S : x <= b
    BY <1>1, <2>1, <2>2
  <2>4. \E m \in S : \A x \in S : x <= m
    <3> HIDE DEF S
    <3>1. QED
      BY <2>3, Greatest
  <2>5. \E m \in {l.refill : l \in Limits} : \A l \in Limits : l.refill <= m
    BY <2>4
  <2>6. QED
    BY <2>5 DEF SlowRefill
<1>4. Refill \in {l.refill : l \in Limits} /\ \A l \in Limits : Refill <= l.refill
  <2> DEFINE S == {l.refill : l \in Limits}
  <2>1. S \in SUBSET Nat /\ S # {}
    BY <1>1
  <2>2. \E m \in S : \A x \in S : m <= x
    <3> HIDE DEF S
    <3>1. QED
      BY <2>1, Least
  <2>3. \E m \in {l.refill : l \in Limits} : \A l \in Limits : m <= l.refill
    BY <2>2
  <2>4. QED
    BY <2>3 DEF Refill
<1>5. QED
  BY <1>1, <1>2, <1>3, <1>4

\* Products of naturals grow with their factors.
LEMMA Times ==
  ASSUME NEW a \in Nat, NEW b \in Nat, NEW r \in Nat, a <= b
  PROVE  a * r <= b * r /\ a * r \in Nat /\ b * r \in Nat
<1>1. PICK d \in Nat : b = a + d
  <2>1. b - a \in Nat /\ b = a + (b - a)
    OBVIOUS
  <2>2. QED
    BY <2>1
<1>2. a * r \in Nat /\ d * r \in Nat /\ (a + d) * r = a * r + d * r
  OBVIOUS
<1>3. QED
  BY <1>1, <1>2

\* The whole intervals of an age take no longer than the age.
LEMMA WholeIntervals ==
  ASSUME NEW x \in Nat, NEW y \in Nat \ {0}, NEW r \in Nat, r <= y
  PROVE  x \div y \in Nat /\ (x \div y) * r <= x /\ (x \div y) * r \in Nat
<1>1. PICK d : d = x \div y
  OBVIOUS
<1>2. d \in Nat /\ d * y <= x
  BY <1>1
<1>3. r * d <= y * d /\ r * d \in Nat
  BY <1>2, Times
<1>4. r * d = d * r /\ y * d = d * y /\ d * y \in Nat
  BY <1>2
<1>5. QED
  BY <1>1, <1>2, <1>3, <1>4

\* FreeCovers, of one bucket and the credit of its key.
Covers(b, cr) == Smaller(MaxCredit, b.tokens * Refill + b.age) <= cr

\* The most credit there can be is worth a full bucket or more.
LEMMA CreditBound ==
  /\ MaxCredit \in Nat /\ Capacity * Refill \in Nat /\ Capacity * Refill <= MaxCredit
  /\ Capacity * Refill <= CleanupInterval
<1>1. Capacity * Refill \in Nat /\ SlowRefill \in Nat \ {0}
  BY LimitBounds
<1>2. QED
  BY <1>1, TokenBucketsAssumption DEF MaxCredit

\* The tokens of a sound bucket are worth no more than the credit there can be.
LEMMA WorthBound ==
  ASSUME NEW b \in Objects, Sound(b)
  PROVE  b.tokens * Refill \in Nat /\ b.tokens * Refill <= Capacity * Refill
<1>1. b.tokens \in Nat /\ b.capacity \in Nat /\ Capacity \in Nat /\ Refill \in Nat
  BY LimitBounds DEF Objects
<1>2. b.tokens <= Capacity
  BY <1>1 DEF Sound
<1>3. QED
  BY <1>1, <1>2, Times

\* Refilling keeps a bucket covered, and leaves it with less than an interval
\* more than its tokens: all it can give is covered, whatever the credit.
LEMMA RefilledIs ==
  ASSUME NEW b \in Objects
  PROVE  Refilled(b) \in Objects /\ (Sound(b) => Sound(Refilled(b)))
<1>1. CASE b.age < b.refill
  BY <1>1 DEF Refilled
<1>2. CASE ~(b.age < b.refill)
  <2>1. b.age \in Nat /\ b.refill \in Nat \ {0} /\ b.tokens \in Nat /\ b.capacity \in Nat
    BY DEF Objects
  <2>2. PICK d \in Nat : d = b.age \div b.refill
    BY <2>1
  <2>3. PICK t : t = Smaller(b.capacity, b.tokens + d)
    OBVIOUS
  <2>4. t \in Nat /\ t <= b.capacity
    BY <2>1, <2>3 DEF Smaller
  <2>5. Refilled(b) = [b EXCEPT !.tokens = t, !.age = 0]
    BY <1>2, <2>2, <2>3 DEF Refilled
  <2>6. Refilled(b) \in Objects /\ Refilled(b).tokens = t /\ Refilled(b).capacity = b.capacity
        /\ Refilled(b).refill = b.refill
    <3>1. PICK f : f = Refilled(b)
      OBVIOUS
    <3>2. f = [b EXCEPT !.tokens = t, !.age = 0]
      BY <2>5, <3>1
    <3>3. t \in Nat
      BY <2>4
    <3>4. f \in Objects /\ f.tokens = t /\ f.capacity = b.capacity /\ f.refill = b.refill
      BY ONLY <3>2, <3>3, b \in Objects DEF Objects
    <3>5. QED
      BY <3>1, <3>4
  <2>7. QED
    BY <2>4, <2>6 DEF Sound
<1>3. QED
  BY <1>1, <1>2

\* A refill turns age into tokens, and what they are worth is covered.
LEMMA RefillCovered ==
  ASSUME NEW b \in Objects, Sound(b), NEW cr \in Int, Covers(b, cr)
  PROVE  /\ Refilled(b).tokens * Refill + Refilled(b).age <= cr
         /\ Refilled(b).tokens * Refill + Refilled(b).age <= MaxCredit
<1>1. b.age \in Nat /\ b.refill \in Nat \ {0} /\ b.tokens \in Nat /\ b.capacity \in Nat
      /\ Refill \in Nat /\ Refill <= b.refill /\ b.refill <= SlowRefill /\ SlowRefill \in Nat
  BY LimitBounds DEF Objects, Sound
<1>2. b.tokens * Refill \in Nat /\ b.tokens * Refill <= Capacity * Refill /\ Capacity * Refill \in Nat /\ MaxCredit \in Nat
      /\ Capacity * Refill <= MaxCredit
  BY WorthBound, CreditBound
<1>3. MaxCredit = Capacity * Refill + SlowRefill - 1
  BY DEF MaxCredit
<1>4. Refilled(b) \in Objects /\ Sound(Refilled(b))
  BY RefilledIs
<1>5. PICK w \in Nat : w = b.tokens * Refill
  BY <1>2
<1>6. PICK x \in Nat : x = Capacity * Refill
  BY <1>2
<1>7. Smaller(MaxCredit, w + b.age) <= cr
  BY <1>5 DEF Covers
<1>8. CASE b.age < b.refill
  <2>1. Refilled(b) = b
    BY <1>8 DEF Refilled
  <2>2. w + b.age <= MaxCredit
    BY <1>1, <1>2, <1>3, <1>5, <1>6, <1>8
  <2>3. w + b.age <= cr
    BY <1>1, <1>2, <1>7, <2>2 DEF Smaller
  <2>4. QED
    BY <1>5, <2>1, <2>2, <2>3
<1>9. CASE ~(b.age < b.refill)
  <2>1. PICK d \in Nat : d = b.age \div b.refill /\ d * Refill <= b.age /\ d * Refill \in Nat
    BY <1>1, WholeIntervals
  <2>2. PICK t : t = Smaller(b.capacity, b.tokens + d)
    OBVIOUS
  <2>3. t \in Nat /\ t <= b.tokens + d
    BY <1>1, <2>1, <2>2 DEF Smaller
  <2>4. Refilled(b) = [b EXCEPT !.tokens = t, !.age = 0]
    BY <1>9, <2>1, <2>2 DEF Refilled
  <2>5. Refilled(b).tokens = t /\ Refilled(b).age = 0
    BY <2>3, <2>4 DEF Objects
  <2>6. t * Refill \in Nat /\ t * Refill <= x
    BY <1>4, <1>6, <2>5, WorthBound
  <2>7. t * Refill <= (b.tokens + d) * Refill
    BY <1>1, <2>1, <2>3, Times
  <2>8. (b.tokens + d) * Refill = b.tokens * Refill + d * Refill
    BY <1>1, <2>1
  <2>9. PICK y \in Nat : y = t * Refill
    BY <2>6
  <2>10. PICK z \in Nat : z = d * Refill
    BY <2>1
  <2>11. y <= w + z /\ z <= b.age /\ y <= x
    BY <1>5, <2>1, <2>6, <2>7, <2>8, <2>9, <2>10
  <2>12. y <= MaxCredit /\ y <= w + b.age
    BY <1>1, <1>2, <1>6, <2>11
  <2>13. y <= cr
    BY <1>1, <1>2, <1>7, <2>12 DEF Smaller
  <2>14. QED
    BY <2>5, <2>9, <2>12, <2>13
<1>10. QED
  BY <1>8, <1>9

\* Whatever is taken from a refilled bucket is paid for, and the rest covered.
LEMMA TakeCovered ==
  ASSUME NEW b \in Objects, NEW cr \in Int, NEW n \in Nat,
         b.tokens * Refill + b.age <= cr, n <= b.tokens
  PROVE  /\ [b EXCEPT !.tokens = @ - n] \in Objects
         /\ [b EXCEPT !.tokens = @ - n].tokens = b.tokens - n
         /\ Sound(b) => Sound([b EXCEPT !.tokens = @ - n])
         /\ Covers([b EXCEPT !.tokens = @ - n], cr - n * Refill)
         /\ Covers([b EXCEPT !.tokens = @ - n], cr)
<1>1. b.age \in Nat /\ b.tokens \in Nat /\ Refill \in Nat /\ MaxCredit \in Nat /\ b.capacity \in Nat
  BY LimitBounds, CreditBound DEF Objects
<1>2. PICK t \in Nat : t = b.tokens - n
  BY <1>1
<1> DEFINE f == [b EXCEPT !.tokens = @ - n]
<1>3. f = [b EXCEPT !.tokens = t]
  BY <1>2
<1> HIDE DEF f
<1>4. f \in Objects /\ f.tokens = t /\ f.age = b.age /\ f.capacity = b.capacity /\ f.refill = b.refill
  BY <1>3 DEF Objects
<1>5. t * Refill \in Nat /\ n * Refill \in Nat /\ b.tokens * Refill = t * Refill + n * Refill
  <2>1. b.tokens = t + n
    BY <1>1, <1>2
  <2>2. QED
    BY <1>1, <2>1
<1>6. t * Refill + b.age <= cr - n * Refill /\ cr - n * Refill <= cr /\ cr - n * Refill \in Int
  BY <1>1, <1>5
<1>7. t * Refill + b.age <= cr
  BY <1>1, <1>5, <1>6
<1>8. \A x \in Int : t * Refill + b.age <= x => Smaller(MaxCredit, t * Refill + b.age) <= x
  BY <1>1, <1>5 DEF Smaller
<1>9. Covers(f, cr - n * Refill) /\ Covers(f, cr)
  BY <1>4, <1>6, <1>7, <1>8 DEF Covers
<1>10. Sound(b) => Sound(f)
  BY <1>1, <1>2, <1>4 DEF Sound
<1>11. QED
  BY <1>2, <1>4, <1>9, <1>10 DEF f

-----------------------------------------------------------------------------
\* What calls ask for, all in all: Asked is such a sum.
AskedBy(f, S) == MapThenSumSet(LAMBDA c : f[c].n, S)

\* The sum, as the lemmas on sums have it.
LEMMA AskedSum ==
  ASSUME NEW f, NEW S
  PROVE  AskedBy(f, S) = SumOf([c \in S |-> f[c].n], S)
<1> DEFINE r == [c \in S |-> f[c].n]
           Step(w) == [s \in SUBSET S |-> IF s = {} THEN 0
                                          ELSE f[CHOOSE x \in s : TRUE].n + w[s \ {CHOOSE x \in s : TRUE}]]
<1>1. AskedBy(f, S) = (CHOOSE w : w = Step(w))[S]
  BY DEF AskedBy, MapThenSumSet, MapThenFoldSet
<1>2. ASSUME NEW w PROVE Step(w) = SumStep(r, S, w)
  <2>1. ASSUME NEW s \in SUBSET S, s # {} PROVE r[CHOOSE x \in s : TRUE] = f[CHOOSE x \in s : TRUE].n
    <3>1. PICK x \in s : x = CHOOSE y \in s : TRUE
      BY <2>1
    <3>2. x \in S
      OBVIOUS
    <3>3. QED
      BY <3>1, <3>2
  <2>2. QED
    BY <2>1 DEF SumStep
<1>3. (CHOOSE w : w = Step(w)) = (CHOOSE w : w = SumStep(r, S, w))
  <2> HIDE DEF Step, r
  <2>1. \A w : (w = Step(w)) <=> (w = SumStep(r, S, w))
    BY <1>2
  <2>2. QED
    BY <2>1, Zenon
<1>4. QED
  BY <1>1, <1>3 DEF SumOf

\* The sum is a natural number, and calls that ask for the same have the same sum.
LEMMA AskedAgrees ==
  ASSUME NEW f, NEW g, NEW S, IsFiniteSet(S), \A c \in S : f[c].n \in Nat /\ f[c].n = g[c].n
  PROVE  AskedBy(f, S) \in Nat /\ AskedBy(f, S) = AskedBy(g, S)
<1>1. PICK p : p = [c \in S |-> f[c].n]
  OBVIOUS
<1>2. PICK q : q = [c \in S |-> g[c].n]
  OBVIOUS
<1>3. p \in [S -> Nat] /\ \A c \in S : p[c] = q[c] /\ p[c] \in Nat
  BY <1>1, <1>2
<1>4. SumOf(p, S) \in Nat /\ SumOf(p, S) = SumOf(q, S)
  BY <1>3, SumParts, SumAgrees
<1>5. QED
  BY <1>1, <1>2, <1>4, AskedSum

\* With one call the less, what it asked for is missing.
LEMMA AskedLess ==
  ASSUME NEW f, NEW g, NEW S, IsFiniteSet(S), NEW c \in S,
         \A d \in S : f[d].n \in Nat, \A d \in S \ {c} : f[d].n = g[d].n
  PROVE  AskedBy(f, S) = f[c].n + AskedBy(g, S \ {c})
<1>1. PICK p : p = [d \in S |-> f[d].n]
  OBVIOUS
<1>2. PICK U \in SUBSET S : U = S \ {c}
  OBVIOUS
<1>3. PICK q : q = [d \in U |-> f[d].n]
  OBVIOUS
<1>4. p \in [S -> Nat] /\ q \in [U -> Nat] /\ IsFiniteSet(U) /\ \A d \in U : p[d] = q[d] /\ p[d] \in Nat
  BY <1>1, <1>2, <1>3, FS_Subset
<1>5. SumOf(p, S) = p[c] + SumOf(p, U)
  BY <1>2, <1>4, SumTakes
<1>6. SumOf(p, U) = SumOf(q, U)
  BY <1>4, SumAgrees
<1>7. AskedBy(f, S) = SumOf(p, S) /\ AskedBy(f, U) = SumOf(q, U)
  BY <1>1, <1>3, AskedSum
<1>8. AskedBy(f, U) = AskedBy(g, U)
  <2>1. \A d \in U : f[d].n \in Nat /\ f[d].n = g[d].n
    BY <1>2
  <2>2. QED
    BY <1>4, <2>1, AskedAgrees
<1>9. QED
  BY <1>1, <1>2, <1>5, <1>6, <1>7, <1>8

\* The calls for a key that were caught, before a step and after it.
LEMMA CaughtFinite == \A k : IsFiniteSet(Caught(k)) /\ IsFiniteSet(Caught(k)')
<1>1. \A S \in SUBSET Callers : IsFiniteSet(S)
  BY FS_Subset, TokenBucketsAssumption
<1>2. \A k : Caught(k) \in SUBSET Callers /\ Caught(k)' \in SUBSET Callers
  BY DEF Caught
<1>3. QED
  BY <1>1, <1>2

\* What is asked for is a natural number.
LEMMA AskedType ==
  ASSUME caller \in [Callers -> Calls], NEW k \in Keys
  PROVE  Asked(k) \in Nat /\ Asked(k) = AskedBy(caller, Caught(k))
<1>1. PICK f \in [Callers -> Calls] : f = caller
  OBVIOUS
<1>2. PICK S \in SUBSET Callers : S = Caught(k)
  BY DEF Caught
<1>3. \A c \in S : f[c].n \in Nat
  BY DEF Calls
<1>4. AskedBy(f, S) \in Nat
  BY <1>2, <1>3, AskedAgrees, CaughtFinite
<1>5. Asked(k) = AskedBy(caller, Caught(k))
  BY DEF Asked, AskedBy
<1>6. QED
  BY <1>1, <1>2, <1>4, <1>5

LEMMA AskedTypeLater ==
  ASSUME caller' \in [Callers -> Calls], NEW k \in Keys
  PROVE  Asked(k)' \in Nat /\ Asked(k)' = AskedBy(caller', Caught(k)')
<1>1. PICK f \in [Callers -> Calls] : f = caller'
  OBVIOUS
<1>2. PICK S \in SUBSET Callers : S = Caught(k)'
  BY DEF Caught
<1>3. \A c \in S : f[c].n \in Nat
  BY DEF Calls
<1>4. AskedBy(f, S) \in Nat
  BY <1>2, <1>3, AskedAgrees, CaughtFinite
<1>5. Asked(k)' = AskedBy(caller', Caught(k)')
  BY DEF Asked, AskedBy, MapThenSumSet, MapThenFoldSet
<1>6. QED
  BY <1>1, <1>2, <1>4, <1>5

\* The same calls are caught, and ask for what they asked for.
LEMMA AskedStays ==
  ASSUME caller \in [Callers -> Calls], caller' \in [Callers -> Calls], NEW k \in Keys,
         Caught(k)' = Caught(k), \A c \in Caught(k) : caller'[c].n = caller[c].n
  PROVE  Asked(k)' = Asked(k)
<1>1. PICK f \in [Callers -> Calls] : f = caller
  OBVIOUS
<1>2. PICK g : g = caller'
  OBVIOUS
<1>3. PICK S \in SUBSET Callers : S = Caught(k)
  BY DEF Caught
<1>4. IsFiniteSet(S) /\ \A c \in S : f[c].n \in Nat /\ f[c].n = g[c].n
  BY <1>1, <1>2, <1>3, CaughtFinite DEF Calls
<1>5. AskedBy(f, S) = AskedBy(g, S)
  BY <1>4, AskedAgrees
<1>6. Asked(k) = AskedBy(f, S) /\ Asked(k)' = AskedBy(g, S)
  BY <1>1, <1>2, <1>3, AskedType, AskedTypeLater
<1>7. QED
  BY <1>5, <1>6

\* One of the calls that were caught is done.
LEMMA AskedReturns ==
  ASSUME caller \in [Callers -> Calls], caller' \in [Callers -> Calls], NEW k \in Keys, NEW c \in Caught(k),
         Caught(k)' = Caught(k) \ {c}, \A d \in Caught(k) \ {c} : caller'[d].n = caller[d].n
  PROVE  Asked(k) = caller[c].n + Asked(k)'
<1>1. PICK f \in [Callers -> Calls] : f = caller
  OBVIOUS
<1>2. PICK g : g = caller'
  OBVIOUS
<1>3. PICK S \in SUBSET Callers : S = Caught(k)
  BY DEF Caught
<1>4. IsFiniteSet(S) /\ c \in S /\ (\A d \in S : f[d].n \in Nat) /\ \A d \in S \ {c} : f[d].n = g[d].n
  BY <1>1, <1>2, <1>3, CaughtFinite DEF Calls
<1>5. AskedBy(f, S) = f[c].n + AskedBy(g, S \ {c})
  BY <1>4, AskedLess
<1>6. Asked(k) = AskedBy(f, S) /\ Asked(k)' = AskedBy(g, S \ {c})
  BY <1>1, <1>2, <1>3, AskedType, AskedTypeLater
<1>7. QED
  BY <1>1, <1>5, <1>6

\* The free credit is a number.
LEMMA FreeType ==
  ASSUME BucketsTyped
  PROVE  Free \in [Keys -> Int] /\ \A k \in Keys : Free[k] = credit[k] - Asked(k) * Refill
<1>1. \A k \in Keys : Asked(k) \in Nat /\ credit[k] \in Int
  BY AskedType DEF BucketsTyped
<1>2. Refill \in Nat
  BY LimitBounds
<1>3. \A k \in Keys : credit[k] - Asked(k) * Refill \in Int
  <2> TAKE k \in Keys
  <2>1. PICK a \in Nat, b \in Int : a = Asked(k) /\ b = credit[k]
    BY <1>1
  <2>2. QED
    BY <1>2, <2>1
<1>4. QED
  BY <1>3 DEF Free

LEMMA FreeTypeLater ==
  ASSUME caller' \in [Callers -> Calls], credit' \in [Keys -> Int]
  PROVE  Free' \in [Keys -> Int] /\ \A k \in Keys : Free'[k] = credit'[k] - Asked(k)' * Refill
<1>1. \A k \in Keys : Asked(k)' \in Nat /\ credit'[k] \in Int
  BY AskedTypeLater
<1>2. Refill \in Nat
  BY LimitBounds
<1>3. \A k \in Keys : credit'[k] - Asked(k)' * Refill \in Int
  <2> TAKE k \in Keys
  <2>1. PICK a \in Nat, b \in Int : a = Asked(k)' /\ b = credit'[k]
    BY <1>1
  <2>2. QED
    BY <1>2, <2>1
<1>4. Free' = [k \in Keys |-> credit'[k] - Asked(k)' * Refill]
  BY DEF Free
<1>5. QED
  BY <1>3, <1>4

\* Nothing is charged and nobody caught: the free credit stays.
LEMMA FreeStays ==
  ASSUME BucketsTyped, caller' \in [Callers -> Calls], UNCHANGED credit,
         \A k \in Keys : Asked(k)' = Asked(k)
  PROVE  Free' = Free
<1>1. \A k \in Keys : credit'[k] - Asked(k)' * Refill = credit[k] - Asked(k) * Refill
  OBVIOUS
<1>2. QED
  BY <1>1 DEF Free

\* The free credit covers what the property asks the credit to cover.
LEMMA FreeIsEnough == BucketInv => Covered
<1> SUFFICES ASSUME BucketInv, NEW k \in Keys
             PROVE  Asked(k) * Refill + (IF buckets[k] = NoBucket THEN Capacity * Refill
                       ELSE Smaller(MaxCredit, bucket[buckets[k]].tokens * Refill + bucket[buckets[k]].age))
                      <= credit[k]
  BY DEF Covered
<1> DEFINE x == IF buckets[k] = NoBucket THEN Capacity * Refill
                ELSE Smaller(MaxCredit, bucket[buckets[k]].tokens * Refill + bucket[buckets[k]].age)
<1>1. BucketsTyped /\ x <= Free[k]
  BY DEF BucketInv, FreeCovers
<1>2. x \in Int
  <2>1. CASE buckets[k] = NoBucket
    BY <2>1, CreditBound
  <2>2. CASE buckets[k] # NoBucket
    <3>1. PICK o \in Objects : o = bucket[buckets[k]]
      BY <1>1, <2>2 DEF BucketsTyped
    <3>2. PICK y \in Int : y = o.tokens * Refill + o.age
      BY LimitBounds DEF Objects
    <3>3. Smaller(MaxCredit, y) \in Int
      BY CreditBound DEF Smaller
    <3>4. QED
      BY <2>2, <3>1, <3>2, <3>3
  <2>3. QED
    BY <2>1, <2>2
<1> HIDE DEF x
<1>3. PICK a \in Nat, b \in Int : a = Asked(k) /\ b = credit[k] /\ Free[k] = b - a * Refill
  BY <1>1, FreeType, AskedType DEF BucketsTyped
<1>4. a * Refill \in Int
  BY LimitBounds
<1>5. a * Refill + x <= b
  BY <1>1, <1>2, <1>3, <1>4
<1>6. QED
  BY <1>3, <1>5 DEF x

-----------------------------------------------------------------------------
\* What Collect leaves of the objects, for every table and every set of calls.
LEMMA CollectIs ==
  ASSUME NEW table, NEW callers, NEW objects \in [Buckets -> Objects]
  PROVE  /\ Collect(table, callers, objects) \in [Buckets -> Objects]
         /\ \A k \in Keys : table[k] \in Buckets => Collect(table, callers, objects)[table[k]] = objects[table[k]]
<1>1. Blank \in Objects
  BY DEF Blank, Objects
<1>2. QED
  BY <1>1 DEF Collect

\* One call changes.
LEMMA CallMoves ==
  ASSUME BucketsTyped, CallsHold, NEW c \in Callers, NEW f \in Calls,
         f.pc # "idle" => f.key \in Keys,
         f.pc \in {"take", "set", "reserve"} => f.held \in Buckets,
         caller' = [caller EXCEPT ![c] = f]
  PROVE  caller' \in [Callers -> Calls] /\ CallsHold'
<1>1. caller' \in [Callers -> Calls] /\ caller'[c] = f /\ \A d \in Callers \ {c} : caller'[d] = caller[d]
  BY DEF BucketsTyped
<1>2. QED
  BY <1>1 DEF CallsHold

\* A call that has returned.
LEMMA IdleIs == Idle \in Calls /\ Idle.pc = "idle" /\ Idle.held = NoBucket
BY TokenBucketsAssumption DEF Idle, Calls

\* A call that neither had a dropped bucket to take from nor has one now.
LEMMA NobodyCaught ==
  ASSUME BucketsTyped, NEW c \in Callers, NEW f \in Calls, caller' = [caller EXCEPT ![c] = f], UNCHANGED buckets,
         caller[c].pc # "take" \/ \A k \in Keys : caller[c].key = k => caller[c].held = buckets[k],
         f.pc # "take" \/ f.held = buckets[f.key]
  PROVE  \A k \in Keys : Asked(k)' = Asked(k)
<1> TAKE k \in Keys
<1>1. caller \in [Callers -> Calls] /\ caller' \in [Callers -> Calls]
      /\ caller'[c] = f /\ \A d \in Callers \ {c} : caller'[d] = caller[d]
  BY DEF BucketsTyped
<1>2. c \notin Caught(k) /\ c \notin Caught(k)'
  BY <1>1 DEF Caught, Held
<1>3. \A d \in Callers \ {c} : d \in Caught(k)' <=> d \in Caught(k)
  BY <1>1 DEF Caught, Held
<1>4. Caught(k)' = Caught(k) /\ \A d \in Caught(k) : caller'[d].n = caller[d].n
  <2>1. Caught(k) \subseteq Callers /\ Caught(k)' \subseteq Callers
    BY DEF Caught
  <2>2. QED
    BY <1>1, <1>2, <1>3, <2>1
<1>5. QED
  BY <1>1, <1>4, AskedStays

\* Only one call changes, and it is not caught.
LEMMA CallOnly ==
  ASSUME BucketInv, caller' \in [Callers -> Calls], CallsHold', UNCHANGED <<buckets, bucket, credit>>,
         \A k \in Keys : Asked(k)' = Asked(k)
  PROVE  BucketInv'
<1>1. BucketsTyped' /\ TableSound'
  BY DEF BucketInv, BucketsTyped, TableSound, Sound
<1>2. Free' = Free
  BY FreeStays DEF BucketInv
<1>3. FreeCovers'
  BY <1>2 DEF BucketInv, FreeCovers
<1>4. QED
  BY <1>1, <1>3 DEF BucketInv

\* One object changes, with the free credit of the keys that have it.
LEMMA ObjectMoves ==
  ASSUME BucketInv, NEW h \in Buckets, NEW o \in Objects, NEW cr \in [Keys -> Int],
         caller' \in [Callers -> Calls], CallsHold', UNCHANGED buckets,
         credit' \in [Keys -> Int], Free' = cr,
         bucket' = Collect(buckets, caller', [bucket EXCEPT ![h] = o]),
         \A k \in Keys : buckets[k] = h => Sound(o) /\ Covers(o, cr[k]),
         \A k \in Keys : buckets[k] # h => cr[k] = Free[k]
  PROVE  BucketInv'
<1> DEFINE objects == [bucket EXCEPT ![h] = o]
<1>1. BucketsTyped /\ TableSound /\ FreeCovers /\ NoBucket \notin Buckets
  BY TokenBucketsAssumption DEF BucketInv
<1>2. objects \in [Buckets -> Objects] /\ objects[h] = o /\ \A g \in Buckets \ {h} : objects[g] = bucket[g]
  BY <1>1 DEF BucketsTyped
<1>3. bucket' = Collect(buckets, caller', objects)
  OBVIOUS
<1> HIDE DEF objects
<1>4. /\ bucket' \in [Buckets -> Objects]
      /\ \A k \in Keys : buckets[k] \in Buckets => bucket'[buckets[k]] = objects[buckets[k]]
  <2>1. PICK table : table = buckets
    OBVIOUS
  <2>2. PICK callers : callers = caller'
    OBVIOUS
  <2>3. /\ Collect(table, callers, objects) \in [Buckets -> Objects]
        /\ \A k \in Keys : table[k] \in Buckets => Collect(table, callers, objects)[table[k]] = objects[table[k]]
    BY <1>2, CollectIs
  <2>4. bucket' = Collect(table, callers, objects)
    BY <1>3, <2>1, <2>2
  <2>5. PICK left : left = Collect(table, callers, objects)
    OBVIOUS
  <2>6. bucket' = left /\ left \in [Buckets -> Objects]
        /\ \A k \in Keys : table[k] \in Buckets => left[table[k]] = objects[table[k]]
    BY <2>3, <2>4, <2>5
  <2>7. QED
    BY ONLY <2>1, <2>6
<1>5. BucketsTyped'
  BY <1>1, <1>4 DEF BucketsTyped
<1>6. ASSUME NEW k \in Keys, buckets[k] # NoBucket
      PROVE  Sound(bucket'[buckets[k]]) /\ Covers(bucket'[buckets[k]], cr[k])
  <2>1. buckets[k] \in Buckets
    BY <1>1, <1>6 DEF BucketsTyped
  <2>2. CASE buckets[k] = h
    BY <1>2, <1>4, <2>1, <2>2
  <2>3. CASE buckets[k] # h
    <3>1. bucket'[buckets[k]] = bucket[buckets[k]] /\ cr[k] = Free[k]
      BY <1>2, <1>4, <2>1, <2>3
    <3>2. Sound(bucket[buckets[k]]) /\ Covers(bucket[buckets[k]], Free[k])
      BY <1>1, <1>6 DEF TableSound, FreeCovers, Covers
    <3>3. QED
      BY <3>1, <3>2
  <2>4. QED
    BY <2>2, <2>3
<1>7. TableSound'
  BY <1>6 DEF TableSound, Sound
<1>8. FreeCovers'
  <2>1. \A k \in Keys : buckets[k] = NoBucket => Capacity * Refill <= cr[k]
    <3> TAKE k \in Keys
    <3>1. HAVE buckets[k] = NoBucket
    <3>2. cr[k] = Free[k]
      BY <1>1, <3>1
    <3>3. QED
      BY <1>1, <3>1, <3>2 DEF FreeCovers
  <2>2. QED
    BY <1>6, <2>1 DEF FreeCovers, Covers
<1>9. QED
  BY <1>5, <1>7, <1>8 DEF BucketInv

\* There are no buckets, and credit for a full one for every key.
LEMMA BucketInvInit == BucketInit => BucketInv
<1> SUFFICES ASSUME BucketInit PROVE BucketInv
  OBVIOUS
<1>1. BucketsTyped
  <2>1. Blank \in Objects /\ Idle \in Calls /\ MaxCredit \in Int
    BY IdleIs, CreditBound DEF Blank, Objects
  <2>2. QED
    BY <2>1 DEF BucketInit, BucketsTyped
<1>2. CallsHold /\ TableSound
  BY IdleIs DEF BucketInit, CallsHold, TableSound
<1>3. FreeCovers
  <2>1. ASSUME NEW k \in Keys PROVE Free[k] = MaxCredit
    <3>1. Caught(k) = {}
      BY IdleIs DEF BucketInit, Caught
    <3>2. PICK f : f = [c \in {} |-> caller[c].n]
      OBVIOUS
    <3>3. f \in [{} -> Nat] /\ IsFiniteSet({})
      BY <3>2, FS_EmptySet
    <3>4. SumOf(f, {}) = 0
      BY <3>3, SumParts
    <3>5. AskedBy(caller, {}) = SumOf(f, {})
      <4>1. PICK g : g = caller
        OBVIOUS
      <4>2. AskedBy(g, {}) = SumOf([c \in {} |-> g[c].n], {})
        BY AskedSum
      <4>3. QED
        BY <3>2, <4>1, <4>2
    <3>6. Asked(k) = 0 /\ credit[k] = MaxCredit
      BY <1>1, <3>1, <3>4, <3>5, AskedType DEF BucketsTyped, BucketInit
    <3>7. Free[k] = MaxCredit - 0 * Refill
      BY <1>1, <3>6, FreeType
    <3>8. QED
      BY <3>7, CreditBound, LimitBounds
  <2>2. QED
    BY <2>1, CreditBound DEF BucketInit, FreeCovers
<1>4. QED
  BY <1>1, <1>2, <1>3 DEF BucketInv

\* Tokens are taken from the bucket the call holds, in the table or out of it.
LEMMA TakesKeeps == ASSUME BucketInv, NEW c \in Callers, TakeTokens(c) PROVE BucketInv'
<1> DEFINE k == caller[c].key
           h == Held(c)
           b == Refilled(bucket[h])
           n == caller[c].n
           got == b.tokens >= n
           o == IF got THEN [b EXCEPT !.tokens = @ - n] ELSE b
           cr == IF got /\ buckets[k] = h THEN [Free EXCEPT ![k] = @ - n * Refill] ELSE Free
           f == IF b.tokens < n /\ caller[c].op = "wait"
                THEN [caller[c] EXCEPT !.pc = "relookup", !.held = NoBucket] ELSE Idle
<1>1. /\ BucketsTyped /\ CallsHold /\ TableSound /\ FreeCovers
      /\ caller[c] \in Calls /\ caller[c].pc = "take" /\ k \in Keys /\ h \in Buckets /\ n \in Nat
      /\ Free \in [Keys -> Int] /\ bucket[h] \in Objects /\ credit \in [Keys -> Int]
  BY FreeType DEF BucketInv, TakeTokens, CallsHold, BucketsTyped, Calls, Held
<1>2. /\ caller' = [caller EXCEPT ![c] = f]
      /\ bucket' = Collect(buckets, caller', [bucket EXCEPT ![h] = o])
      /\ UNCHANGED buckets
      /\ credit' = IF got \/ c \in Caught(k) THEN [credit EXCEPT ![k] = @ - n * Refill] ELSE credit
  <2>1. [bucket EXCEPT ![h] = o] =
          [bucket EXCEPT ![h] = IF b.tokens >= n THEN [b EXCEPT !.tokens = @ - n] ELSE b]
    OBVIOUS
  <2>2. QED
    BY <2>1 DEF TakeTokens
<1>3. f \in Calls /\ (f.pc # "idle" => f.key \in Keys) /\ f.pc \notin {"take", "set", "reserve"}
  <2>1. CASE b.tokens < n /\ caller[c].op = "wait"
    <3>1. f = [caller[c] EXCEPT !.pc = "relookup", !.held = NoBucket]
      BY <2>1
    <3> HIDE DEF f
    <3>2. f \in Calls /\ f.pc = "relookup" /\ f.key = caller[c].key
      BY <1>1, <3>1 DEF Calls
    <3>3. QED
      BY <1>1, <3>2
  <2>2. CASE ~(b.tokens < n /\ caller[c].op = "wait")
    BY <2>2, IdleIs
  <2>3. QED
    BY <2>1, <2>2
<1>4. b \in Objects /\ (Sound(bucket[h]) => Sound(b))
  BY <1>1, RefilledIs
<1>5. o \in Objects /\ cr \in [Keys -> Int]
  <2>1. got => [b EXCEPT !.tokens = @ - n] \in Objects
    <3> SUFFICES ASSUME got PROVE [b EXCEPT !.tokens = @ - n] \in Objects
      OBVIOUS
    <3>1. PICK bb \in Objects : bb = b
      BY <1>4
    <3>2. PICK t \in Nat : t = bb.tokens - n
      BY <1>1, <3>1 DEF Objects
    <3>3. [bb EXCEPT !.tokens = t] \in Objects
      BY DEF Objects
    <3>4. QED
      BY <3>1, <3>2, <3>3
  <2>2. n * Refill \in Nat
    BY <1>1, LimitBounds
  <2>3. QED
    BY <1>1, <1>4, <2>1, <2>2
<1>6. ASSUME NEW j \in Keys, buckets[j] = h
      PROVE  Sound(o) /\ Covers(o, cr[j])
  <2>1. buckets[j] # NoBucket
    BY <1>1, <1>6, TokenBucketsAssumption
  <2>2. Sound(bucket[h]) /\ Covers(bucket[h], Free[j]) /\ Free[j] \in Int
    BY <1>1, <1>6, <2>1 DEF TableSound, FreeCovers, Covers
  <2>3. b.tokens * Refill + b.age <= Free[j] /\ Sound(b)
    BY <1>1, <1>4, <2>2, RefillCovered
  <2>4. CASE got
    <3>1. o = [b EXCEPT !.tokens = @ - n] /\ n <= b.tokens
      BY <1>1, <1>4, <2>4 DEF Objects
    <3>2. /\ Sound([b EXCEPT !.tokens = @ - n])
          /\ Covers([b EXCEPT !.tokens = @ - n], Free[j] - n * Refill)
          /\ Covers([b EXCEPT !.tokens = @ - n], Free[j])
      <4> HIDE DEF b, n
      <4>1. n \in Nat /\ n <= b.tokens /\ b \in Objects
        BY <1>1, <1>4, <3>1
      <4>2. QED
        BY <2>2, <2>3, <4>1, TakeCovered
    <3>3. cr[j] = Free[j] - n * Refill \/ cr[j] = Free[j]
      BY <1>1
    <3>4. QED
      BY <3>1, <3>2, <3>3
  <2>5. CASE ~got
    <3>1. o = b /\ cr[j] = Free[j]
      BY <2>5
    <3>2. Covers(b, Free[j])
      <4>1. b.tokens * Refill \in Nat /\ b.age \in Nat /\ MaxCredit \in Nat
        BY <1>4, <2>3, WorthBound, CreditBound DEF Objects
      <4>2. QED
        BY <2>2, <2>3, <4>1 DEF Covers, Smaller
    <3>3. QED
      BY <2>3, <3>1, <3>2
  <2>6. QED
    BY <2>4, <2>5
<1>7. \A j \in Keys : buckets[j] # h => cr[j] = Free[j]
  BY <1>1
<1>12. f.pc # "take"
  BY <1>3
<1> HIDE DEF o, f
<1>8. caller' \in [Callers -> Calls] /\ CallsHold'
  BY <1>1, <1>2, <1>3, CallMoves
<1>21. PICK kk \in Keys :
         /\ kk = k /\ caller[c].key = kk /\ c \in Callers
         /\ cr = IF got /\ buckets[kk] = h THEN [Free EXCEPT ![kk] = @ - n * Refill] ELSE Free
         /\ credit' = IF got \/ c \in Caught(kk) THEN [credit EXCEPT ![kk] = @ - n * Refill] ELSE credit
  BY <1>1, <1>2
<1> HIDE DEF got
<1>13. credit' \in [Keys -> Int] /\ credit'[kk] \in Int /\ n * Refill \in Nat
       /\ \A j \in Keys \ {kk} : credit'[j] = credit[j]
  BY <1>1, <1>2, <1>21, LimitBounds
<1>14. Free' \in [Keys -> Int] /\ \A j \in Keys : Free'[j] = credit'[j] - Asked(j)' * Refill
  BY <1>8, <1>13, FreeTypeLater
<1>15. \A j \in Keys : Free[j] = credit[j] - Asked(j) * Refill
  BY <1>1, FreeType
<1>16. c \in Caught(kk) <=> buckets[kk] # h
  BY <1>1, <1>21 DEF Caught
<1>17. ASSUME NEW j \in Keys, j # kk \/ buckets[kk] = h PROVE Asked(j)' = Asked(j)
  <2>1. c \notin Caught(j) /\ c \notin Caught(j)'
    BY <1>1, <1>2, <1>21, <1>12, <1>16, <1>17 DEF Caught, BucketsTyped
  <2>2. Caught(j)' = Caught(j) /\ \A d \in Caught(j) : caller'[d].n = caller[d].n
    <3>1. \A d \in Callers \ {c} : caller'[d] = caller[d]
      BY <1>1, <1>2, <1>21 DEF BucketsTyped
    <3>2. \A d \in Callers \ {c} : d \in Caught(j)' <=> d \in Caught(j)
      BY <1>2, <3>1 DEF Caught, Held
    <3>3. Caught(j) \subseteq Callers /\ Caught(j)' \subseteq Callers
      BY DEF Caught
    <3>4. QED
      BY <2>1, <3>1, <3>2, <3>3
  <2>3. QED
    BY <1>1, <1>8, <2>2, AskedStays DEF BucketsTyped
<1>18. ASSUME buckets[kk] # h PROVE Asked(kk) = n + Asked(kk)'
  <2>1. c \in Caught(kk) /\ c \notin Caught(kk)'
    BY <1>1, <1>2, <1>21, <1>12, <1>16, <1>18 DEF Caught, BucketsTyped
  <2>2. Caught(kk)' = Caught(kk) \ {c} /\ \A d \in Caught(kk) \ {c} : caller'[d].n = caller[d].n
    <3>1. \A d \in Callers \ {c} : caller'[d] = caller[d]
      BY <1>1, <1>2, <1>21 DEF BucketsTyped
    <3>2. \A d \in Callers \ {c} : d \in Caught(kk)' <=> d \in Caught(kk)
      BY <1>2, <3>1 DEF Caught, Held
    <3>3. Caught(kk) \subseteq Callers /\ Caught(kk)' \subseteq Callers
      BY DEF Caught
    <3>4. QED
      BY <2>1, <3>1, <3>2, <3>3
  <2>3. QED
    BY <1>1, <1>8, <2>1, <2>2, AskedReturns DEF BucketsTyped
<1>19. ASSUME NEW j \in Keys PROVE Free'[j] = cr[j]
  <2>1. CASE j # kk
    <3>1. cr[j] = Free[j] /\ credit'[j] = credit[j]
      BY <1>1, <1>13, <1>21, <2>1
    <3>2. Asked(j)' = Asked(j)
      BY <1>17, <2>1
    <3>3. QED
      BY <1>14, <1>15, <3>1, <3>2
  <2>2. CASE j = kk /\ buckets[kk] = h
    <3>1. Asked(kk)' = Asked(kk) /\ c \notin Caught(kk)
      BY <1>1, <1>16, <1>17, <1>21, <2>2
    <3>2. PICK a \in Int, d \in Int, m \in Int : a = credit[kk] /\ d = Asked(kk) * Refill /\ m = n * Refill
      <4>1. Asked(kk) \in Nat
        BY <1>1, AskedType DEF BucketsTyped
      <4>2. QED
        BY <1>1, <1>13, <4>1, LimitBounds
    <3>3. CASE got
      <4>1. credit'[kk] = a - m
        BY <1>1, <1>2, <1>21, <3>2, <3>3
      <4>2. cr[kk] = Free[kk] - m /\ Free[kk] = a - d /\ Free'[kk] = (a - m) - d
        BY <1>1, <1>14, <1>15, <1>21, <2>2, <3>1, <3>2, <3>3, <4>1
      <4>3. QED
        BY <2>2, <4>2
    <3>4. CASE ~got
      <4>1. credit'[kk] = a /\ cr[kk] = Free[kk]
        BY <1>21, <3>1, <3>2, <3>4
      <4>2. QED
        BY <1>14, <1>15, <2>2, <3>1, <3>2, <4>1
    <3>5. QED
      BY <3>3, <3>4
  <2>3. CASE j = kk /\ buckets[kk] # h
    <3>1. PICK a \in Int, d \in Nat : a = credit[kk] /\ d = Asked(kk)' /\ Asked(kk) = n + d
      BY <1>1, <1>8, <1>18, <2>3, AskedTypeLater
    <3>2. credit'[kk] = a - n * Refill /\ cr[kk] = Free[kk]
      BY <1>1, <1>2, <1>21, <1>16, <2>3, <3>1
    <3>3. (n + d) * Refill = n * Refill + d * Refill /\ n * Refill \in Nat /\ d * Refill \in Nat
      BY <1>1, LimitBounds
    <3>4. Free[kk] = a - (n + d) * Refill /\ Free'[kk] = (a - n * Refill) - d * Refill
      BY <1>1, <1>14, <1>15, <3>1, <3>2
    <3>5. QED
      BY <2>3, <3>2, <3>3, <3>4
  <2>4. QED
    BY <2>1, <2>2, <2>3
<1> HIDE DEF cr, h
<1>20. Free' = cr
  BY <1>5, <1>14, <1>19
<1>9. \A j \in Keys : buckets[j] = h => Sound(o) /\ Covers(o, cr[j])
  BY <1>6
<1>10. h \in Buckets /\ credit' \in [Keys -> Int]
  BY <1>1, <1>13
<1>11. QED
  BY ONLY <1>2, <1>5, <1>7, <1>8, <1>9, <1>10, <1>20, BucketInv, ObjectMoves

\* The bucket is refilled, and the time to the next token read off it.
LEMMA ReserveKeeps == ASSUME BucketInv, NEW c \in Callers, ReserveTime(c) PROVE BucketInv'
<1> DEFINE h == Held(c)
           o == Refilled(bucket[h])
           t == IF o.tokens > 0 THEN 0 ELSE o.refill - o.age
           f == [caller[c] EXCEPT !.pc = "sleep", !.held = NoBucket, !.timer = t]
<1>1. /\ BucketsTyped /\ CallsHold /\ TableSound /\ FreeCovers
      /\ caller[c] \in Calls /\ caller[c].pc = "reserve" /\ caller[c].key \in Keys /\ h \in Buckets
      /\ Free \in [Keys -> Int] /\ credit \in [Keys -> Int] /\ bucket[h] \in Objects
  BY FreeType DEF BucketInv, ReserveTime, CallsHold, BucketsTyped, Calls, Held
<1>2. /\ caller' = [caller EXCEPT ![c] = f]
      /\ bucket' = Collect(buckets, caller', [bucket EXCEPT ![h] = o])
      /\ UNCHANGED <<buckets, credit>>
  BY DEF ReserveTime
<1>3. o \in Objects /\ (Sound(bucket[h]) => Sound(o))
  BY <1>1, RefilledIs
<1>4. f \in Calls /\ f.pc = "sleep" /\ f.key = caller[c].key
  <2>1. PICK tt \in Int : tt = t
    <3>1. o.refill \in Nat /\ o.age \in Nat
      BY <1>3 DEF Objects
    <3>2. QED
      BY <3>1
  <2>2. f = [caller[c] EXCEPT !.pc = "sleep", !.held = NoBucket, !.timer = tt]
    BY <2>1
  <2> HIDE DEF f
  <2>3. QED
    BY ONLY <1>1, <2>2 DEF Calls
<1>5. ASSUME NEW j \in Keys, buckets[j] = h
      PROVE  Sound(o) /\ Covers(o, Free[j])
  <2>1. buckets[j] # NoBucket
    BY <1>1, <1>5, TokenBucketsAssumption
  <2>2. Sound(bucket[h]) /\ Covers(bucket[h], Free[j]) /\ Free[j] \in Int
    BY <1>1, <1>5, <2>1 DEF TableSound, FreeCovers, Covers
  <2>3. o.tokens * Refill + o.age <= Free[j] /\ Sound(o)
    BY <1>1, <1>3, <2>2, RefillCovered
  <2>4. o.tokens * Refill \in Nat /\ o.age \in Nat /\ MaxCredit \in Nat
    BY <1>3, <2>3, WorthBound, CreditBound DEF Objects
  <2>5. QED
    BY <2>2, <2>3, <2>4 DEF Covers, Smaller
<1>6. \A j \in Keys : buckets[j] = h => Sound(o) /\ Covers(o, Free[j])
  BY <1>5
<1>7. PICK cr \in [Keys -> Int] : cr = Free
  BY <1>1
<1>14. f.pc # "take"
  BY <1>4
<1> HIDE DEF f, o, h
<1>8. caller' \in [Callers -> Calls] /\ CallsHold'
  BY <1>1, <1>2, <1>4, CallMoves
<1>9. h \in Buckets
  BY <1>1
<1>10. \A j \in Keys : buckets[j] # h => cr[j] = Free[j]
  BY <1>7
<1>11. \A j \in Keys : buckets[j] = h => Sound(o) /\ Covers(o, cr[j])
  BY <1>6, <1>7
<1>15. \A j \in Keys : Asked(j)' = Asked(j)
  <2>1. caller[c].pc # "take" /\ f \in Calls
    BY <1>1, <1>4
  <2>2. QED
    BY ONLY <1>1, <1>2, <1>14, <2>1, c \in Callers, NobodyCaught
<1>12. credit' \in [Keys -> Int] /\ Free' = cr /\ UNCHANGED buckets
  BY <1>1, <1>2, <1>7, <1>8, <1>15, FreeStays
<1>13. QED
  BY ONLY <1>2, <1>3, <1>8, <1>9, <1>10, <1>11, <1>12, BucketInv, ObjectMoves, ZenonT(60)

\* A new limit cuts the tokens to its capacity.
LEMMA SetKeeps == ASSUME BucketInv, NEW c \in Callers, SetLimit(c) PROVE BucketInv'
<1> DEFINE h == Held(c)
           l == caller[c].limit
           o == [bucket[h] EXCEPT !.capacity = l.capacity, !.refill = l.refill, !.tokens = Smaller(@, l.capacity)]
<1>1. /\ BucketsTyped /\ CallsHold /\ TableSound /\ FreeCovers
      /\ caller[c] \in Calls /\ caller[c].pc = "set" /\ h \in Buckets
      /\ Free \in [Keys -> Int] /\ credit \in [Keys -> Int] /\ bucket[h] \in Objects /\ l \in Limits
  BY FreeType DEF BucketInv, SetLimit, CallsHold, BucketsTyped, Calls, Held
<1>2. /\ caller' = [caller EXCEPT ![c] = Idle]
      /\ bucket' = Collect(buckets, caller', [bucket EXCEPT ![h] = o])
      /\ UNCHANGED <<buckets, credit>>
  BY DEF SetLimit
<1>3. PICK t \in Nat : t = Smaller(bucket[h].tokens, l.capacity) /\ t <= l.capacity /\ t <= bucket[h].tokens
  <2>1. bucket[h].tokens \in Nat /\ l.capacity \in Nat
    BY <1>1, LimitBounds DEF Objects
  <2>2. QED
    BY <2>1 DEF Smaller
<1>4. o \in Objects /\ o.tokens = t /\ o.capacity = l.capacity /\ o.refill = l.refill /\ o.age = bucket[h].age
  <2>1. o = [bucket[h] EXCEPT !.capacity = l.capacity, !.refill = l.refill, !.tokens = t]
    BY <1>3
  <2>2. l.capacity \in Nat /\ l.refill \in Nat \ {0} /\ t \in Nat /\ bucket[h] \in Objects
    BY <1>1, <1>3, LimitBounds
  <2> HIDE DEF o
  <2>3. QED
    BY ONLY <2>1, <2>2 DEF Objects
<1>5. Sound(o)
  BY <1>1, <1>3, <1>4, LimitBounds DEF Sound
<1>6. \A j \in Keys : buckets[j] = h => Sound(o) /\ Covers(o, Free[j])
  <2> TAKE j \in Keys
  <2>1. HAVE buckets[j] = h
  <2>2. buckets[j] # NoBucket
    BY <1>1, <2>1, TokenBucketsAssumption
  <2>3. Covers(bucket[h], Free[j]) /\ Free[j] \in Int
    BY <1>1, <2>1, <2>2 DEF FreeCovers, Covers
  <2>4. bucket[h].tokens \in Nat /\ bucket[h].age \in Nat /\ MaxCredit \in Nat /\ Refill \in Nat
    BY <1>1, CreditBound, LimitBounds DEF Objects
  <2>5. PICK x \in Nat, y \in Nat : x = t * Refill /\ y = bucket[h].tokens * Refill /\ x <= y
    BY <1>3, <2>4, Times
  <2>6. Smaller(MaxCredit, y + bucket[h].age) <= Free[j]
    BY <2>3, <2>5 DEF Covers
  <2>7. Smaller(MaxCredit, x + bucket[h].age) <= Free[j]
    BY <2>3, <2>4, <2>5, <2>6 DEF Smaller
  <2>8. Covers(o, Free[j])
    BY <1>4, <2>5, <2>7 DEF Covers
  <2>9. QED
    BY <1>5, <2>8
<1>7. PICK cr \in [Keys -> Int] : cr = Free
  BY <1>1
<1> HIDE DEF o, h
<1>8. caller' \in [Callers -> Calls] /\ CallsHold'
  BY <1>1, <1>2, IdleIs, CallMoves
<1>9. h \in Buckets
  BY <1>1
<1>10. \A j \in Keys : buckets[j] # h => cr[j] = Free[j]
  BY <1>7
<1>11. \A j \in Keys : buckets[j] = h => Sound(o) /\ Covers(o, cr[j])
  BY <1>6, <1>7
<1>15. \A j \in Keys : Asked(j)' = Asked(j)
  <2>1. caller[c].pc # "take" /\ Idle \in Calls /\ Idle.pc # "take"
    BY <1>1, IdleIs
  <2>2. QED
    BY ONLY <1>1, <1>2, <2>1, c \in Callers, NobodyCaught
<1>12. credit' \in [Keys -> Int] /\ Free' = cr /\ UNCHANGED buckets
  BY <1>1, <1>2, <1>7, <1>8, <1>15, FreeStays
<1>13. o \in Objects
  BY <1>4
<1>14. QED
  BY ONLY <1>2, <1>8, <1>9, <1>10, <1>11, <1>12, <1>13, BucketInv, ObjectMoves, ZenonT(60)

\* A bucket leaves the table, with enough free credit for its key or a new start.
LEMMA TableShrinks ==
  ASSUME BucketInv, NEW gone \in SUBSET Keys, NEW cr \in [Keys -> Int],
         buckets' = [j \in Keys |-> IF j \in gone THEN NoBucket ELSE buckets[j]],
         bucket' = Collect(buckets', caller, bucket), UNCHANGED caller,
         credit' \in [Keys -> Int], Free' = cr,
         \A k \in gone : Capacity * Refill <= cr[k],
         \A k \in Keys \ gone : cr[k] = Free[k]
  PROVE  BucketInv'
<1>1. BucketsTyped /\ TableSound /\ FreeCovers /\ CallsHold /\ NoBucket \notin Buckets
  BY TokenBucketsAssumption DEF BucketInv
<1>2. /\ bucket' \in [Buckets -> Objects]
      /\ \A k \in Keys : buckets'[k] \in Buckets => bucket'[buckets'[k]] = bucket[buckets'[k]]
  <2>1. PICK table : table = buckets'
    OBVIOUS
  <2>2. PICK callers : callers = caller
    OBVIOUS
  <2>3. PICK objects \in [Buckets -> Objects] : objects = bucket
    BY <1>1 DEF BucketsTyped
  <2>4. PICK left : left = Collect(table, callers, objects)
    OBVIOUS
  <2>5. left \in [Buckets -> Objects] /\ \A k \in Keys : table[k] \in Buckets => left[table[k]] = objects[table[k]]
    BY <2>4, CollectIs
  <2>6. bucket' = left
    BY <2>1, <2>2, <2>3, <2>4
  <2>7. QED
    BY ONLY <2>1, <2>3, <2>5, <2>6
<1>3. \A k \in Keys : buckets'[k] = IF k \in gone THEN NoBucket ELSE buckets[k]
  OBVIOUS
<1>4. BucketsTyped' /\ CallsHold'
  BY <1>1, <1>2, <1>3 DEF BucketsTyped, CallsHold
<1>5. ASSUME NEW k \in Keys, buckets'[k] # NoBucket
      PROVE  Sound(bucket'[buckets'[k]]) /\ Covers(bucket'[buckets'[k]], cr[k])
  <2>1. k \notin gone /\ buckets'[k] = buckets[k] /\ buckets[k] # NoBucket /\ buckets[k] \in Buckets
    BY <1>1, <1>3, <1>5 DEF BucketsTyped
  <2>2. bucket'[buckets'[k]] = bucket[buckets[k]] /\ cr[k] = Free[k]
    BY <1>2, <2>1
  <2>3. Sound(bucket[buckets[k]]) /\ Covers(bucket[buckets[k]], Free[k])
    BY <1>1, <2>1 DEF TableSound, FreeCovers, Covers
  <2>4. QED
    BY <2>2, <2>3
<1>6. TableSound'
  BY <1>5 DEF TableSound, Sound
<1>7. ASSUME NEW k \in Keys, buckets'[k] = NoBucket PROVE Capacity * Refill <= cr[k]
  <2>1. CASE k \in gone
    BY <2>1
  <2>2. CASE k \notin gone
    BY <1>1, <1>3, <1>7, <2>2 DEF FreeCovers
  <2>3. QED
    BY <2>1, <2>2
<1>8. FreeCovers'
  BY <1>5, <1>7 DEF FreeCovers, Covers
<1>9. QED
  BY <1>4, <1>6, <1>8 DEF BucketInv

\* Whatever is set aside for the calls with a dropped bucket, the free credit is
\* given anew to the keys of an eviction or a Reset, and to no others.
LEMMA CreditAfterDropIs ==
  ASSUME BucketsTyped, NEW ks \in SUBSET Keys, CreditAfterDrop(ks), caller' \in [Callers -> Calls]
  PROVE  /\ credit' \in [Keys -> Int] /\ Free' \in [Keys -> Int]
         /\ \A k \in ks : Capacity * Refill <= Free'[k]
         /\ \A k \in Keys \ ks : Free'[k] = Free[k]
<1>1. ASSUME NEW k \in Keys
      PROVE  /\ credit'[k] \in Int
             /\ k \in ks => Capacity * Refill <= credit'[k] - Asked(k)' * Refill
             /\ k \notin ks => credit'[k] - Asked(k)' * Refill = credit[k] - Asked(k) * Refill
  <2>1. PICK a \in Nat, b \in Nat, cr \in Int, r \in Nat, x \in Nat :
          a = Asked(k) /\ b = Asked(k)' /\ cr = credit[k] /\ r = Refill /\ x = Capacity * Refill
    BY AskedType, AskedTypeLater, LimitBounds, CreditBound DEF BucketsTyped
  <2>2. credit'[k] = (IF k \in ks THEN Larger(cr, x + a * r) ELSE cr) + (b - a) * r
    BY <2>1 DEF CreditAfterDrop
  <2>3. (b - a) * r = b * r - a * r /\ a * r \in Nat /\ b * r \in Nat
    OBVIOUS
  <2>4. PICK y \in Nat, z \in Nat : y = a * r /\ z = b * r
    BY <2>3
  <2>5. credit'[k] = (IF k \in ks THEN Larger(cr, x + y) ELSE cr) + (z - y)
    BY <2>2, <2>3, <2>4
  <2>6. Larger(cr, x + y) \in Int /\ x + y <= Larger(cr, x + y)
    BY DEF Larger
  <2>7. credit'[k] \in Int /\ (k \in ks => x <= credit'[k] - z) /\ (k \notin ks => credit'[k] - z = cr - y)
    BY <2>5, <2>6
  <2>8. QED
    BY <2>1, <2>4, <2>7
<1>2. credit' \in [Keys -> Int]
  <2>1. credit' = [k \in Keys |-> credit'[k]]
    BY DEF CreditAfterDrop
  <2>2. QED
    BY <1>1, <2>1
<1>3. Free' \in [Keys -> Int] /\ \A k \in Keys : Free'[k] = credit'[k] - Asked(k)' * Refill
  BY <1>2, FreeTypeLater
<1>4. \A k \in Keys : Free[k] = credit[k] - Asked(k) * Refill
  BY FreeType
<1>5. QED
  BY <1>1, <1>2, <1>3, <1>4

\* Reset takes the key's bucket out of the table.
LEMMA ResetKeeps == ASSUME BucketInv, NEW k \in Keys, Reset(k) PROVE BucketInv'
<1>1. BucketsTyped /\ caller' \in [Callers -> Calls]
  BY DEF BucketInv, BucketsTyped, Reset
<1>0. CreditAfterDrop({k}) /\ {k} \in SUBSET Keys
  BY DEF Reset
<1>2. PICK cr \in [Keys -> Int] : /\ cr = Free' /\ credit' \in [Keys -> Int]
                                  /\ Capacity * Refill <= cr[k]
                                  /\ \A j \in Keys \ {k} : cr[j] = Free[j]
  <2>1. PICK ks \in SUBSET Keys : ks = {k} /\ CreditAfterDrop(ks)
    BY <1>0
  <2>2. /\ credit' \in [Keys -> Int] /\ Free' \in [Keys -> Int]
        /\ \A j \in ks : Capacity * Refill <= Free'[j]
        /\ \A j \in Keys \ ks : Free'[j] = Free[j]
    BY ONLY <1>1, <2>1, CreditAfterDropIs
  <2>3. QED
    BY <2>1, <2>2
<1>3. buckets' = [j \in Keys |-> IF j \in {k} THEN NoBucket ELSE buckets[j]]
  BY <1>1 DEF Reset, BucketsTyped
<1>4. /\ bucket' = Collect(buckets', caller, bucket) /\ credit' \in [Keys -> Int] /\ Free' = cr
      /\ UNCHANGED caller
  BY <1>2 DEF Reset
<1>5. \A j \in {k} : Capacity * Refill <= cr[j]
  BY <1>2
<1>6. PICK gone \in SUBSET Keys : gone = {k}
  OBVIOUS
<1>7. /\ buckets' = [j \in Keys |-> IF j \in gone THEN NoBucket ELSE buckets[j]]
      /\ \A j \in gone : Capacity * Refill <= cr[j]
      /\ \A j \in Keys \ gone : cr[j] = Free[j]
  BY <1>2, <1>3, <1>5, <1>6
<1>8. QED
  BY ONLY <1>4, <1>7, BucketInv, TableShrinks

\* Cleanup drops buckets that are old enough to be full.
LEMMA CleanupKeeps == ASSUME BucketInv, Cleanup PROVE BucketInv'
<1> DEFINE old == {k \in Keys : buckets[k] # NoBucket /\ bucket[buckets[k]].age > CleanupInterval}
<1>1. BucketsTyped /\ TableSound /\ FreeCovers /\ caller' \in [Callers -> Calls]
  BY DEF BucketInv, BucketsTyped, Cleanup
<1>2. PICK cr \in [Keys -> Int] : cr = Free /\ cr = Free' /\ credit' \in [Keys -> Int]
  <2>1. PICK ks \in SUBSET Keys : ks = {} /\ CreditAfterDrop(ks)
    BY DEF Cleanup
  <2>2. /\ credit' \in [Keys -> Int] /\ Free' \in [Keys -> Int]
        /\ \A j \in Keys \ ks : Free'[j] = Free[j]
    BY ONLY <1>1, <2>1, CreditAfterDropIs
  <2>3. Free \in [Keys -> Int]
    BY <1>1, FreeType
  <2>4. QED
    BY <2>1, <2>2, <2>3
<1>3. ASSUME NEW k \in old PROVE Capacity * Refill <= cr[k]
  <2>1. PICK b \in Objects : b = bucket[buckets[k]]
    BY <1>1 DEF BucketsTyped
  <2>2. Sound(b) /\ Covers(b, cr[k]) /\ b.age > CleanupInterval
    BY <1>1, <1>2, <2>1 DEF TableSound, FreeCovers, Covers
  <2>3. b.tokens * Refill \in Nat /\ b.age \in Nat /\ cr[k] \in Int /\ CleanupInterval \in Int
    BY <2>2, WorthBound, TokenBucketsAssumption DEF Objects
  <2>4. PICK w \in Nat : w = b.tokens * Refill
    BY <2>3
  <2>5. PICK x \in Nat : x = Capacity * Refill /\ x <= MaxCredit /\ x <= CleanupInterval
    BY CreditBound
  <2>6. Smaller(MaxCredit, w + b.age) <= cr[k] /\ MaxCredit \in Nat
    BY <2>2, <2>4, CreditBound DEF Covers
  <2>7. x <= cr[k]
    BY <2>2, <2>3, <2>5, <2>6 DEF Smaller
  <2>8. QED
    BY <2>5, <2>7
<1>4. /\ buckets' = [j \in Keys |-> IF j \in old THEN NoBucket ELSE buckets[j]]
      /\ bucket' = Collect(buckets', caller, bucket) /\ credit' \in [Keys -> Int] /\ Free' = cr
      /\ UNCHANGED caller
  BY <1>2 DEF Cleanup
<1>5. PICK gone \in SUBSET Keys : gone = old
  OBVIOUS
<1>6. buckets' = [j \in Keys |-> IF j \in gone THEN NoBucket ELSE buckets[j]]
  BY <1>4, <1>5
<1>7. \A k \in gone : Capacity * Refill <= cr[k]
  BY <1>3, <1>5
<1>8. \A k \in Keys \ gone : cr[k] = Free[k]
  BY <1>2
<1>9. QED
  BY ONLY <1>4, <1>6, <1>7, <1>8, BucketInv, TableShrinks

\* A call that knows its key and holds nothing yet.
LEMMA BeginKeeps ==
  ASSUME BucketInv, NEW c \in Callers, NEW k \in Keys, NEW op \in {"allow", "wait", "setlimit"},
         NEW n \in Nat, NEW l \in Limits, Begin(c, k, op, n, l)
  PROVE  BucketInv'
<1> DEFINE m == IF op = "wait" THEN 1 ELSE n
           f == [op |-> op, pc |-> "lookup", key |-> k, n |-> m, limit |-> l, held |-> NoBucket, timer |-> 0]
<1>1. caller' = [caller EXCEPT ![c] = f] /\ UNCHANGED <<buckets, bucket, credit>> /\ caller[c].pc = "idle"
  BY DEF Begin
<1>2. m \in Nat
  OBVIOUS
<1> HIDE DEF m
<1>3. f \in Calls /\ f.pc = "lookup" /\ f.key = k
  BY <1>2 DEF Calls
<1> HIDE DEF f
<1>4. caller' \in [Callers -> Calls] /\ CallsHold'
  BY <1>1, <1>3, CallMoves DEF BucketInv
<1>5. \A j \in Keys : Asked(j)' = Asked(j)
  <2>1. BucketsTyped /\ caller[c].pc # "take" /\ f.pc # "take" /\ f \in Calls /\ UNCHANGED buckets
    BY <1>1, <1>3 DEF BucketInv
  <2>2. QED
    BY ONLY <1>1, <2>1, c \in Callers, NobodyCaught
<1>6. QED
  BY <1>1, <1>4, <1>5, CallOnly

\* A Wait looks again, or is cancelled.
LEMMA SleepKeeps ==
  ASSUME BucketInv, NEW c \in Callers, WaitAgain(c) \/ WaitCancelled(c) PROVE BucketInv'
<1>1. BucketsTyped /\ CallsHold /\ caller[c] \in Calls /\ caller[c].pc = "sleep" /\ caller[c].key \in Keys
      /\ UNCHANGED <<buckets, bucket, credit>>
  BY DEF BucketInv, BucketsTyped, CallsHold, WaitAgain, WaitCancelled
<1>2. CASE WaitAgain(c)
  <2> DEFINE f == [caller[c] EXCEPT !.pc = "lookup"]
  <2>1. caller' = [caller EXCEPT ![c] = f]
    BY <1>2 DEF WaitAgain
  <2>2. f \in Calls /\ f.pc = "lookup" /\ f.key = caller[c].key
    BY <1>1 DEF Calls
  <2> HIDE DEF f
  <2>3. caller' \in [Callers -> Calls] /\ CallsHold'
    BY <1>1, <2>1, <2>2, CallMoves
  <2>4. \A j \in Keys : Asked(j)' = Asked(j)
    <3>1. caller[c].pc # "take" /\ f.pc # "take" /\ f \in Calls /\ UNCHANGED buckets
      BY <1>1, <2>2
    <3>2. QED
      BY ONLY <1>1, <2>1, <3>1, c \in Callers, NobodyCaught
  <2>5. QED
    BY <1>1, <2>3, <2>4, CallOnly
<1>3. CASE WaitCancelled(c)
  <2>1. caller' = [caller EXCEPT ![c] = Idle]
    BY <1>3 DEF WaitCancelled
  <2>2. caller' \in [Callers -> Calls] /\ CallsHold'
    BY <1>1, <2>1, IdleIs, CallMoves
  <2>3. \A j \in Keys : Asked(j)' = Asked(j)
    <3>1. caller[c].pc # "take" /\ Idle.pc # "take" /\ Idle \in Calls /\ UNCHANGED buckets
      BY <1>1, IdleIs
    <3>2. QED
      BY ONLY <1>1, <2>1, <3>1, c \in Callers, NobodyCaught
  <2>4. QED
    BY <1>1, <2>2, <2>3, CallOnly
<1>4. QED
  BY <1>2, <1>3

\* With time bucket and credit grow alike.
LEMMA TickKeeps == ASSUME BucketInv, Tick PROVE BucketInv'
<1>1. BucketsTyped /\ CallsHold /\ TableSound /\ FreeCovers /\ UNCHANGED buckets
  BY DEF BucketInv, Tick
<1>2. MaxCredit \in Nat /\ MaxAge \in Nat /\ Capacity * Refill \in Nat /\ Capacity * Refill <= MaxCredit
      /\ Refill \in Nat
  BY CreditBound, LimitBounds, TokenBucketsAssumption
<1>3. ASSUME NEW b \in Buckets
      PROVE  /\ bucket'[b] \in Objects /\ bucket'[b].capacity = bucket[b].capacity /\ bucket'[b].refill = bucket[b].refill
             /\ bucket'[b].tokens = bucket[b].tokens /\ bucket'[b].age <= bucket[b].age + 1
  <2>1. bucket[b] \in Objects /\ bucket[b].age \in Nat
    BY <1>1 DEF BucketsTyped, Objects
  <2>2. CASE bucket[b] = Blank
    <3>1. bucket'[b] = Blank
      BY <2>2 DEF Tick
    <3>2. QED
      BY <2>1, <2>2, <3>1
  <2>3. CASE bucket[b] # Blank
    <3>1. PICK x \in Nat : x = Smaller(MaxAge, bucket[b].age + 1) /\ x <= bucket[b].age + 1
      BY <1>2, <2>1 DEF Smaller
    <3>2. bucket'[b] = [bucket[b] EXCEPT !.age = x]
      BY <2>3, <3>1 DEF Tick
    <3>3. PICK o \in Objects : o = bucket[b]
      BY <2>1
    <3>4. PICK p : p = [o EXCEPT !.age = x]
      OBVIOUS
    <3>5. p \in Objects /\ p.capacity = o.capacity /\ p.refill = o.refill /\ p.tokens = o.tokens /\ p.age = x
      BY ONLY <3>4, x \in Nat, o \in Objects DEF Objects
    <3>6. bucket'[b] = p
      BY <3>2, <3>3, <3>4
    <3>7. QED
      BY <3>1, <3>3, <3>5, <3>6
  <2>4. QED
    BY <2>2, <2>3
<1>4. bucket' \in [Buckets -> Objects]
  <2>1. bucket' = [b \in Buckets |-> bucket'[b]]
    BY DEF Tick
  <2>2. QED
    BY <1>3, <2>1
<1>6. /\ caller' \in [Callers -> Calls] /\ CallsHold'
      /\ \A k \in Keys : Asked(k)' = Asked(k)
  <2>1. ASSUME NEW c \in Callers
        PROVE  caller'[c] \in Calls /\ caller'[c].pc = caller[c].pc /\ caller'[c].key = caller[c].key
               /\ caller'[c].held = caller[c].held /\ caller'[c].n = caller[c].n
    <3>1. caller[c] \in Calls /\ caller[c].timer \in Int
      BY <1>1 DEF BucketsTyped, Calls
    <3>2. PICK x \in Int : x = Larger(0, caller[c].timer - 1)
      BY <3>1 DEF Larger
    <3>3. caller'[c] = [caller[c] EXCEPT !.timer = x]
      BY <3>2 DEF Tick
    <3>4. PICK o \in Calls : o = caller[c]
      BY <3>1
    <3>5. PICK p : p = [o EXCEPT !.timer = x]
      OBVIOUS
    <3>6. p \in Calls /\ p.pc = o.pc /\ p.key = o.key /\ p.held = o.held /\ p.n = o.n
      BY ONLY <3>5, x \in Int, o \in Calls DEF Calls
    <3>7. caller'[c] = p
      BY <3>3, <3>4, <3>5
    <3>8. QED
      BY <3>4, <3>6, <3>7
  <2>2. caller' = [c \in Callers |-> caller'[c]]
    BY DEF Tick
  <2>3. caller' \in [Callers -> Calls]
    BY <2>1, <2>2
  <2>4. CallsHold'
    BY <1>1, <2>1, <2>3 DEF CallsHold
  <2>5. ASSUME NEW k \in Keys PROVE Asked(k)' = Asked(k)
    <3>1. \A c \in Callers : c \in Caught(k)' <=> c \in Caught(k)
      BY <1>1, <2>1 DEF Caught, Held
    <3>2. Caught(k) \subseteq Callers /\ Caught(k)' \subseteq Callers
      BY DEF Caught
    <3>3. Caught(k)' = Caught(k) /\ \A c \in Caught(k) : caller'[c].n = caller[c].n
      BY <2>1, <3>1, <3>2
    <3>4. QED
      BY <1>1, <2>3, <3>3, AskedStays DEF BucketsTyped
  <2>6. QED
    BY <2>3, <2>4, <2>5
<1>5. credit' \in [Keys -> Int]
  <2>1. \A k \in Keys : Smaller(MaxCredit + Asked(k) * Refill, credit[k] + 1) \in Int
    <3> TAKE k \in Keys
    <3>1. PICK a \in Nat, cr \in Int : a = Asked(k) /\ cr = credit[k]
      BY <1>1, AskedType DEF BucketsTyped
    <3>2. MaxCredit + a * Refill \in Int
      BY <1>2
    <3>3. QED
      BY <3>1, <3>2 DEF Smaller
  <2>2. QED
    BY <2>1 DEF Tick
<1>11. ASSUME NEW k \in Keys
       PROVE  Free'[k] \in Int /\ Free[k] \in Int /\ Free'[k] = Smaller(MaxCredit, Free[k] + 1)
  <2>1. PICK a \in Nat, cr \in Int : a = Asked(k) /\ cr = credit[k]
    BY <1>1, AskedType DEF BucketsTyped
  <2>2. PICK z \in Nat : z = a * Refill
    BY <1>2
  <2>3. credit'[k] = Smaller(MaxCredit + z, cr + 1)
    BY <2>1, <2>2 DEF Tick
  <2>4. Free[k] = cr - z /\ Free'[k] = credit'[k] - z
    BY <1>1, <1>5, <1>6, <2>1, <2>2, FreeType, FreeTypeLater
  <2>5. QED
    BY <1>2, <2>3, <2>4 DEF Smaller
<1>7. BucketsTyped'
  BY <1>1, <1>4, <1>5, <1>6 DEF BucketsTyped
<1>8. TableSound'
  <2>1. ASSUME NEW k \in Keys, buckets[k] # NoBucket PROVE Sound(bucket'[buckets[k]])
    <3>1. buckets[k] \in Buckets /\ Sound(bucket[buckets[k]])
      BY <1>1, <2>1 DEF BucketsTyped, TableSound
    <3>2. QED
      BY <1>3, <3>1 DEF Sound
  <2>2. QED
    BY <1>1, <2>1 DEF TableSound, Sound
<1>9. FreeCovers'
  <2>1. ASSUME NEW k \in Keys, buckets[k] # NoBucket PROVE Covers(bucket'[buckets[k]], Free'[k])
    <3>1. PICK g \in Buckets : g = buckets[k]
      BY <1>1, <2>1 DEF BucketsTyped
    <3>2. Covers(bucket[g], Free[k]) /\ Free[k] \in Int /\ bucket[g] \in Objects
      BY <1>1, <1>11, <2>1, <3>1 DEF BucketsTyped, FreeCovers, Covers
    <3>3. PICK a \in Nat, b \in Nat : a = bucket[g].age /\ b = bucket'[g].age /\ b <= a + 1
      BY <1>3, <3>2 DEF Objects
    <3>4. PICK w \in Nat : w = bucket[g].tokens * Refill
      BY <1>2, <3>2 DEF Objects
    <3>5. Smaller(MaxCredit, w + a) <= Free[k]
      BY <3>2, <3>3, <3>4 DEF Covers
    <3>6. Smaller(MaxCredit, w + b) <= Smaller(MaxCredit, Free[k] + 1)
      BY <1>2, <3>2, <3>3, <3>5 DEF Smaller
    <3>7. bucket'[g].tokens = bucket[g].tokens
      BY <1>3
    <3>8. Covers(bucket'[g], Free'[k])
      BY <1>11, <3>3, <3>4, <3>6, <3>7 DEF Covers
    <3>9. QED
      BY <3>1, <3>8
  <2>2. ASSUME NEW k \in Keys, buckets[k] = NoBucket PROVE Capacity * Refill <= Free'[k]
    <3>1. PICK x \in Nat : x = Capacity * Refill /\ x <= MaxCredit
      BY <1>2
    <3>2. x <= Free[k] /\ Free[k] \in Int
      BY <1>1, <1>11, <2>2, <3>1 DEF FreeCovers, BucketsTyped
    <3>3. QED
      BY <1>2, <1>11, <3>1, <3>2 DEF Smaller
  <2>3. QED
    BY <1>1, <2>1, <2>2 DEF FreeCovers, Covers
<1>10. QED
  BY <1>6, <1>7, <1>8, <1>9 DEF BucketInv

\* A new bucket is full, which its key without a bucket has credit for.
LEMMA GetKeeps == ASSUME BucketInv, NEW c \in Callers, GetBucket(c) PROVE BucketInv'
<1> DEFINE k == caller[c].key
           Holding(b) == [caller[c] EXCEPT !.held = b, !.pc = AfterLookup(c)]
<1>1. /\ BucketsTyped /\ CallsHold /\ TableSound /\ FreeCovers /\ NoBucket \notin Buckets
      /\ caller[c] \in Calls /\ k \in Keys
  BY TokenBucketsAssumption DEF BucketInv, GetBucket, CallsHold, BucketsTyped
<1>2. AfterLookup(c) \in {"reserve", "set", "take"}
  BY DEF AfterLookup
<1>3. ASSUME NEW b \in Buckets, caller' = [caller EXCEPT ![c].held = b, ![c].pc = AfterLookup(c)]
      PROVE  caller' \in [Callers -> Calls] /\ CallsHold'
  <2> DEFINE f == Holding(b)
  <2>1. caller' = [caller EXCEPT ![c] = f]
    BY <1>1, <1>3 DEF BucketsTyped
  <2>2. PICK pc \in {"reserve", "set", "take"} : pc = AfterLookup(c)
    BY <1>2
  <2>3. f = [caller[c] EXCEPT !.held = b, !.pc = pc]
    BY <2>2
  <2> HIDE DEF f
  <2>4. f \in Calls /\ f.key = caller[c].key /\ f.held = b
    BY ONLY <1>1, <2>3, b \in Buckets, pc \in {"reserve", "set", "take"} DEF Calls
  <2>5. (f.pc # "idle" => f.key \in Keys) /\ (f.pc \in {"take", "set", "reserve"} => f.held \in Buckets)
    BY <1>1, <2>4
  <2>6. QED
    BY ONLY <1>1, <2>1, <2>4, <2>5, c \in Callers, CallMoves
<1>4. CASE /\ buckets[k] # NoBucket
           /\ caller' = [caller EXCEPT ![c].held = buckets[k], ![c].pc = AfterLookup(c)]
           /\ UNCHANGED <<buckets, bucket, credit>>
  <2>1. PICK b \in Buckets : b = buckets[k]
    BY <1>1, <1>4 DEF BucketsTyped
  <2>2. caller' \in [Callers -> Calls] /\ CallsHold'
    BY <1>3, <1>4, <2>1
  <2>3. PICK f : f = Holding(b)
    OBVIOUS
  <2>4. caller' = [caller EXCEPT ![c] = f]
    BY <1>1, <1>4, <2>1, <2>3 DEF BucketsTyped
  <2>5. f.held = buckets[f.key] /\ f \in Calls /\ caller[c].pc # "take" /\ UNCHANGED buckets
    <3>1. f \in Calls
      BY <1>1, <2>2, <2>4 DEF BucketsTyped
    <3>2. PICK pc : pc = AfterLookup(c)
      OBVIOUS
    <3>3. f = [caller[c] EXCEPT !.held = b, !.pc = pc]
      BY <2>3, <3>2
    <3>4. f.held = b /\ f.key = caller[c].key
      BY ONLY <1>1, <3>3 DEF Calls
    <3>5. caller[c].pc # "take"
      BY DEF GetBucket
    <3>6. QED
      BY <1>4, <2>1, <3>1, <3>4, <3>5
  <2>6. \A j \in Keys : Asked(j)' = Asked(j)
    BY ONLY <1>1, <2>4, <2>5, c \in Callers, NobodyCaught
  <2>7. QED
    BY <1>4, <2>2, <2>6, CallOnly
<1>5. ASSUME NEW b \in Unused, NEW out \in SUBSET Keys, buckets[k] = NoBucket,
             \A j \in out : buckets[j] # NoBucket,
             buckets' = [j \in Keys |-> IF j = k THEN b ELSE IF j \in out THEN NoBucket ELSE buckets[j]],
             CreditAfterDrop(out),
             caller' = [caller EXCEPT ![c].held = b, ![c].pc = AfterLookup(c)],
             bucket' = Collect(buckets', caller', [bucket EXCEPT ![b] = Full])
      PROVE  BucketInv'
  <2> DEFINE objects == [bucket EXCEPT ![b] = Full]
  <2>1. b \in Buckets /\ (\A j \in Keys : buckets[j] # b)
    BY DEF Unused
  <2>2. caller' \in [Callers -> Calls] /\ CallsHold'
    BY <1>3, <1>5, <2>1
  <2>3. /\ Full \in Objects /\ Sound(Full) /\ Full.age = 0
        /\ Full.tokens * Refill \in Nat /\ Full.tokens * Refill <= Capacity * Refill
    <3>1. Full \in Objects /\ Full.tokens = Default.capacity /\ Full.age = 0 /\ Full.capacity = Default.capacity
          /\ Full.refill = Default.refill
      BY LimitBounds, TokenBucketsAssumption DEF Full, Objects
    <3>2. Sound(Full)
      BY <3>1, LimitBounds, TokenBucketsAssumption DEF Sound
    <3>3. QED
      BY <3>1, <3>2, WorthBound
  <2>4. objects \in [Buckets -> Objects] /\ objects[b] = Full /\ \A g \in Buckets \ {b} : objects[g] = bucket[g]
    BY <1>1, <2>1, <2>3 DEF BucketsTyped
  <2>5. bucket' = Collect(buckets', caller', objects)
    BY <1>5
  <2> HIDE DEF objects
  <2>6. /\ bucket' \in [Buckets -> Objects]
        /\ \A j \in Keys : buckets'[j] \in Buckets => bucket'[buckets'[j]] = objects[buckets'[j]]
    <3>1. PICK table : table = buckets'
      OBVIOUS
    <3>2. PICK callers : callers = caller'
      OBVIOUS
    <3>3. PICK left : left = Collect(table, callers, objects)
      OBVIOUS
    <3>4. left \in [Buckets -> Objects] /\ \A j \in Keys : table[j] \in Buckets => left[table[j]] = objects[table[j]]
      BY <2>4, <3>3, CollectIs
    <3>5. bucket' = left
      BY ONLY <2>5, <3>1, <3>2, <3>3
    <3>6. QED
      BY ONLY <3>1, <3>4, <3>5
  <2>7. PICK cr \in [Keys -> Int] : /\ cr = Free' /\ credit' \in [Keys -> Int]
                                    /\ \A j \in out : Capacity * Refill <= cr[j]
                                    /\ \A j \in Keys \ out : cr[j] = Free[j]
    BY <1>1, <1>5, <2>2, CreditAfterDropIs
  <2>8. \A j \in Keys : buckets'[j] = IF j = k THEN b ELSE IF j \in out THEN NoBucket ELSE buckets[j]
    BY ONLY <1>5
  <2>9. BucketsTyped'
    <3>1. buckets' \in [Keys -> Buckets \cup {NoBucket}]
      BY <1>1, <1>5, <2>1 DEF BucketsTyped
    <3>2. QED
      BY ONLY <2>2, <2>6, <2>7, <3>1 DEF BucketsTyped
  <2>10. ASSUME NEW j \in Keys, buckets'[j] # NoBucket
         PROVE  Sound(bucket'[buckets'[j]]) /\ Covers(bucket'[buckets'[j]], cr[j])
    <3>1. CASE j = k
      <4>1. buckets'[j] = b /\ bucket'[buckets'[j]] = Full
        BY ONLY <2>1, <2>4, <2>6, <2>8, <3>1, j \in Keys
      <4>2. j \notin out /\ Capacity * Refill <= Free[k] /\ cr[j] = Free[k] /\ Free[k] \in Int
        BY <1>1, <1>5, <2>7, <3>1, FreeType DEF FreeCovers
      <4>3. Covers(Full, cr[j])
        <5>1. PICK x \in Nat, y \in Nat : x = Full.tokens * Refill /\ y = Capacity * Refill /\ x <= y
          BY <2>3, CreditBound
        <5>2. x + 0 <= cr[j] /\ cr[j] \in Int /\ MaxCredit \in Nat
          BY <4>2, <5>1, CreditBound
        <5>3. Smaller(MaxCredit, x + 0) <= cr[j]
          BY <5>2 DEF Smaller
        <5>4. QED
          BY <2>3, <5>1, <5>3 DEF Covers
      <4>4. QED
        BY <2>3, <4>1, <4>3
    <3>2. CASE j # k
      <4>1. j \notin out /\ buckets'[j] = buckets[j] /\ buckets[j] \in Buckets /\ buckets[j] # b /\ buckets[j] # NoBucket
        BY <1>1, <2>1, <2>8, <2>10, <3>2 DEF BucketsTyped
      <4>2. bucket'[buckets'[j]] = bucket[buckets[j]] /\ cr[j] = Free[j]
        BY ONLY <2>4, <2>6, <2>7, <4>1, j \in Keys
      <4>3. Sound(bucket[buckets[j]]) /\ Covers(bucket[buckets[j]], Free[j])
        BY <1>1, <4>1 DEF TableSound, FreeCovers, Covers
      <4>4. QED
        BY <4>2, <4>3
    <3>3. QED
      BY <3>1, <3>2
  <2>11. ASSUME NEW j \in Keys, buckets'[j] = NoBucket PROVE Capacity * Refill <= cr[j]
    <3>1. j # k
      BY <1>1, <2>1, <2>8, <2>11
    <3>2. CASE j \in out
      BY <2>7, <3>2
    <3>3. CASE j \notin out
      <4>1. buckets[j] = NoBucket /\ cr[j] = Free[j]
        BY <2>7, <2>8, <2>11, <3>1, <3>3
      <4>2. QED
        BY <1>1, <4>1 DEF FreeCovers
    <3>4. QED
      BY <3>2, <3>3
  <2>12. TableSound'
    BY <2>10 DEF TableSound, Sound
  <2>13. FreeCovers'
    <3>1. \A j \in Keys : buckets'[j] # NoBucket => Covers(bucket'[buckets'[j]], cr[j])
      BY <2>10
    <3>2. \A j \in Keys : buckets'[j] = NoBucket => Capacity * Refill <= cr[j]
      BY <2>11
    <3>3. Free' = cr
      BY <2>7
    <3>4. QED
      BY ONLY <3>1, <3>2, <3>3 DEF FreeCovers, Covers
  <2>14. QED
    BY <2>2, <2>9, <2>12, <2>13 DEF BucketInv
<1>6. CASE /\ buckets[k] = NoBucket
           /\ \E b \in Unused, out \in SUBSET Keys :
                /\ LET here == {j \in Keys : buckets[j] # NoBucket} IN
                   IF Cardinality(here) >= MaxBuckets /\ here # {}
                   THEN \E j \in here : out = {j} ELSE out = {}
                /\ b = CHOOSE u \in Unused : TRUE
                /\ buckets' = [j \in Keys |-> IF j = k THEN b
                                              ELSE IF j \in out THEN NoBucket ELSE buckets[j]]
                /\ caller' = [caller EXCEPT ![c].held = b, ![c].pc = AfterLookup(c)]
                /\ bucket' = Collect(buckets', caller', [bucket EXCEPT ![b] = Full])
                /\ CreditAfterDrop(out)
  <2>1. PICK b \in Unused, out \in SUBSET Keys :
                /\ LET here == {j \in Keys : buckets[j] # NoBucket} IN
                   IF Cardinality(here) >= MaxBuckets /\ here # {}
                   THEN \E j \in here : out = {j} ELSE out = {}
                /\ b = CHOOSE u \in Unused : TRUE
                /\ buckets' = [j \in Keys |-> IF j = k THEN b
                                              ELSE IF j \in out THEN NoBucket ELSE buckets[j]]
                /\ caller' = [caller EXCEPT ![c].held = b, ![c].pc = AfterLookup(c)]
                /\ bucket' = Collect(buckets', caller', [bucket EXCEPT ![b] = Full])
                /\ CreditAfterDrop(out)
    BY <1>6
  <2>2. \A j \in out : buckets[j] # NoBucket
    BY <2>1
  <2>3. QED
    BY <1>5, <1>6, <2>1, <2>2
<1>7. QED
  BY <1>4, <1>6 DEF GetBucket

\* Every step keeps the invariant.
LEMMA BucketInvNext == BucketInv /\ [BucketNext]_bucketVars => BucketInv'
<1> SUFFICES ASSUME BucketInv, [BucketNext]_bucketVars PROVE BucketInv'
  OBVIOUS
<1>1. CASE \E c \in Callers : \E k \in KeysOf[c] :
             \/ \E n \in Amounts : Begin(c, k, "allow", n, Default)
             \/ Begin(c, k, "wait", 1, Default)
             \/ \E l \in Limits : Begin(c, k, "setlimit", 0, l)
  <2>0. PICK c \in Callers : \E k \in KeysOf[c] :
             \/ \E n \in Amounts : Begin(c, k, "allow", n, Default)
             \/ Begin(c, k, "wait", 1, Default)
             \/ \E l \in Limits : Begin(c, k, "setlimit", 0, l)
    BY <1>1
  <2>1. PICK k \in KeysOf[c] :
             \/ \E n \in Amounts : Begin(c, k, "allow", n, Default)
             \/ Begin(c, k, "wait", 1, Default)
             \/ \E l \in Limits : Begin(c, k, "setlimit", 0, l)
    BY <2>0
  <2>2. k \in Keys /\ Default \in Limits /\ Amounts \subseteq Nat
    BY TokenBucketsAssumption
  <2>3. QED
    BY <2>1, <2>2, BeginKeeps
<1>2. CASE \E c \in Callers : CallerStep(c) \/ WaitCancelled(c)
  BY <1>2, GetKeeps, TakesKeeps, ReserveKeeps, SleepKeeps, SetKeeps DEF CallerStep
<1>3. CASE \E k \in Keys : Reset(k)
  BY <1>3, ResetKeeps
<1>4. CASE Cleanup
  BY <1>4, CleanupKeeps
<1>5. CASE Tick
  BY <1>5, TickKeeps
<1>6. CASE UNCHANGED bucketVars
  <2>1. UNCHANGED <<buckets, bucket, caller, credit>> /\ caller \in [Callers -> Calls] /\ CallsHold
    BY <1>6 DEF bucketVars, BucketInv, BucketsTyped
  <2>2. ASSUME NEW k \in Keys PROVE Asked(k)' = Asked(k)
    <3>1. Caught(k)' = Caught(k)
      BY <2>1 DEF Caught, Held
    <3>2. QED
      BY <2>1, <3>1, AskedStays
  <2>3. CallsHold'
    BY <2>1 DEF CallsHold
  <2>4. QED
    BY <2>1, <2>2, <2>3, CallOnly
<1>7. QED
  BY <1>1, <1>2, <1>3, <1>4, <1>5, <1>6 DEF BucketNext

\* Every grant to a key is charged to the credit that an ideal bucket for the key
\* would have, which never runs below what the bucket of the table can still give:
\* a key is granted no more than that, in any schedule of lookups, cleanup and
\* changes of the limit, but for the calls whose bucket is dropped between their
\* lookup and their take, each of which is allowed what it asks for besides. That
\* is the whole of what such a drop can add; only eviction and Reset start a key
\* anew (rate_limiting.go:103-107, 179-260, 295-308).
THEOREM GrantsAreCovered == BucketSpec => []Covered
<1>1. BucketInit => BucketInv
  BY BucketInvInit
<1>2. BucketInv /\ [BucketNext]_bucketVars => BucketInv'
  BY BucketInvNext
<1>3. BucketInv => Covered
  BY FreeIsEnough
<1>4. QED
  BY <1>1, <1>2, <1>3, PTL DEF BucketSpec, BucketSafe

-----------------------------------------------------------------------------
(***************************************************************************)
(* Quotas. What was granted in the last period lies in two windows at      *)
(* most, so the sums of the grants, moment by moment backwards, are kept:  *)
(* as far back as the window has been open they are no more than it has    *)
(* used, and over the whole period no more than a window's worth on top.   *)
(* What a call was granted from a quota that had been dropped is left out  *)
(* of these sums; there is a limit's worth at most for each such call.     *)
(***************************************************************************)

QObjects == [limit : 0..MaxLimit, used : Nat, period : Nat, left : Int, resetAge : Int]

QCalls == [op : {"none", "use", "check", "set", "reset"}, pc : {"idle", "lookup", "held"},
           key : QKeys \cup {CHOOSE k \in QKeys : TRUE}, n : Nat, limit : QLimits,
           held : Quotas \cup {NoQuota}]

Stretches == [0..MinPeriod-1 -> Nat]

QuotasTyped ==
  /\ quotas \in [QKeys -> Quotas \cup {NoQuota}]
  /\ quota \in [Quotas -> QObjects]
  /\ qcaller \in [QCallers -> QCalls]
  /\ recent \in [QKeys -> Stretches] /\ caught \in [QKeys -> Stretches]

\* A call holds a quota of its own key, if that is in the table still.
QCallsHold ==
  \A c \in QCallers :
    /\ qcaller[c].pc # "idle" => qcaller[c].key \in QKeys
    /\ qcaller[c].pc = "held" =>
         qcaller[c].held \in Quotas /\ \A j \in QKeys : quotas[j] = qcaller[c].held => j = qcaller[c].key

OneKeyEach == \A j, k \in QKeys : quotas[j] = quotas[k] /\ quotas[j] # NoQuota => j = k

\* What the limits allow of a quota.
Within(q) ==
  q.used <= q.limit /\ q.limit <= MaxLimit /\ MinPeriod <= q.period /\ -1 <= q.left /\ q.left <= q.period

TableWithin == \A k \in QKeys : quotas[k] # NoQuota => Within(quota[quotas[k]])

\* What was granted lately, against what the quota of the table has used and how
\* long its window has been open: the grants of this window were all used from
\* it, and those before it were no more than a window's worth.
Fits(r, used, elapsed) ==
  \E g \in PartialSums(MinPeriod, r) :
    /\ g[MinPeriod] <= MaxLimit + used
    /\ \A t \in 0..MinPeriod : t <= elapsed => g[t] <= used

\* The grants of a key lately: those that fit, and those of the calls that were
\* caught with a dropped quota.
Accounted(rec, cgt, used, elapsed) ==
  \E r \in Stretches :
    /\ Fits(r, used, elapsed)
    /\ \A t \in 0..MinPeriod-1 : rec[t] <= r[t] + cgt[t] * MaxLimit

UsedOf(k) == IF quotas[k] = NoQuota THEN 0 ELSE quota[quotas[k]].used
ElapsedOf(k) == IF quotas[k] = NoQuota THEN 0 ELSE quota[quotas[k]].period - quota[quotas[k]].left

RecentFits == \A k \in QKeys : Accounted(recent[k], caught[k], UsedOf(k), ElapsedOf(k))

QuotaInv == QuotasTyped /\ QCallsHold /\ OneKeyEach /\ TableWithin /\ RecentFits

\* The bounds that the limits give.
LEMMA QLimitBounds ==
  /\ MinPeriod \in Nat \ {0} /\ MaxLimit \in Nat
  /\ \A l \in QLimits : l.limit \in Nat /\ l.period \in Nat \ {0} /\ l.limit <= MaxLimit /\ MinPeriod <= l.period
<1>1. QLimits # {} /\ \A l \in QLimits : l.limit \in Nat /\ l.period \in Nat \ {0}
  BY QuotasAssumption
<1>2. MaxLimit \in {l.limit : l \in QLimits} /\ \A l \in QLimits : l.limit <= MaxLimit
  <2> DEFINE S == {l.limit : l \in QLimits}
             f == [l \in QLimits |-> l.limit]
  <2>1. f \in [QLimits -> Nat] /\ \A l \in QLimits : f[l] = l.limit
    BY <1>1
  <2>2. PICK b \in Nat : \A l \in QLimits : f[l] <= b
    <3> HIDE DEF f
    <3>1. QED
      BY <2>1, FiniteBound, QuotasAssumption
  <2>3. S \in SUBSET Nat /\ S # {} /\ \A x \in S : x <= b
    BY <1>1, <2>1, <2>2
  <2>4. Max(S) \in S /\ \A x \in S : x <= Max(S)
    <3> HIDE DEF S
    <3>1. QED
      BY <2>3, Greatest
  <2>5. MaxLimit = Max(S)
    BY DEF MaxLimit
  <2>6. QED
    BY <2>4, <2>5
<1>3. MinPeriod \in Periods /\ \A p \in Periods : MinPeriod <= p
  <2>1. Periods \in SUBSET Nat /\ Periods # {}
    BY <1>1 DEF Periods
  <2>2. PICK m \in Periods : \A p \in Periods : m <= p
    BY <2>1, Least
  <2>3. \A x \in Periods : (\A y \in Periods : x <= y) => x = m
    <3>1. \A x \in Periods : x \in Nat
      BY <2>1
    <3>2. QED
      BY <2>2, <3>1
  <2>4. Min(Periods) = m
    BY <2>2, <2>3 DEF Min
  <2>5. QED
    BY <2>2, <2>4 DEF MinPeriod
<1>4. QED
  BY <1>1, <1>2, <1>3 DEF Periods

-----------------------------------------------------------------------------
\* What the stretch of a period allows.
LEMMA PartialGrow ==
  ASSUME NEW r \in Stretches, NEW g \in PartialSums(MinPeriod, r)
  PROVE  /\ g \in [0..MinPeriod -> Nat] /\ g[0] = 0
         /\ \A t \in 0..MinPeriod-1 : g[t + 1] = g[t] + r[t] /\ r[t] \in Nat /\ g[t] <= g[t + 1]
         /\ 0 \in 0..MinPeriod /\ MinPeriod \in 0..MinPeriod /\ 0 \in 0..MinPeriod-1 /\ MinPeriod-1 \in 0..MinPeriod-1
         /\ g[MinPeriod] \in Nat /\ MaxLimit \in Nat /\ MinPeriod \in Nat
<1>1. MinPeriod \in Nat \ {0} /\ MaxLimit \in Nat
  BY QLimitBounds
<1>2. g \in [0..MinPeriod -> Nat] /\ g[0] = 0 /\ \A t \in 0..MinPeriod-1 : g[t + 1] = g[t] + r[t]
  BY DEF PartialSums
<1>3. \A t \in 0..MinPeriod-1 : r[t] \in Nat /\ g[t] \in Nat /\ t \in 0..MinPeriod
  BY <1>1, <1>2 DEF Stretches
<1>4. \A t \in 0..MinPeriod-1 : g[t] <= g[t + 1]
  <2> TAKE t \in 0..MinPeriod-1
  <2>1. PICK a \in Nat, b \in Nat : a = g[t] /\ b = r[t]
    BY <1>3
  <2>2. a <= a + b
    OBVIOUS
  <2>3. QED
    BY <1>2, <2>1, <2>2
<1>5. 0 \in 0..MinPeriod /\ MinPeriod \in 0..MinPeriod /\ 0 \in 0..MinPeriod-1 /\ MinPeriod-1 \in 0..MinPeriod-1
  BY <1>1
<1>6. QED
  BY <1>1, <1>2, <1>3, <1>4, <1>5

\* A window that ran out was a whole stretch long: the next may start.
LEMMA FitsReset ==
  ASSUME NEW r \in Stretches, NEW used \in Nat, used <= MaxLimit, NEW elapsed \in Int,
         Fits(r, used, elapsed), MinPeriod <= elapsed \/ used = 0
  PROVE  Fits(r, 0, 0)
<1>1. PICK g \in PartialSums(MinPeriod, r) : /\ g[MinPeriod] <= MaxLimit + used
                                             /\ \A t \in 0..MinPeriod : t <= elapsed => g[t] <= used
  BY DEF Fits
<1>2. g \in [0..MinPeriod -> Nat] /\ g[0] = 0 /\ MinPeriod \in 0..MinPeriod /\ g[MinPeriod] \in Nat /\ MaxLimit \in Nat
  BY PartialGrow
<1>3. g[MinPeriod] <= MaxLimit + 0
  BY <1>1, <1>2
<1>4. \A t \in 0..MinPeriod : t <= 0 => g[t] <= 0
  BY <1>2
<1>5. QED
  BY <1>3, <1>4 DEF Fits

\* Where nothing was granted, everything fits.
LEMMA FitsNothing ==
  ASSUME NEW used \in Nat, NEW elapsed
  PROVE  Nothing \in Stretches /\ Fits(Nothing, used, elapsed)
<1> DEFINE g == [t \in 0..MinPeriod |-> 0]
<1>1. MinPeriod \in Nat \ {0} /\ MaxLimit \in Nat
  BY QLimitBounds
<1>2. Nothing \in Stretches
  BY DEF Nothing, Stretches
<1>3. g \in PartialSums(MinPeriod, Nothing)
  <2>1. \A t \in 0..MinPeriod-1 : t \in 0..MinPeriod /\ t + 1 \in 0..MinPeriod /\ Nothing[t] = 0
    BY <1>1 DEF Nothing
  <2>2. g[0] = 0
    BY <1>1
  <2>3. QED
    BY <2>1, <2>2 DEF PartialSums
<1>4. g[MinPeriod] <= MaxLimit + used /\ \A t \in 0..MinPeriod : t <= elapsed => g[t] <= used
  BY <1>1
<1>5. QED
  BY <1>2, <1>3, <1>4 DEF Fits

\* What is used counts in the window and in the stretch alike.
LEMMA FitsUse ==
  ASSUME NEW r \in Stretches, NEW used \in Nat, NEW elapsed, Fits(r, used, elapsed), NEW n \in Nat
  PROVE  [r EXCEPT ![0] = @ + n] \in Stretches /\ Fits([r EXCEPT ![0] = @ + n], used + n, elapsed)
<1>1. PICK g \in PartialSums(MinPeriod, r) : /\ g[MinPeriod] <= MaxLimit + used
                                             /\ \A t \in 0..MinPeriod : t <= elapsed => g[t] <= used
  BY DEF Fits
<1>2. /\ g \in [0..MinPeriod -> Nat] /\ g[0] = 0
      /\ \A t \in 0..MinPeriod-1 : g[t + 1] = g[t] + r[t] /\ r[t] \in Nat /\ g[t] <= g[t + 1]
      /\ 0 \in 0..MinPeriod /\ MinPeriod \in 0..MinPeriod /\ 0 \in 0..MinPeriod-1
      /\ g[MinPeriod] \in Nat /\ MaxLimit \in Nat
  BY PartialGrow
<1>3. MinPeriod \in Nat \ {0}
  BY QLimitBounds
<1> DEFINE h == [t \in 0..MinPeriod |-> IF t = 0 THEN 0 ELSE g[t] + n]
           q == [r EXCEPT ![0] = @ + n]
<1>4. q \in Stretches /\ \A t \in 0..MinPeriod-1 : q[t] = IF t = 0 THEN r[0] + n ELSE r[t]
  BY <1>2 DEF Stretches
<1>5. h \in [0..MinPeriod -> Nat] /\ h[0] = 0 /\ \A t \in 0..MinPeriod : t # 0 => h[t] = g[t] + n
  <2>1. \A t \in 0..MinPeriod : g[t] + n \in Nat
    <3> TAKE t \in 0..MinPeriod
    <3>1. PICK a \in Nat : a = g[t]
      BY <1>2
    <3>2. QED
      BY <3>1
  <2>2. QED
    BY <1>2, <2>1
<1> HIDE DEF h, q
<1>6. ASSUME NEW t \in 0..MinPeriod-1 PROVE h[t + 1] = h[t] + q[t]
  <2>1. t \in 0..MinPeriod /\ t + 1 \in 0..MinPeriod /\ t + 1 # 0
    BY <1>3
  <2>2. PICK a \in Nat, b \in Nat : a = g[t] /\ b = r[t] /\ g[t + 1] = a + b
    BY <1>2, <2>1, ZenonT(60)
  <2>3. h[t + 1] = (a + b) + n
    BY <1>5, <2>1, <2>2
  <2>4. CASE t = 0
    <3>1. h[t] = 0 /\ a = 0 /\ q[t] = b + n
      BY <1>2, <1>4, <1>5, <2>2, <2>4
    <3>2. QED
      BY <2>3, <3>1
  <2>5. CASE t # 0
    <3>1. h[t] = a + n /\ q[t] = b
      BY <1>4, <1>5, <2>1, <2>2, <2>5
    <3>2. QED
      BY <2>3, <3>1
  <2>6. QED
    BY <2>4, <2>5
<1>7. h \in PartialSums(MinPeriod, q)
  BY <1>5, <1>6 DEF PartialSums
<1>8. h[MinPeriod] <= MaxLimit + (used + n)
  <2>1. h[MinPeriod] = g[MinPeriod] + n
    BY <1>2, <1>3, <1>5
  <2>2. QED
    BY <1>1, <1>2, <2>1
<1>9. ASSUME NEW t \in 0..MinPeriod, t <= elapsed PROVE h[t] <= used + n
  <2>1. PICK a \in Nat : a = g[t] /\ a <= used
    BY <1>1, <1>2, <1>9
  <2>2. h[t] = 0 \/ h[t] = a + n
    BY <1>5, <2>1
  <2>3. QED
    BY <2>1, <2>2
<1>10. Fits(q, used + n, elapsed)
  BY <1>7, <1>8, <1>9 DEF Fits
<1>11. QED
  BY <1>4, <1>10 DEF q

\* A tick later the oldest grants are no longer lately, and the window is a tick
\* older.
LEMMA FitsTick ==
  ASSUME NEW r \in Stretches, NEW used \in Nat, NEW elapsed \in Int, Fits(r, used, elapsed),
         NEW later \in Int, later <= elapsed + 1,
         NEW q, q = [t \in 0..MinPeriod - 1 |-> IF t = 0 THEN 0 ELSE r[t - 1]]
  PROVE  q \in Stretches /\ Fits(q, used, later)
<1>1. PICK g \in PartialSums(MinPeriod, r) : /\ g[MinPeriod] <= MaxLimit + used
                                             /\ \A t \in 0..MinPeriod : t <= elapsed => g[t] <= used
  BY DEF Fits
<1>2. /\ g \in [0..MinPeriod -> Nat] /\ g[0] = 0
      /\ \A t \in 0..MinPeriod-1 : g[t + 1] = g[t] + r[t] /\ r[t] \in Nat /\ g[t] <= g[t + 1]
      /\ 0 \in 0..MinPeriod /\ MinPeriod \in 0..MinPeriod /\ 0 \in 0..MinPeriod-1 /\ MinPeriod-1 \in 0..MinPeriod-1
      /\ g[MinPeriod] \in Nat /\ MaxLimit \in Nat
  BY PartialGrow
<1>3. MinPeriod \in Nat \ {0}
  BY QLimitBounds
<1> DEFINE h == [t \in 0..MinPeriod |-> IF t = 0 THEN 0 ELSE g[t - 1]]
<1>4. q \in Stretches /\ \A t \in 0..MinPeriod-1 : q[t] = IF t = 0 THEN 0 ELSE r[t - 1]
  <2>1. \A t \in 0..MinPeriod-1 : t # 0 => t - 1 \in 0..MinPeriod-1
    BY <1>3
  <2>2. QED
    BY <1>2, <2>1 DEF Stretches
<1>5. h \in [0..MinPeriod -> Nat] /\ h[0] = 0 /\ \A t \in 0..MinPeriod : t # 0 => h[t] = g[t - 1]
  <2>1. \A t \in 0..MinPeriod : t # 0 => t - 1 \in 0..MinPeriod
    BY <1>3
  <2>2. QED
    BY <1>2, <2>1
<1> HIDE DEF h
<1>6. ASSUME NEW t \in 0..MinPeriod-1 PROVE h[t + 1] = h[t] + q[t]
  <2>1. t \in 0..MinPeriod /\ t + 1 \in 0..MinPeriod /\ t + 1 # 0 /\ (t + 1) - 1 = t
    BY <1>3
  <2>2. h[t + 1] = g[t]
    BY <1>5, <2>1
  <2>3. CASE t = 0
    BY <1>2, <1>4, <1>5, <2>2, <2>3
  <2>4. CASE t # 0
    <3>1. t - 1 \in 0..MinPeriod-1 /\ (t - 1) + 1 = t
      BY <1>3, <2>4
    <3>2. g[t] = g[t - 1] + r[t - 1]
      BY <1>2, <3>1
    <3>3. h[t] = g[t - 1] /\ q[t] = r[t - 1]
      BY <1>4, <1>5, <2>1, <2>4
    <3>4. QED
      BY <2>2, <3>2, <3>3
  <2>5. QED
    BY <2>3, <2>4
<1>7. h \in PartialSums(MinPeriod, q)
  BY <1>5, <1>6 DEF PartialSums
<1>8. h[MinPeriod] <= MaxLimit + used
  <2>1. h[MinPeriod] = g[MinPeriod - 1]
    BY <1>2, <1>3, <1>5
  <2>2. (MinPeriod - 1) + 1 = MinPeriod /\ MinPeriod - 1 \in 0..MinPeriod
    BY <1>3
  <2>3. g[MinPeriod - 1] <= g[MinPeriod] /\ g[MinPeriod - 1] \in Nat
    BY <1>2, <2>2
  <2>4. QED
    BY <1>1, <1>2, <2>1, <2>3
<1>9. ASSUME NEW t \in 0..MinPeriod, t <= later PROVE h[t] <= used
  <2>1. CASE t = 0
    BY <1>5, <2>1
  <2>2. CASE t # 0
    <3>1. t - 1 \in 0..MinPeriod /\ t - 1 <= elapsed
      BY <1>3, <1>9, <2>2
    <3>2. QED
      BY <1>1, <1>5, <2>2, <3>1
  <2>3. QED
    BY <2>1, <2>2
<1>10. QED
  BY <1>4, <1>7, <1>8, <1>9 DEF Fits

\* A window that ran out, with the grants to caught calls.
LEMMA AccountedReset ==
  ASSUME NEW rec, NEW cgt, NEW used \in Nat, used <= MaxLimit, NEW elapsed \in Int,
         Accounted(rec, cgt, used, elapsed), MinPeriod <= elapsed \/ used = 0
  PROVE  Accounted(rec, cgt, 0, 0)
<1>1. PICK r \in Stretches : /\ Fits(r, used, elapsed)
                             /\ \A t \in 0..MinPeriod-1 : rec[t] <= r[t] + cgt[t] * MaxLimit
  BY DEF Accounted
<1>2. Fits(r, 0, 0)
  BY <1>1, FitsReset
<1>3. QED
  BY <1>1, <1>2 DEF Accounted

\* Where nothing was granted, there is nothing to account for.
LEMMA AccountedNothing ==
  ASSUME NEW used \in Nat, NEW elapsed
  PROVE  Nothing \in Stretches /\ Accounted(Nothing, Nothing, used, elapsed)
<1>1. Nothing \in Stretches /\ Fits(Nothing, used, elapsed)
  BY FitsNothing
<1>2. MaxLimit \in Nat /\ \A t \in 0..MinPeriod-1 : Nothing[t] = 0
  BY QLimitBounds DEF Nothing
<1>3. 0 <= 0 + 0 * MaxLimit
  BY <1>2
<1>4. QED
  BY <1>1, <1>2, <1>3 DEF Accounted

\* What is used from the quota of the table.
LEMMA AccountedUse ==
  ASSUME NEW rec \in Stretches, NEW cgt \in Stretches, NEW used \in Nat, NEW elapsed,
         Accounted(rec, cgt, used, elapsed), NEW n \in Nat
  PROVE  /\ [rec EXCEPT ![0] = @ + n] \in Stretches
         /\ Accounted([rec EXCEPT ![0] = @ + n], cgt, used + n, elapsed)
<1>1. PICK r \in Stretches : /\ Fits(r, used, elapsed)
                             /\ \A t \in 0..MinPeriod-1 : rec[t] <= r[t] + cgt[t] * MaxLimit
  BY DEF Accounted
<1>2. PICK p : p = [rec EXCEPT ![0] = @ + n]
  OBVIOUS
<1>3. PICK q : q = [r EXCEPT ![0] = @ + n]
  OBVIOUS
<1>4. q \in Stretches /\ Fits(q, used + n, elapsed)
  BY <1>1, <1>3, FitsUse
<1>5. MinPeriod \in Nat \ {0} /\ MaxLimit \in Nat /\ 0 \in 0..MinPeriod-1
  BY QLimitBounds
<1>6. p \in Stretches /\ \A t \in 0..MinPeriod-1 : p[t] = IF t = 0 THEN rec[t] + n ELSE rec[t]
  BY <1>2, <1>5 DEF Stretches
<1>7. ASSUME NEW t \in 0..MinPeriod-1 PROVE p[t] <= q[t] + cgt[t] * MaxLimit
  <2>1. PICK a \in Nat, b \in Nat, d \in Nat : a = rec[t] /\ b = r[t] /\ d = cgt[t]
    BY DEF Stretches
  <2>2. d * MaxLimit \in Nat /\ a <= b + d * MaxLimit
    BY <1>1, <1>5, <2>1
  <2>3. q[t] = IF t = 0 THEN b + n ELSE b
    BY <1>3, <2>1 DEF Stretches
  <2>4. p[t] = IF t = 0 THEN a + n ELSE a
    BY <1>6, <2>1
  <2>5. QED
    BY <2>1, <2>2, <2>3, <2>4
<1>8. QED
  BY <1>2, <1>4, <1>6, <1>7 DEF Accounted

\* What is used from a quota that was dropped.
LEMMA AccountedCaught ==
  ASSUME NEW rec \in Stretches, NEW cgt \in Stretches, NEW used, NEW elapsed,
         Accounted(rec, cgt, used, elapsed), NEW n \in Nat, n <= MaxLimit
  PROVE  /\ [rec EXCEPT ![0] = @ + n] \in Stretches /\ [cgt EXCEPT ![0] = @ + 1] \in Stretches
         /\ Accounted([rec EXCEPT ![0] = @ + n], [cgt EXCEPT ![0] = @ + 1], used, elapsed)
<1>1. PICK r \in Stretches : /\ Fits(r, used, elapsed)
                             /\ \A t \in 0..MinPeriod-1 : rec[t] <= r[t] + cgt[t] * MaxLimit
  BY DEF Accounted
<1>2. PICK p : p = [rec EXCEPT ![0] = @ + n]
  OBVIOUS
<1>3. PICK q : q = [cgt EXCEPT ![0] = @ + 1]
  OBVIOUS
<1>4. MinPeriod \in Nat \ {0} /\ MaxLimit \in Nat /\ 0 \in 0..MinPeriod-1
  BY QLimitBounds
<1>5. p \in Stretches /\ \A t \in 0..MinPeriod-1 : p[t] = IF t = 0 THEN rec[t] + n ELSE rec[t]
  BY <1>2, <1>4 DEF Stretches
<1>6. q \in Stretches /\ \A t \in 0..MinPeriod-1 : q[t] = IF t = 0 THEN cgt[t] + 1 ELSE cgt[t]
  BY <1>3, <1>4, SMTT(40) DEF Stretches
<1>7. ASSUME NEW t \in 0..MinPeriod-1 PROVE p[t] <= r[t] + q[t] * MaxLimit
  <2>1. PICK a \in Nat, b \in Nat, d \in Nat : a = rec[t] /\ b = r[t] /\ d = cgt[t]
    BY DEF Stretches
  <2>2. d * MaxLimit \in Nat /\ a <= b + d * MaxLimit /\ (d + 1) * MaxLimit = d * MaxLimit + MaxLimit
    BY <1>1, <1>4, <2>1
  <2>3. p[t] = IF t = 0 THEN a + n ELSE a
    BY <1>5, <2>1
  <2>4. q[t] = IF t = 0 THEN d + 1 ELSE d
    BY <1>6, <2>1
  <2>5. CASE t = 0
    <3>1. p[t] = a + n /\ q[t] = d + 1 /\ a + n <= b + (d + 1) * MaxLimit
      BY <1>4, <2>2, <2>3, <2>4, <2>5
    <3>2. QED
      BY <2>1, <3>1
  <2>6. CASE t # 0
    BY <2>1, <2>2, <2>3, <2>4, <2>6
  <2>7. QED
    BY <2>5, <2>6
<1>8. QED
  BY <1>1, <1>2, <1>3, <1>5, <1>6, <1>7 DEF Accounted

\* A tick later everything is a tick older.
LEMMA OlderIs ==
  ASSUME NEW r \in Stretches
  PROVE  Older(r) \in Stretches /\ \A t \in 0..MinPeriod-1 : Older(r)[t] = IF t = 0 THEN 0 ELSE r[t - 1]
<1>1. MinPeriod \in Nat \ {0}
  BY QLimitBounds
<1>2. \A t \in 0..MinPeriod-1 : t # 0 => t - 1 \in 0..MinPeriod-1
  BY <1>1
<1>3. QED
  BY <1>2 DEF Older, Stretches

LEMMA AccountedTick ==
  ASSUME NEW rec \in Stretches, NEW cgt \in Stretches, NEW used \in Nat, NEW elapsed \in Int,
         Accounted(rec, cgt, used, elapsed), NEW later \in Int, later <= elapsed + 1
  PROVE  Older(rec) \in Stretches /\ Older(cgt) \in Stretches /\ Accounted(Older(rec), Older(cgt), used, later)
<1>1. PICK r \in Stretches : /\ Fits(r, used, elapsed)
                             /\ \A t \in 0..MinPeriod-1 : rec[t] <= r[t] + cgt[t] * MaxLimit
  BY DEF Accounted
<1>2. Older(r) \in Stretches /\ Fits(Older(r), used, later)
  <2>1. PICK q : q = Older(r)
    OBVIOUS
  <2>2. q = [t \in 0..MinPeriod - 1 |-> IF t = 0 THEN 0 ELSE r[t - 1]]
    BY <2>1 DEF Older
  <2>3. QED
    BY <1>1, <2>1, <2>2, FitsTick
<1>3. MinPeriod \in Nat \ {0} /\ MaxLimit \in Nat
  BY QLimitBounds
<1>4. ASSUME NEW t \in 0..MinPeriod-1 PROVE Older(rec)[t] <= Older(r)[t] + Older(cgt)[t] * MaxLimit
  <2>1. CASE t = 0
    <3>1. Older(rec)[t] = 0 /\ Older(r)[t] = 0 /\ Older(cgt)[t] = 0
      BY <2>1, OlderIs
    <3>2. 0 <= 0 + 0 * MaxLimit
      BY <1>3
    <3>3. QED
      BY <3>1, <3>2
  <2>2. CASE t # 0
    <3>1. t - 1 \in 0..MinPeriod-1
      BY <1>3, <2>2
    <3>2. Older(rec)[t] = rec[t - 1] /\ Older(r)[t] = r[t - 1] /\ Older(cgt)[t] = cgt[t - 1]
      BY <2>2, OlderIs
    <3>3. QED
      BY <1>1, <3>1, <3>2
  <2>3. QED
    BY <2>1, <2>2
<1>5. QED
  BY <1>2, <1>4, OlderIs DEF Accounted

\* Total, as the lemmas on sums have it.
LEMMA TotalIs == ASSUME NEW r PROVE Total(r) = SumOf(r, 0..MinPeriod-1)
BY DEF Total, MapThenSumSet, MapThenFoldSet, SumOf, SumStep

\* The invariant says what the property says.
LEMMA FitsIsTwice == QuotaInv => TwoWindowsAtMost
<1> SUFFICES ASSUME QuotaInv, NEW k \in QKeys
             PROVE  Total(recent[k]) <= (2 + Total(caught[k])) * MaxLimit
  BY DEF TwoWindowsAtMost
<1>1. PICK rec \in Stretches, cgt \in Stretches :
        rec = recent[k] /\ cgt = caught[k] /\ Accounted(rec, cgt, UsedOf(k), ElapsedOf(k))
  BY DEF QuotaInv, QuotasTyped, RecentFits
<1>2. PICK r \in Stretches : /\ Fits(r, UsedOf(k), ElapsedOf(k))
                             /\ \A t \in 0..MinPeriod-1 : rec[t] <= r[t] + cgt[t] * MaxLimit
  BY <1>1 DEF Accounted
<1>3. PICK g \in PartialSums(MinPeriod, r) : g[MinPeriod] <= MaxLimit + UsedOf(k)
  BY <1>2 DEF Fits
<1>4. MinPeriod \in Nat /\ MaxLimit \in Nat
  BY QLimitBounds
<1>5. SumOf(r, 0..MinPeriod-1) = g[MinPeriod]
  BY <1>3, <1>4, SumIs DEF Stretches
<1>6. UsedOf(k) \in Nat /\ UsedOf(k) <= MaxLimit
  <2>1. CASE quotas[k] = NoQuota
    BY <1>4, <2>1 DEF UsedOf
  <2>2. CASE quotas[k] # NoQuota
    <3>1. PICK q \in QObjects : q = quota[quotas[k]] /\ Within(q)
      BY <2>2 DEF QuotaInv, QuotasTyped, TableWithin
    <3>2. UsedOf(k) = q.used /\ q.used \in Nat /\ q.limit \in Nat /\ q.used <= q.limit /\ q.limit <= MaxLimit
      BY <1>4, <2>2, <3>1 DEF UsedOf, Within, QObjects
    <3>3. QED
      BY <1>4, <3>2
  <2>3. QED
    BY <2>1, <2>2
<1>7. g[MinPeriod] \in Nat
  BY <1>2, PartialGrow
<1>8. g[MinPeriod] <= 2 * MaxLimit
  BY <1>3, <1>4, <1>6, <1>7
<1>9. SumOf(rec, 0..MinPeriod-1) <= SumOf(r, 0..MinPeriod-1) + SumOf(cgt, 0..MinPeriod-1) * MaxLimit
  <2>1. PICK S : S = 0..MinPeriod-1
    OBVIOUS
  <2>2. IsFiniteSet(S)
    BY <1>4, <2>1, FS_Interval
  <2>3. rec \in [S -> Nat] /\ r \in [S -> Nat] /\ cgt \in [S -> Nat] /\ \A t \in S : rec[t] <= r[t] + cgt[t] * MaxLimit
    BY <1>2, <2>1 DEF Stretches
  <2>4. SumOf(rec, S) <= SumOf(r, S) + SumOf(cgt, S) * MaxLimit
    BY ONLY <1>4, <2>2, <2>3, SumGrows
  <2>5. QED
    BY <2>1, <2>4
<1>10. SumOf(cgt, 0..MinPeriod-1) \in Nat /\ SumOf(rec, 0..MinPeriod-1) \in Nat
  <2>1. PICK S : S = 0..MinPeriod-1
    OBVIOUS
  <2>2. IsFiniteSet(S)
    BY <1>4, <2>1, FS_Interval
  <2>5. cgt \in [S -> Nat] /\ rec \in [S -> Nat]
    BY <2>1 DEF Stretches
  <2>3. SumOf(cgt, S) \in Nat /\ SumOf(rec, S) \in Nat
    BY <2>2, <2>5, SumParts
  <2>4. QED
    BY <2>1, <2>3
<1>11. PICK a \in Nat, b \in Nat : a = Total(recent[k]) /\ b = Total(caught[k])
                                   /\ a <= g[MinPeriod] + b * MaxLimit
  BY <1>1, <1>5, <1>9, <1>10, TotalIs
<1>12. b * MaxLimit \in Nat /\ (2 + b) * MaxLimit = 2 * MaxLimit + b * MaxLimit
  BY <1>4
<1>13. a <= (2 + b) * MaxLimit
  BY <1>4, <1>7, <1>8, <1>11, <1>12
<1>14. QED
  BY <1>11, <1>13

-----------------------------------------------------------------------------
\* What CollectQuotas leaves of the objects that the table has.
LEMMA CollectQuotasIs ==
  ASSUME NEW table, NEW callers, NEW objects \in [Quotas -> QObjects]
  PROVE  /\ CollectQuotas(table, callers, objects) \in [Quotas -> QObjects]
         /\ \A k \in QKeys : table[k] \in Quotas => CollectQuotas(table, callers, objects)[table[k]] = objects[table[k]]
<1>1. QBlank \in QObjects
  BY QLimitBounds DEF QBlank, QObjects
<1>2. QED
  BY <1>1 DEF CollectQuotas

\* One object changes, and those the table has are otherwise as they were.
LEMMA QuotaChanges ==
  ASSUME quota \in [Quotas -> QObjects], NEW h \in Quotas, NEW o \in QObjects,
         quota' = CollectQuotas(quotas', qcaller', [quota EXCEPT ![h] = o])
  PROVE  /\ quota' \in [Quotas -> QObjects]
         /\ \A j \in QKeys : quotas'[j] \in Quotas =>
              quota'[quotas'[j]] = IF quotas'[j] = h THEN o ELSE quota[quotas'[j]]
<1> DEFINE objects == [quota EXCEPT ![h] = o]
<1>1. objects \in [Quotas -> QObjects] /\ \A g \in Quotas : objects[g] = IF g = h THEN o ELSE quota[g]
  OBVIOUS
<1>2. quota' = CollectQuotas(quotas', qcaller', objects)
  OBVIOUS
<1> HIDE DEF objects
<1>3. PICK table : table = quotas'
  OBVIOUS
<1>4. PICK callers : callers = qcaller'
  OBVIOUS
<1>5. PICK left : left = CollectQuotas(table, callers, objects)
  OBVIOUS
<1>6. left \in [Quotas -> QObjects] /\ \A j \in QKeys : table[j] \in Quotas => left[table[j]] = objects[table[j]]
  BY <1>1, <1>5, CollectQuotasIs
<1>7. quota' = left
  BY ONLY <1>2, <1>3, <1>4, <1>5
<1>8. QED
  BY ONLY <1>1, <1>3, <1>6, <1>7

\* A call that has returned.
LEMMA QIdleIs == QIdle \in QCalls /\ QIdle.pc = "idle"
BY QuotasAssumption DEF QIdle, QCalls

\* A call begins or returns, and the table may only shrink.
LEMMA QCallFree ==
  ASSUME QuotasTyped, QCallsHold, NEW c \in QCallers, NEW f \in QCalls,
         f.pc # "idle" => f.key \in QKeys, f.pc # "held",
         qcaller' = [qcaller EXCEPT ![c] = f], UNCHANGED quotas
  PROVE  qcaller' \in [QCallers -> QCalls] /\ QCallsHold'
<1>1. qcaller' \in [QCallers -> QCalls] /\ qcaller'[c] = f /\ \A d \in QCallers \ {c} : qcaller'[d] = qcaller[d]
  BY DEF QuotasTyped
<1>2. QED
  BY <1>1 DEF QCallsHold

\* One object changes, and what was granted lately with it.
LEMMA QuotaMoves ==
  ASSUME QuotaInv, NEW h \in Quotas, NEW o \in QObjects, NEW rc \in [QKeys -> Stretches],
         NEW cc \in [QKeys -> Stretches],
         qcaller' \in [QCallers -> QCalls], QCallsHold', UNCHANGED quotas, recent' = rc, caught' = cc,
         quota' \in [Quotas -> QObjects],
         \A k \in QKeys : quotas[k] \in Quotas =>
           quota'[quotas[k]] = IF quotas[k] = h THEN o ELSE quota[quotas[k]],
         \A k \in QKeys : quotas[k] = h => Within(o) /\ Accounted(rc[k], cc[k], o.used, o.period - o.left),
         \A k \in QKeys : quotas[k] # h => Accounted(rc[k], cc[k], UsedOf(k), ElapsedOf(k))
  PROVE  QuotaInv'
<1>1. QuotasTyped /\ OneKeyEach /\ TableWithin /\ NoQuota \notin Quotas
  BY QuotasAssumption DEF QuotaInv
<1>2. QuotasTyped' /\ OneKeyEach'
  BY <1>1 DEF QuotasTyped, OneKeyEach
<1>3. ASSUME NEW k \in QKeys, quotas[k] # NoQuota PROVE Within(quota'[quotas[k]])
  <2>1. quotas[k] \in Quotas
    BY <1>1, <1>3 DEF QuotasTyped
  <2>2. CASE quotas[k] = h
    BY <2>1, <2>2
  <2>3. CASE quotas[k] # h
    BY <1>1, <1>3, <2>1, <2>3 DEF TableWithin
  <2>4. QED
    BY <2>2, <2>3
<1>4. TableWithin'
  BY <1>3 DEF TableWithin, Within
<1>5. ASSUME NEW k \in QKeys PROVE Accounted(recent'[k], caught'[k], UsedOf(k)', ElapsedOf(k)')
  <2>1. CASE quotas[k] = h
    <3>1. UsedOf(k)' = o.used /\ ElapsedOf(k)' = o.period - o.left
      BY <1>1, <2>1 DEF UsedOf, ElapsedOf
    <3>2. QED
      BY <2>1, <3>1
  <2>2. CASE quotas[k] # h
    <3>1. UsedOf(k)' = UsedOf(k) /\ ElapsedOf(k)' = ElapsedOf(k)
      <4>1. CASE quotas[k] = NoQuota
        BY <4>1 DEF UsedOf, ElapsedOf
      <4>2. CASE quotas[k] # NoQuota
        <5>1. quotas[k] \in Quotas
          BY <1>1, <4>2 DEF QuotasTyped
        <5>2. quota'[quotas[k]] = quota[quotas[k]]
          BY <2>2, <5>1
        <5>3. QED
          BY <4>2, <5>2 DEF UsedOf, ElapsedOf
      <4>3. QED
        BY <4>1, <4>2
    <3>2. QED
      BY <2>2, <3>1
  <2>3. QED
    BY <2>1, <2>2
<1>6. RecentFits'
  BY <1>5 DEF RecentFits, Accounted, Fits
<1>7. QED
  BY <1>2, <1>4, <1>6 DEF QuotaInv

\* There are no quotas, and nothing was granted.
LEMMA QuotaInvInit == QuotaInit => QuotaInv
<1> SUFFICES ASSUME QuotaInit PROVE QuotaInv
  OBVIOUS
<1>1. QBlank \in QObjects /\ QIdle \in QCalls /\ QIdle.pc = "idle" /\ Nothing \in Stretches /\ Accounted(Nothing, Nothing, 0, 0)
  BY QIdleIs, QLimitBounds, AccountedNothing DEF QBlank, QObjects
<1>2. QuotasTyped /\ QCallsHold /\ OneKeyEach /\ TableWithin
  BY <1>1 DEF QuotaInit, QuotasTyped, QCallsHold, OneKeyEach, TableWithin
<1>3. \A k \in QKeys : UsedOf(k) = 0 /\ ElapsedOf(k) = 0 /\ recent[k] = Nothing /\ caught[k] = Nothing
  BY DEF QuotaInit, UsedOf, ElapsedOf
<1>4. RecentFits
  BY <1>1, <1>3 DEF RecentFits
<1>5. QED
  BY <1>2, <1>4 DEF QuotaInv

\* What an object of the table allows, while its window is open and once it is
\* over.
LEMMA TableQuota ==
  ASSUME QuotaInv, NEW k \in QKeys, quotas[k] # NoQuota
  PROVE  /\ quotas[k] \in Quotas /\ quota[quotas[k]] \in QObjects /\ Within(quota[quotas[k]])
         /\ recent[k] \in Stretches /\ caught[k] \in Stretches
         /\ Accounted(recent[k], caught[k], quota[quotas[k]].used, quota[quotas[k]].period - quota[quotas[k]].left)
BY DEF QuotaInv, QuotasTyped, TableWithin, RecentFits, UsedOf, ElapsedOf

\* A window that starts anew.
LEMMA ResetIs ==
  ASSUME NEW q \in QObjects
  PROVE  /\ ResetWindow(q) \in QObjects /\ ResetWindow(q).used = 0 /\ ResetWindow(q).left = q.period
         /\ ResetWindow(q).period = q.period /\ ResetWindow(q).limit = q.limit
<1>1. PICK p \in Nat : p = q.period
  BY DEF QObjects
<1>2. PICK w : w = ResetWindow(q)
  OBVIOUS
<1>3. w = [q EXCEPT !.used = 0, !.left = p, !.resetAge = 0]
  BY <1>1, <1>2 DEF ResetWindow
<1>4. w \in QObjects /\ w.used = 0 /\ w.left = p /\ w.period = q.period /\ w.limit = q.limit
  <2>1. PICK u \in Nat : u = 0
    OBVIOUS
  <2>2. PICK z \in Int : z = 0
    OBVIOUS
  <2>3. PICK y \in Int : y = p
    OBVIOUS
  <2>4. w = [q EXCEPT !.used = u, !.left = y, !.resetAge = z]
    BY ONLY <1>3, <2>1, <2>2, <2>3
  <2>5. w \in QObjects /\ w.used = u /\ w.left = y /\ w.period = q.period /\ w.limit = q.limit
    BY ONLY <2>4, u \in Nat, z \in Int, y \in Int, q \in QObjects DEF QObjects
  <2>6. QED
    BY <2>1, <2>3, <2>5
<1>5. QED
  BY <1>1, <1>2, <1>4

\* A window that starts anew once the one before ran out.
LEMMA ResetFits ==
  ASSUME NEW q \in QObjects, Within(q), q.left < 0, NEW r, NEW cgt, Accounted(r, cgt, q.used, q.period - q.left)
  PROVE  LET p == ResetWindow(q) IN Within(p) /\ Accounted(r, cgt, p.used, p.period - p.left)
<1> DEFINE p == ResetWindow(q)
<1>1. p \in QObjects /\ p.used = 0 /\ p.left = q.period /\ p.period = q.period /\ p.limit = q.limit
  BY ResetIs
<1>2. q.used \in Nat /\ q.limit \in Nat /\ q.period \in Nat /\ q.left \in Int /\ MinPeriod \in Nat /\ MaxLimit \in Nat
  BY QLimitBounds DEF QObjects
<1>3. q.used <= MaxLimit /\ MinPeriod <= q.period - q.left /\ q.period - q.left \in Int
  BY <1>2 DEF Within
<1>4. Accounted(r, cgt, 0, 0)
  BY <1>2, <1>3, AccountedReset
<1> HIDE DEF p
<1>5. p.period - p.left = 0
  BY <1>1, <1>2
<1>6. Within(p)
  BY <1>1, <1>2 DEF Within
<1>7. QED
  BY <1>1, <1>4, <1>5, <1>6 DEF p

\* A window looked at, and started anew if it ran out.
LEMMA CheckFits ==
  ASSUME NEW q \in QObjects
  PROVE  /\ CheckReset(q) \in QObjects
         /\ Within(q) => Within(CheckReset(q)) /\ \A r, cgt :
              Accounted(r, cgt, q.used, q.period - q.left) =>
                Accounted(r, cgt, CheckReset(q).used, CheckReset(q).period - CheckReset(q).left)
<1>1. CASE q.left < 0
  <2>1. CheckReset(q) = ResetWindow(q)
    BY <1>1 DEF CheckReset
  <2>2. ResetWindow(q) \in QObjects
    BY ResetIs
  <2>3. ASSUME Within(q), NEW r, NEW cgt, Accounted(r, cgt, q.used, q.period - q.left)
        PROVE  Accounted(r, cgt, ResetWindow(q).used, ResetWindow(q).period - ResetWindow(q).left)
    BY <1>1, <2>3, ResetFits
  <2>4. ASSUME Within(q) PROVE Within(ResetWindow(q))
    <3>1. ResetWindow(q).used = 0 /\ ResetWindow(q).left = q.period
          /\ ResetWindow(q).period = q.period /\ ResetWindow(q).limit = q.limit
      BY ResetIs
    <3>2. q.limit \in Nat /\ q.period \in Nat /\ MinPeriod \in Nat /\ MaxLimit \in Nat
      BY QLimitBounds DEF QObjects
    <3>3. QED
      BY <2>4, <3>1, <3>2 DEF Within
  <2>5. QED
    BY <2>1, <2>2, <2>3, <2>4
<1>2. CASE ~(q.left < 0)
  BY <1>2 DEF CheckReset
<1>3. QED
  BY <1>1, <1>2

\* A little more in the first place.
LEMMA MoreIs == ASSUME NEW r \in Stretches, NEW n \in Nat PROVE [r EXCEPT ![0] = @ + n] \in Stretches
<1>1. MinPeriod \in Nat \ {0}
  BY QLimitBounds
<1>2. r[0] \in Nat
  BY <1>1 DEF Stretches
<1>3. r[0] + n \in Nat
  BY <1>2
<1>4. QED
  BY <1>3 DEF Stretches

\* UseQuota and CheckQuota on the quota the call holds.
LEMMA UseKeeps == ASSUME QuotaInv, NEW c \in QCallers, UseHeldQuota(c) PROVE QuotaInv'
<1> DEFINE k == qcaller[c].key
           n == qcaller[c].n
           h == qcaller[c].held
           q == CheckReset(quota[h])
           use == qcaller[c].op = "use" /\ q.used + n <= q.limit
           o == IF use THEN [q EXCEPT !.used = @ + n] ELSE q
           rc == IF use THEN [recent EXCEPT ![k][0] = @ + n] ELSE recent
           cc == IF use /\ quotas[k] # h THEN [caught EXCEPT ![k][0] = @ + 1] ELSE caught
<1>1. /\ QuotasTyped /\ QCallsHold /\ qcaller[c] \in QCalls /\ qcaller[c].pc = "held"
      /\ k \in QKeys /\ h \in Quotas /\ n \in Nat /\ (\A j \in QKeys : quotas[j] = h => j = k)
      /\ NoQuota \notin Quotas /\ quota[h] \in QObjects
      /\ recent \in [QKeys -> Stretches] /\ caught \in [QKeys -> Stretches]
  BY QuotasAssumption, SMTT(40) DEF QuotaInv, UseHeldQuota, QCallsHold, QuotasTyped, QCalls
<1>2. /\ qcaller' = [qcaller EXCEPT ![c] = QIdle]
      /\ quota' = CollectQuotas(quotas, qcaller', [quota EXCEPT ![h] = o])
      /\ recent' = rc /\ caught' = cc /\ UNCHANGED quotas
  BY DEF UseHeldQuota
<1>3. q \in QObjects
  BY <1>1, CheckFits
<1>4. o \in QObjects /\ (use => o.used = q.used + n) /\ (~use => o = q)
      /\ o.limit = q.limit /\ o.period = q.period /\ o.left = q.left
  <2>1. PICK p \in QObjects : p = q
    BY <1>3
  <2>2. PICK u \in Nat : u = p.used + n
    BY <1>1, <2>1 DEF QObjects
  <2>3. PICK s : s = [p EXCEPT !.used = u]
    OBVIOUS
  <2>4. s \in QObjects /\ s.used = u /\ s.limit = p.limit /\ s.period = p.period /\ s.left = p.left
    BY ONLY <2>3, p \in QObjects, u \in Nat DEF QObjects
  <2>5. use => o = s
    BY <2>1, <2>2, <2>3
  <2>6. QED
    BY <1>3, <2>1, <2>2, <2>4, <2>5
<1> HIDE DEF use, q, n, h
<1>5. /\ rc \in [QKeys -> Stretches]
      /\ \A j \in QKeys : rc[j] = IF use /\ j = k THEN [recent[j] EXCEPT ![0] = @ + n] ELSE recent[j]
  <2>1. [recent[k] EXCEPT ![0] = @ + n] \in Stretches
    BY <1>1, MoreIs
  <2>2. PICK s \in Stretches : s = [recent[k] EXCEPT ![0] = @ + n]
    BY <2>1
  <2>3. rc = IF use THEN [recent EXCEPT ![k] = s] ELSE recent
    BY <2>2
  <2> HIDE DEF rc
  <2>4. QED
    BY <1>1, <2>2, <2>3
<1>6. /\ cc \in [QKeys -> Stretches]
      /\ \A j \in QKeys : cc[j] = IF use /\ j = k /\ quotas[j] # h THEN [caught[j] EXCEPT ![0] = @ + 1] ELSE caught[j]
  <2>1. [caught[k] EXCEPT ![0] = @ + 1] \in Stretches
    BY <1>1, MoreIs
  <2>2. PICK s \in Stretches : s = [caught[k] EXCEPT ![0] = @ + 1]
    BY <2>1
  <2>3. cc = IF use /\ quotas[k] # h THEN [caught EXCEPT ![k] = s] ELSE caught
    BY <2>2
  <2> HIDE DEF cc
  <2>4. QED
    BY <1>1, <2>2, <2>3
<1> HIDE DEF rc, cc
<1>7. q.used \in Nat /\ q.limit \in 0..MaxLimit /\ q.period \in Nat /\ q.left \in Int /\ MaxLimit \in Nat
  BY <1>3, QLimitBounds DEF QObjects
<1>8. ASSUME NEW j \in QKeys, quotas[j] = h
      PROVE  Within(o) /\ Accounted(rc[j], cc[j], o.used, o.period - o.left)
  <2>1. quotas[j] # NoQuota /\ j = k /\ cc[j] = caught[j]
    BY <1>1, <1>6, <1>8
  <2>2. /\ Within(quota[h]) /\ recent[j] \in Stretches /\ caught[j] \in Stretches
        /\ Accounted(recent[j], caught[j], quota[h].used, quota[h].period - quota[h].left)
    BY <1>8, <2>1, TableQuota
  <2>3. Within(q) /\ Accounted(recent[j], caught[j], q.used, q.period - q.left)
    BY <1>1, <2>2, CheckFits DEF q
  <2>4. CASE use
    <3>1. rc[j] = [recent[j] EXCEPT ![0] = @ + n] /\ o.used = q.used + n
          /\ o.limit = q.limit /\ o.period = q.period /\ o.left = q.left
      BY <1>4, <1>5, <2>1, <2>4
    <3>2. q.used + n <= q.limit
      BY <2>4 DEF use
    <3> HIDE DEF o
    <3>3. Within(o)
      BY <1>1, <1>7, <2>3, <3>1, <3>2 DEF Within
    <3>4. PICK e : e = q.period - q.left
      OBVIOUS
    <3>5. Accounted([recent[j] EXCEPT ![0] = @ + n], caught[j], q.used + n, e)
      BY <1>1, <1>7, <2>2, <2>3, <3>4, AccountedUse
    <3>6. QED
      BY <2>1, <3>1, <3>3, <3>4, <3>5
  <2>5. CASE ~use
    BY <1>4, <1>5, <2>1, <2>3, <2>5
  <2>6. QED
    BY <2>4, <2>5
<1>9. \A j \in QKeys : quotas[j] # h => Accounted(rc[j], cc[j], UsedOf(j), ElapsedOf(j))
  <2> TAKE j \in QKeys
  <2>1. HAVE quotas[j] # h
  <2>2. /\ recent[j] \in Stretches /\ caught[j] \in Stretches
        /\ Accounted(recent[j], caught[j], UsedOf(j), ElapsedOf(j))
    BY <1>1 DEF QuotaInv, RecentFits
  <2>3. CASE use /\ j = k
    <3>1. rc[j] = [recent[j] EXCEPT ![0] = @ + n] /\ cc[j] = [caught[j] EXCEPT ![0] = @ + 1]
      BY <1>5, <1>6, <2>1, <2>3
    <3>2. n <= MaxLimit
      <4>1. q.used + n <= q.limit
        BY <2>3 DEF use
      <4>2. QED
        BY <1>1, <1>7, <4>1
    <3>3. QED
      BY <1>1, <2>2, <3>1, <3>2, AccountedCaught
  <2>4. CASE ~(use /\ j = k)
    BY <1>5, <1>6, <2>2, <2>4
  <2>5. QED
    BY <2>3, <2>4
<1>10. /\ quota' \in [Quotas -> QObjects]
       /\ \A j \in QKeys : quotas[j] \in Quotas =>
            quota'[quotas[j]] = IF quotas[j] = h THEN o ELSE quota[quotas[j]]
  <2>1. quota \in [Quotas -> QObjects] /\ UNCHANGED quotas
    BY <1>1, <1>2 DEF QuotasTyped
  <2>2. quota' = CollectQuotas(quotas', qcaller', [quota EXCEPT ![h] = o])
    BY <1>2
  <2>3. h \in Quotas /\ o \in QObjects
    BY <1>1, <1>4
  <2> HIDE DEF o
  <2>4. /\ quota' \in [Quotas -> QObjects]
        /\ \A j \in QKeys : quotas'[j] \in Quotas =>
             quota'[quotas'[j]] = IF quotas'[j] = h THEN o ELSE quota[quotas'[j]]
    BY ONLY <2>1, <2>2, <2>3, QuotaChanges
  <2>5. QED
    BY ONLY <2>1, <2>4
<1>11. qcaller' \in [QCallers -> QCalls] /\ QCallsHold'
  BY <1>1, <1>2, QIdleIs, QCallFree
<1>12. h \in Quotas /\ recent' = rc /\ caught' = cc /\ UNCHANGED quotas
  BY <1>1, <1>2
<1>13. \A j \in QKeys : quotas[j] = h => Within(o) /\ Accounted(rc[j], cc[j], o.used, o.period - o.left)
  BY <1>8
<1>14. o \in QObjects /\ rc \in [QKeys -> Stretches] /\ cc \in [QKeys -> Stretches]
  BY <1>4, <1>5, <1>6
<1> HIDE DEF o
<1>15. QED
  BY ONLY QuotaInv, <1>9, <1>10, <1>11, <1>12, <1>13, <1>14, QuotaMoves

\* SetQuota and ResetQuota on the quota the call holds.
LEMMA RenewKeeps == ASSUME QuotaInv, NEW c \in QCallers, RenewHeldQuota(c) PROVE QuotaInv'
<1> DEFINE k == qcaller[c].key
           h == qcaller[c].held
           l == qcaller[c].limit
           q == quota[h]
           terms == IF qcaller[c].op = "set" THEN [q EXCEPT !.limit = l.limit, !.period = l.period] ELSE q
           o == ResetWindow(terms)
           rc == [j \in QKeys |-> IF quotas[j] = h THEN Nothing ELSE recent[j]]
           cc == [j \in QKeys |-> IF quotas[j] = h THEN Nothing ELSE caught[j]]
<1>1. /\ QuotasTyped /\ QCallsHold /\ qcaller[c] \in QCalls /\ qcaller[c].pc = "held"
      /\ k \in QKeys /\ h \in Quotas /\ l \in QLimits /\ (\A j \in QKeys : quotas[j] = h => j = k)
      /\ NoQuota \notin Quotas /\ q \in QObjects
      /\ recent \in [QKeys -> Stretches] /\ caught \in [QKeys -> Stretches]
  BY QuotasAssumption DEF QuotaInv, RenewHeldQuota, QCallsHold, QuotasTyped, QCalls
<1>2. /\ qcaller' = [qcaller EXCEPT ![c] = QIdle]
      /\ quota' = CollectQuotas(quotas, qcaller', [quota EXCEPT ![h] = o])
      /\ recent' = rc /\ caught' = cc /\ UNCHANGED quotas
  <2>1. /\ qcaller' = [qcaller EXCEPT ![c] = QIdle]
        /\ quota' = CollectQuotas(quotas, qcaller', [quota EXCEPT ![h] = o]) /\ UNCHANGED quotas
    BY DEF RenewHeldQuota
  <2>2. PICK ks : ks = {j \in {k} : quotas[j] = h}
    OBVIOUS
  <2>3. /\ recent' = [j \in QKeys |-> IF j \in ks THEN Nothing ELSE recent[j]]
        /\ caught' = [j \in QKeys |-> IF j \in ks THEN Nothing ELSE caught[j]]
    BY <2>2 DEF RenewHeldQuota, StartAnew
  <2>4. \A j \in QKeys : j \in ks <=> quotas[j] = h
    BY <1>1, <2>2
  <2>5. recent' = rc /\ caught' = cc
    <3> HIDE DEF h
    <3>1. QED
      BY <2>3, <2>4
  <2>6. QED
    BY <2>1, <2>5
<1>3. /\ terms \in QObjects
      /\ \/ terms.limit = l.limit /\ terms.period = l.period
         \/ terms.limit = q.limit /\ terms.period = q.period
  <2>1. PICK x \in 0..MaxLimit, y \in Nat : x = l.limit /\ y = l.period
    BY <1>1, QLimitBounds
  <2>2. PICK p \in QObjects : p = q
    BY <1>1
  <2>3. PICK s : s = [p EXCEPT !.limit = x, !.period = y]
    OBVIOUS
  <2>4. s \in QObjects /\ s.limit = x /\ s.period = y
    BY ONLY <2>3, p \in QObjects, x \in 0..MaxLimit, y \in Nat DEF QObjects
  <2>5. terms = s \/ terms = p
    BY <2>1, <2>2, <2>3
  <2>6. QED
    BY <2>1, <2>2, <2>4, <2>5
<1>4. o \in QObjects /\ o.used = 0 /\ o.left = terms.period /\ o.period = terms.period /\ o.limit = terms.limit
  <2> HIDE DEF terms
  <2>1. QED
    BY <1>3, ResetIs
<1>5. ASSUME NEW j \in QKeys, quotas[j] = h PROVE Within(o)
  <2>1. quotas[j] # NoQuota
    BY <1>1, <1>5
  <2>2. Within(q)
    BY <1>5, <2>1, TableQuota
  <2>3. q.limit \in Nat /\ q.period \in Nat /\ MinPeriod \in Nat /\ MaxLimit \in Nat /\ l.limit \in Nat /\ l.period \in Nat
        /\ l.limit <= MaxLimit /\ MinPeriod <= l.period
    BY <1>1, QLimitBounds DEF QObjects
  <2>4. \/ o.limit = l.limit /\ o.period = l.period /\ o.left = l.period
        \/ o.limit = q.limit /\ o.period = q.period /\ o.left = q.period
    BY <1>3, <1>4
  <2> HIDE DEF o, q, l
  <2>5. QED
    BY <1>4, <2>2, <2>3, <2>4 DEF Within
<1>6. /\ rc \in [QKeys -> Stretches] /\ cc \in [QKeys -> Stretches]
      /\ \A j \in QKeys : quotas[j] = h => rc[j] = Nothing /\ cc[j] = Nothing
      /\ \A j \in QKeys : quotas[j] # h => rc[j] = recent[j] /\ cc[j] = caught[j]
  <2>1. Nothing \in Stretches
    BY AccountedNothing
  <2> HIDE DEF h
  <2>2. QED
    BY <1>1, <2>1
<1>7. \A j \in QKeys : quotas[j] = h => Within(o) /\ Accounted(rc[j], cc[j], o.used, o.period - o.left)
  <2> TAKE j \in QKeys
  <2>1. HAVE quotas[j] = h
  <2>2. rc[j] = Nothing /\ cc[j] = Nothing /\ Within(o)
    BY <1>5, <1>6, <2>1
  <2> HIDE DEF rc, cc, o
  <2>3. Accounted(Nothing, Nothing, 0, o.period - o.left)
    BY AccountedNothing
  <2>4. QED
    BY <1>4, <2>2, <2>3
<1>8. \A j \in QKeys : quotas[j] # h => Accounted(rc[j], cc[j], UsedOf(j), ElapsedOf(j))
  <2> HIDE DEF rc, cc, h
  <2>1. QED
    BY <1>6 DEF QuotaInv, RecentFits
<1>9. /\ quota' \in [Quotas -> QObjects]
      /\ \A j \in QKeys : quotas[j] \in Quotas =>
           quota'[quotas[j]] = IF quotas[j] = h THEN o ELSE quota[quotas[j]]
  <2>1. quota \in [Quotas -> QObjects] /\ UNCHANGED quotas
    BY <1>1, <1>2 DEF QuotasTyped
  <2>2. quota' = CollectQuotas(quotas', qcaller', [quota EXCEPT ![h] = o])
    BY <1>2
  <2>3. h \in Quotas /\ o \in QObjects
    BY <1>1, <1>4
  <2> HIDE DEF o, h
  <2>4. /\ quota' \in [Quotas -> QObjects]
        /\ \A j \in QKeys : quotas'[j] \in Quotas =>
             quota'[quotas'[j]] = IF quotas'[j] = h THEN o ELSE quota[quotas'[j]]
    BY ONLY <2>1, <2>2, <2>3, QuotaChanges
  <2>5. QED
    BY ONLY <2>1, <2>4
<1>10. qcaller' \in [QCallers -> QCalls] /\ QCallsHold'
  BY <1>1, <1>2, QIdleIs, QCallFree
<1>11. h \in Quotas /\ recent' = rc /\ caught' = cc /\ UNCHANGED quotas
  BY <1>1, <1>2
<1>12. o \in QObjects /\ rc \in [QKeys -> Stretches] /\ cc \in [QKeys -> Stretches]
  BY <1>4, <1>6
<1> HIDE DEF o, rc, cc, h
<1>13. QED
  BY ONLY QuotaInv, <1>7, <1>8, <1>9, <1>10, <1>11, <1>12, QuotaMoves

\* The reset loop renews a quota that ran out.
LEMMA ExpiredKeeps == ASSUME QuotaInv, NEW k \in QKeys, ResetExpired(k) PROVE QuotaInv'
<1> DEFINE h == quotas[k]
           o == ResetWindow(quota[h])
<1>1. /\ h \in Quotas /\ quota[h] \in QObjects /\ quota[h].left < 0 /\ QuotasTyped /\ QCallsHold
      /\ NoQuota \notin Quotas
  BY TableQuota, QuotasAssumption DEF QuotaInv, ResetExpired
<1>2. quota' = [quota EXCEPT ![h] = o] /\ UNCHANGED <<quotas, qcaller, recent, caught>>
  BY DEF ResetExpired, granted
<1>3. o \in QObjects
  BY <1>1, ResetIs
<1>4. PICK rc \in [QKeys -> Stretches], cc \in [QKeys -> Stretches] : rc = recent /\ cc = caught
  BY <1>1 DEF QuotasTyped
<1>5. \A j \in QKeys : quotas[j] = h => Within(o) /\ Accounted(rc[j], cc[j], o.used, o.period - o.left)
  <2> TAKE j \in QKeys
  <2>1. HAVE quotas[j] = h
  <2>2. quotas[j] # NoQuota
    BY <1>1, <2>1
  <2>3. Within(quota[h]) /\ recent[j] \in Stretches /\ Accounted(recent[j], caught[j], quota[h].used, quota[h].period - quota[h].left)
    BY <2>1, <2>2, TableQuota
  <2>4. QED
    BY <1>1, <1>4, <2>3, ResetFits
<1>6. \A j \in QKeys : quotas[j] # h => Accounted(rc[j], cc[j], UsedOf(j), ElapsedOf(j))
  BY <1>4 DEF QuotaInv, RecentFits
<1>7. /\ quota' \in [Quotas -> QObjects]
      /\ \A j \in QKeys : quotas[j] \in Quotas =>
           quota'[quotas[j]] = IF quotas[j] = h THEN o ELSE quota[quotas[j]]
  <2> HIDE DEF o
  <2>1. QED
    BY <1>1, <1>2, <1>3 DEF QuotasTyped
<1>8. qcaller' \in [QCallers -> QCalls] /\ QCallsHold'
  BY <1>1, <1>2 DEF QuotasTyped, QCallsHold
<1>9. recent' = rc /\ caught' = cc /\ UNCHANGED quotas /\ h \in Quotas
  BY <1>1, <1>2, <1>4
<1> HIDE DEF o, h
<1>10. QED
  BY ONLY QuotaInv, <1>3, <1>4, <1>5, <1>6, <1>7, <1>8, <1>9, rc \in [QKeys -> Stretches],
     cc \in [QKeys -> Stretches], QuotaMoves

\* What is not used can be dropped.
LEMMA CleanupKeepsQuotas == ASSUME QuotaInv, QuotaCleanup PROVE QuotaInv'
<1> DEFINE old == {k \in QKeys : /\ quotas[k] # NoQuota
                                 /\ quota[quotas[k]].resetAge > 2 * QCleanupInterval
                                 /\ quota[quotas[k]].used = 0}
<1>1. QuotasTyped /\ QCallsHold /\ OneKeyEach /\ TableWithin /\ RecentFits /\ NoQuota \notin Quotas
  BY QuotasAssumption DEF QuotaInv
<1>2. /\ quotas' = [k \in QKeys |-> IF k \in old THEN NoQuota ELSE quotas[k]]
      /\ quota' = CollectQuotas(quotas', qcaller, quota)
      /\ UNCHANGED <<qcaller, recent, caught>>
  BY DEF QuotaCleanup, granted
<1>3. \A k \in old : k \in QKeys /\ quotas[k] # NoQuota /\ quota[quotas[k]].used = 0
  OBVIOUS
<1>4. /\ quota' \in [Quotas -> QObjects]
      /\ \A j \in QKeys : quotas'[j] \in Quotas => quota'[quotas'[j]] = quota[quotas'[j]]
  <2>1. PICK table : table = quotas'
    OBVIOUS
  <2>2. PICK callers : callers = qcaller
    OBVIOUS
  <2>3. PICK objects \in [Quotas -> QObjects] : objects = quota
    BY <1>1 DEF QuotasTyped
  <2>4. PICK left : left = CollectQuotas(table, callers, objects)
    OBVIOUS
  <2>5. left \in [Quotas -> QObjects] /\ \A j \in QKeys : table[j] \in Quotas => left[table[j]] = objects[table[j]]
    BY <2>4, CollectQuotasIs
  <2>6. quota' = left
    BY ONLY <1>2, <2>1, <2>2, <2>3, <2>4
  <2>7. QED
    BY ONLY <2>1, <2>3, <2>5, <2>6
<1> HIDE DEF old
<1>5. \A k \in QKeys : quotas'[k] = IF k \in old THEN NoQuota ELSE quotas[k]
  BY <1>2
<1>6. QuotasTyped' /\ QCallsHold' /\ OneKeyEach'
  <2>1. QuotasTyped'
    BY <1>1, <1>2, <1>4, <1>5 DEF QuotasTyped
  <2>2. QCallsHold'
    <3>1. ASSUME NEW c \in QCallers, qcaller[c].pc = "held", NEW j \in QKeys, quotas'[j] = qcaller[c].held
          PROVE  j = qcaller[c].key
      <4>1. qcaller[c].held \in Quotas
        BY <1>1, <3>1 DEF QCallsHold
      <4>2. quotas[j] = qcaller[c].held
        BY <1>1, <1>5, <3>1, <4>1
      <4>3. QED
        BY <1>1, <3>1, <4>2 DEF QCallsHold
    <3>2. QED
      BY <1>1, <1>2, <3>1 DEF QCallsHold
  <2>3. OneKeyEach'
    BY <1>1, <1>5 DEF OneKeyEach
  <2>4. QED
    BY <2>1, <2>2, <2>3
<1>7. ASSUME NEW k \in QKeys, k \notin old
      PROVE  quotas'[k] = quotas[k] /\ (quotas[k] # NoQuota => quota'[quotas[k]] = quota[quotas[k]])
  <2>1. quotas'[k] = quotas[k]
    BY <1>5, <1>7
  <2>2. quotas[k] # NoQuota => quotas[k] \in Quotas
    BY <1>1 DEF QuotasTyped
  <2>3. QED
    BY <1>4, <2>1, <2>2
<1>8. TableWithin'
  <2>1. ASSUME NEW k \in QKeys, quotas'[k] # NoQuota PROVE Within(quota'[quotas'[k]])
    <3>1. k \notin old
      BY <1>5, <2>1
    <3>2. QED
      BY <1>1, <1>7, <2>1, <3>1 DEF TableWithin
  <2>2. QED
    BY <2>1 DEF TableWithin, Within
<1>9. ASSUME NEW k \in QKeys PROVE Accounted(recent'[k], caught'[k], UsedOf(k)', ElapsedOf(k)')
  <2>0. Accounted(recent[k], caught[k], UsedOf(k), ElapsedOf(k)) /\ recent'[k] = recent[k] /\ caught'[k] = caught[k]
    BY <1>1, <1>2 DEF RecentFits
  <2>1. CASE k \in old
    <3>1. quotas'[k] = NoQuota /\ UsedOf(k)' = 0 /\ ElapsedOf(k)' = 0
      BY <1>5, <2>1 DEF UsedOf, ElapsedOf
    <3>2. /\ quota[quotas[k]] \in QObjects /\ recent[k] \in Stretches /\ quota[quotas[k]].used = 0
          /\ Accounted(recent[k], caught[k], 0, quota[quotas[k]].period - quota[quotas[k]].left)
      BY <1>3, <2>1, TableQuota
    <3>3. quota[quotas[k]].period - quota[quotas[k]].left \in Int /\ MaxLimit \in Nat
      BY <3>2, QLimitBounds DEF QObjects
    <3>4. Accounted(recent[k], caught[k], 0, 0)
      BY <3>2, <3>3, AccountedReset
    <3>5. QED
      BY <2>0, <3>1, <3>4
  <2>2. CASE k \notin old
    <3>1. UsedOf(k)' = UsedOf(k) /\ ElapsedOf(k)' = ElapsedOf(k)
      BY <1>7, <2>2 DEF UsedOf, ElapsedOf
    <3>2. QED
      BY <2>0, <3>1
  <2>3. QED
    BY <2>1, <2>2
<1>10. RecentFits'
  BY <1>9 DEF RecentFits, Accounted, Fits
<1>11. QED
  BY <1>6, <1>8, <1>10 DEF QuotaInv

\* A call that knows its key and holds nothing yet.
LEMMA BeginKeepsQuotas ==
  ASSUME QuotaInv, NEW c \in QCallers, NEW k \in QKeys, NEW op \in {"use", "check", "set", "reset"},
         NEW n \in Nat, NEW l \in QLimits, BeginQuota(c, k, op, n, l)
  PROVE  QuotaInv'
<1> DEFINE f == [op |-> op, pc |-> "lookup", key |-> k, n |-> n, limit |-> l, held |-> NoQuota]
<1>1. qcaller' = [qcaller EXCEPT ![c] = f] /\ UNCHANGED <<quotas, quota, recent, caught>>
  BY DEF BeginQuota, granted
<1>2. f \in QCalls /\ f.pc = "lookup" /\ f.key = k
  BY DEF QCalls
<1> HIDE DEF f
<1>3. qcaller' \in [QCallers -> QCalls] /\ QCallsHold'
  BY <1>1, <1>2, QCallFree DEF QuotaInv
<1>4. QED
  BY <1>1, <1>3 DEF QuotaInv, QuotasTyped, OneKeyEach, TableWithin, Within, RecentFits, UsedOf, ElapsedOf, Accounted, Fits

\* A new quota starts a window of its own; what was granted before is no more
\* than a window's worth.
LEMMA GetKeepsQuotas == ASSUME QuotaInv, NEW c \in QCallers, GetQuota(c) PROVE QuotaInv'
<1> DEFINE k == qcaller[c].key
<1>1. /\ QuotasTyped /\ QCallsHold /\ OneKeyEach /\ TableWithin /\ RecentFits /\ NoQuota \notin Quotas
      /\ qcaller[c] \in QCalls /\ k \in QKeys
      /\ recent \in [QKeys -> Stretches] /\ caught \in [QKeys -> Stretches]
  BY QuotasAssumption DEF QuotaInv, GetQuota, QCallsHold, QuotasTyped
<1>2. ASSUME NEW q \in Quotas, qcaller' = [qcaller EXCEPT ![c].held = q, ![c].pc = "held"]
      PROVE  /\ qcaller' \in [QCallers -> QCalls]
             /\ qcaller'[c].key = k /\ qcaller'[c].held = q /\ qcaller'[c].pc = "held"
             /\ \A d \in QCallers \ {c} : qcaller'[d] = qcaller[d]
  <2> DEFINE f == [qcaller[c] EXCEPT !.held = q, !.pc = "held"]
  <2>1. qcaller' = [qcaller EXCEPT ![c] = f]
    BY <1>1, <1>2 DEF QuotasTyped
  <2>2. f \in QCalls /\ f.key = k /\ f.held = q /\ f.pc = "held"
    BY <1>1 DEF QCalls
  <2> HIDE DEF f
  <2>3. QED
    BY <1>1, <2>1, <2>2 DEF QuotasTyped
<1>3. CASE /\ quotas[k] # NoQuota
           /\ qcaller' = [qcaller EXCEPT ![c].held = quotas[k], ![c].pc = "held"]
           /\ UNCHANGED <<quotas, quota, recent, caught>>
  <2>1. PICK q \in Quotas : q = quotas[k]
    BY <1>1, <1>3 DEF QuotasTyped
  <2>2. /\ qcaller' \in [QCallers -> QCalls]
        /\ qcaller'[c].key = k /\ qcaller'[c].held = q /\ qcaller'[c].pc = "held"
        /\ \A d \in QCallers \ {c} : qcaller'[d] = qcaller[d]
    BY <1>2, <1>3, <2>1
  <2>3. \A j \in QKeys : quotas[j] = q => j = k
    BY <1>1, <1>3, <2>1 DEF OneKeyEach
  <2>4. QCallsHold'
    BY <1>1, <1>3, <2>2, <2>3 DEF QCallsHold
  <2>5. QED
    BY <1>3, <2>2, <2>4 DEF QuotaInv, QuotasTyped, OneKeyEach, TableWithin, Within, RecentFits, UsedOf, ElapsedOf, Accounted, Fits
<1>4. ASSUME NEW q \in UnusedQuotas, NEW out \in SUBSET QKeys,
             quotas[k] = NoQuota, \A j \in out : quotas[j] # NoQuota,
             quotas' = [j \in QKeys |-> IF j = k THEN q ELSE IF j \in out THEN NoQuota ELSE quotas[j]],
             qcaller' = [qcaller EXCEPT ![c].held = q, ![c].pc = "held"],
             quota' = CollectQuotas(quotas', qcaller', [quota EXCEPT ![q] = NewQuota]),
             recent' = [j \in QKeys |-> IF j \in out THEN Nothing ELSE recent[j]],
             caught' = [j \in QKeys |-> IF j \in out THEN Nothing ELSE caught[j]]
      PROVE  QuotaInv'
  <2>1. q \in Quotas /\ (\A j \in QKeys : quotas[j] # q) /\ (\A d \in QCallers : qcaller[d].held # q)
    BY DEF UnusedQuotas
  <2>2. /\ qcaller' \in [QCallers -> QCalls]
        /\ qcaller'[c].key = k /\ qcaller'[c].held = q /\ qcaller'[c].pc = "held"
        /\ \A d \in QCallers \ {c} : qcaller'[d] = qcaller[d]
    BY <1>2, <1>4, <2>1
  <2>3. \A j \in QKeys : quotas'[j] = IF j = k THEN q ELSE IF j \in out THEN NoQuota ELSE quotas[j]
    BY ONLY <1>4
  <2>4. \A j \in QKeys : /\ recent'[j] = IF j \in out THEN Nothing ELSE recent[j]
                         /\ caught'[j] = IF j \in out THEN Nothing ELSE caught[j]
    BY ONLY <1>4
  <2>5. NewQuota \in QObjects /\ Within(NewQuota) /\ NewQuota.used = 0 /\ NewQuota.period - NewQuota.left = 0
    <3>1. PICK x \in 0..MaxLimit, y \in Nat : x = QDefault.limit /\ y = QDefault.period /\ MinPeriod <= y
      BY QLimitBounds, QuotasAssumption
    <3>2. MaxLimit \in Nat /\ MinPeriod \in Nat
      BY QLimitBounds
    <3>3. NewQuota = [limit |-> x, used |-> 0, period |-> y, left |-> y, resetAge |-> 0]
      BY <3>1 DEF NewQuota
    <3>4. NewQuota \in QObjects
      BY <3>3 DEF QObjects
    <3>5. NewQuota.limit = x /\ NewQuota.used = 0 /\ NewQuota.period = y /\ NewQuota.left = y
      BY <3>3
    <3>6. y - y = 0
      OBVIOUS
    <3>7. Within(NewQuota)
      BY <3>1, <3>2, <3>5 DEF Within
    <3>8. QED
      BY <3>4, <3>5, <3>6, <3>7
  <2>6. /\ quota' \in [Quotas -> QObjects]
        /\ \A j \in QKeys : quotas'[j] \in Quotas =>
             quota'[quotas'[j]] = IF quotas'[j] = q THEN NewQuota ELSE quota[quotas'[j]]
    <3>1. quota \in [Quotas -> QObjects]
      BY <1>1 DEF QuotasTyped
    <3>2. quota' = CollectQuotas(quotas', qcaller', [quota EXCEPT ![q] = NewQuota])
      BY ONLY <1>4
    <3>3. q \in Quotas /\ NewQuota \in QObjects
      BY <2>1, <2>5
    <3>4. QED
      BY ONLY <3>1, <3>2, <3>3, QuotaChanges
  <2>7. QuotasTyped'
    <3>1. quotas' \in [QKeys -> Quotas \cup {NoQuota}]
      BY <1>1, <1>4, <2>1 DEF QuotasTyped
    <3>2. recent' \in [QKeys -> Stretches] /\ caught' \in [QKeys -> Stretches]
      <4>1. Nothing \in Stretches
        BY AccountedNothing
      <4>2. /\ recent' = [j \in QKeys |-> IF j \in out THEN Nothing ELSE recent[j]]
            /\ caught' = [j \in QKeys |-> IF j \in out THEN Nothing ELSE caught[j]]
        BY ONLY <1>4
      <4>3. QED
        BY ONLY <1>1, <4>1, <4>2
    <3>3. QED
      BY <2>2, <2>6, <3>1, <3>2 DEF QuotasTyped
  <2>8. QCallsHold'
    <3>1. ASSUME NEW d \in QCallers, qcaller'[d].pc = "held"
          PROVE  qcaller'[d].held \in Quotas /\ \A j \in QKeys : quotas'[j] = qcaller'[d].held => j = qcaller'[d].key
      <4>1. CASE d = c
        BY <1>1, <2>1, <2>2, <2>3, <4>1
      <4>2. CASE d # c
        <5>1. /\ qcaller'[d] = qcaller[d] /\ qcaller[d].held \in Quotas /\ qcaller[d].held # q
              /\ \A j \in QKeys : quotas[j] = qcaller[d].held => j = qcaller[d].key
          BY <1>1, <2>1, <2>2, <3>1, <4>2 DEF QCallsHold
        <5>2. QED
          BY <1>1, <2>3, <5>1
      <4>3. QED
        BY <4>1, <4>2
    <3>2. \A d \in QCallers : qcaller'[d].pc # "idle" => qcaller'[d].key \in QKeys
      BY <1>1, <2>2 DEF QCallsHold
    <3>3. QED
      BY <3>1, <3>2 DEF QCallsHold
  <2>9. OneKeyEach'
    <3>1. ASSUME NEW i \in QKeys, NEW j \in QKeys, quotas'[i] = quotas'[j], quotas'[i] # NoQuota PROVE i = j
      BY <1>1, <2>1, <2>3, <3>1 DEF OneKeyEach
    <3>2. QED
      BY <3>1 DEF OneKeyEach
  <2>10. ASSUME NEW j \in QKeys, j # k, j \notin out
         PROVE  quotas'[j] = quotas[j] /\ recent'[j] = recent[j] /\ caught'[j] = caught[j]
                /\ (quotas[j] # NoQuota => quota'[quotas[j]] = quota[quotas[j]])
    <3>1. quotas'[j] = quotas[j] /\ recent'[j] = recent[j] /\ caught'[j] = caught[j]
      BY <2>3, <2>4, <2>10
    <3>2. quotas[j] # NoQuota => quotas[j] \in Quotas /\ quotas[j] # q
      BY <1>1, <2>1 DEF QuotasTyped
    <3>3. QED
      BY <2>6, <3>1, <3>2
  <2>11. k \notin out /\ quotas'[k] = q /\ q # NoQuota /\ quota'[q] = NewQuota
         /\ recent'[k] = recent[k] /\ caught'[k] = caught[k]
    BY <1>1, <1>4, <2>1, <2>3, <2>4, <2>6
  <2>12. \A j \in out : j # k /\ quotas'[j] = NoQuota /\ recent'[j] = Nothing /\ caught'[j] = Nothing
    BY <2>3, <2>4, <2>11
  <2>13. TableWithin'
    <3>1. ASSUME NEW j \in QKeys, quotas'[j] # NoQuota PROVE Within(quota'[quotas'[j]])
      <4>1. CASE j = k
        BY <2>5, <2>11, <4>1
      <4>2. CASE j # k
        <5>1. j \notin out
          BY <2>12, <3>1
        <5>2. QED
          BY <1>1, <2>10, <3>1, <4>2, <5>1 DEF TableWithin
      <4>3. QED
        BY <4>1, <4>2
    <3>2. QED
      BY <3>1 DEF TableWithin, Within
  <2>14. ASSUME NEW j \in QKeys PROVE Accounted(recent'[j], caught'[j], UsedOf(j)', ElapsedOf(j)')
    <3>1. Accounted(recent[j], caught[j], UsedOf(j), ElapsedOf(j))
      BY <1>1 DEF RecentFits
    <3>2. CASE j = k
      <4>1. UsedOf(j) = 0 /\ ElapsedOf(j) = 0
        BY <1>4, <3>2 DEF UsedOf, ElapsedOf
      <4>2. UsedOf(j)' = 0 /\ ElapsedOf(j)' = 0
        BY <2>5, <2>11, <3>2 DEF UsedOf, ElapsedOf
      <4>3. recent'[j] = recent[j] /\ caught'[j] = caught[j]
        BY <2>11, <3>2
      <4>4. QED
        BY <3>1, <4>1, <4>2, <4>3
    <3>3. CASE j \in out
      <4>1. UsedOf(j)' = 0 /\ ElapsedOf(j)' = 0 /\ recent'[j] = Nothing /\ caught'[j] = Nothing
        BY <2>12, <3>3 DEF UsedOf, ElapsedOf
      <4>2. Accounted(Nothing, Nothing, 0, 0)
        BY AccountedNothing
      <4>3. QED
        BY <4>1, <4>2
    <3>4. CASE j # k /\ j \notin out
      <4>1. UsedOf(j)' = UsedOf(j) /\ ElapsedOf(j)' = ElapsedOf(j)
            /\ recent'[j] = recent[j] /\ caught'[j] = caught[j]
        BY <2>10, <3>4 DEF UsedOf, ElapsedOf
      <4>2. QED
        BY <3>1, <4>1
    <3>5. QED
      BY <3>2, <3>3, <3>4
  <2>15. RecentFits'
    BY <2>14 DEF RecentFits, Accounted, Fits
  <2>16. QED
    BY <2>7, <2>8, <2>9, <2>13, <2>15 DEF QuotaInv
<1>5. CASE quotas[k] = NoQuota /\ ~(quotas[k] # NoQuota)
  <2>1. PICK q \in UnusedQuotas, out \in SUBSET {j \in QKeys : quotas[j] # NoQuota} :
          /\ quotas' = [j \in QKeys |-> IF j = k THEN q ELSE IF j \in out THEN NoQuota ELSE quotas[j]]
          /\ qcaller' = [qcaller EXCEPT ![c].held = q, ![c].pc = "held"]
          /\ quota' = CollectQuotas(quotas', qcaller', [quota EXCEPT ![q] = NewQuota])
          /\ recent' = [j \in QKeys |-> IF j \in out THEN Nothing ELSE recent[j]]
          /\ caught' = [j \in QKeys |-> IF j \in out THEN Nothing ELSE caught[j]]
    BY <1>5, ZenonT(60) DEF GetQuota, StartAnew
  <2>2. out \in SUBSET QKeys /\ \A j \in out : quotas[j] # NoQuota
    OBVIOUS
  <2>3. QED
    BY <1>4, <1>5, <2>1, <2>2
<1>6. QED
  BY <1>3, <1>5 DEF GetQuota, granted

\* With time the window and the stretch grow alike.
LEMMA TickKeepsQuotas == ASSUME QuotaInv, QuotaTick PROVE QuotaInv'
<1>1. /\ QuotasTyped /\ QCallsHold /\ OneKeyEach /\ TableWithin /\ RecentFits /\ NoQuota \notin Quotas
      /\ MinPeriod \in Nat \ {0} /\ MaxLimit \in Nat
  BY QuotasAssumption, QLimitBounds DEF QuotaInv
<1>2. UNCHANGED <<quotas, qcaller>>
  BY DEF QuotaTick
<1>3. ASSUME NEW x \in Int PROVE Max({-1, x}) \in Int /\ -1 <= Max({-1, x}) /\ x <= Max({-1, x}) /\ (x < -1 \/ Max({-1, x}) = x)
  <2>1. CASE x < -1
    <3>1. Max({-1, x}) = -1
      <4>1. {-1, x} \in SUBSET Int /\ -1 \in {-1, x} /\ \A y \in {-1, x} : y <= -1
        BY <2>1
      <4>2. QED
        BY <4>1, MaxIs
    <3>2. QED
      BY <2>1, <3>1
  <2>2. CASE ~(x < -1)
    <3>1. Max({-1, x}) = x
      <4>1. {-1, x} \in SUBSET Int /\ x \in {-1, x} /\ \A y \in {-1, x} : y <= x
        BY <2>2
      <4>2. QED
        BY <4>1, MaxIs
    <3>2. QED
      BY <2>2, <3>1
  <2>3. QED
    BY <2>1, <2>2
<1>4. ASSUME NEW x \in Int PROVE Min({MaxResetAge, x}) \in Int
  <2>1. MaxResetAge \in Int
    BY QuotasAssumption DEF MaxResetAge
  <2>2. \E m \in {MaxResetAge, x} : \A y \in {MaxResetAge, x} : m <= y
    BY <2>1
  <2>3. Min({MaxResetAge, x}) \in {MaxResetAge, x}
    BY <2>2 DEF Min
  <2>4. QED
    BY <2>1, <2>3
<1>5. ASSUME NEW q \in Quotas
      PROVE  /\ quota'[q] \in QObjects
             /\ quota[q] # QBlank => /\ quota'[q].limit = quota[q].limit /\ quota'[q].used = quota[q].used
                                     /\ quota'[q].period = quota[q].period
                                     /\ quota'[q].left = Max({-1, quota[q].left - 1})
  <2>1. PICK p \in QObjects : p = quota[q]
    BY <1>1 DEF QuotasTyped
  <2>2. CASE p = QBlank
    <3>1. quota'[q] = p
      BY <2>1, <2>2 DEF QuotaTick
    <3>2. QED
      BY <2>1, <2>2, <3>1
  <2>3. CASE p # QBlank
    <3>1. PICK x \in Int : x = Max({-1, p.left - 1})
      <4>1. p.left - 1 \in Int
        BY DEF QObjects
      <4>2. QED
        BY <1>3, <4>1
    <3>2. PICK y \in Int : y = Min({MaxResetAge, p.resetAge + 1})
      <4>1. p.resetAge + 1 \in Int
        BY DEF QObjects
      <4>2. QED
        BY <1>4, <4>1
    <3>3. quota'[q] = [p EXCEPT !.left = x, !.resetAge = y]
      BY <2>1, <2>3, <3>1, <3>2 DEF QuotaTick
    <3>4. PICK s : s = [p EXCEPT !.left = x, !.resetAge = y]
      OBVIOUS
    <3>5. s \in QObjects /\ s.limit = p.limit /\ s.used = p.used /\ s.period = p.period /\ s.left = x
      BY ONLY <3>4, p \in QObjects, x \in Int, y \in Int DEF QObjects
    <3>6. QED
      BY <2>1, <3>1, <3>3, <3>4, <3>5
  <2>4. QED
    BY <2>2, <2>3
<1>6. quota' \in [Quotas -> QObjects]
  <2>1. quota' = [q \in Quotas |-> quota'[q]]
    BY DEF QuotaTick
  <2>2. QED
    BY <1>5, <2>1
<1>7. ASSUME NEW k \in QKeys, quotas[k] # NoQuota
      PROVE  /\ quota[quotas[k]] \in QObjects /\ quota'[quotas[k]] \in QObjects
             /\ Within(quota[quotas[k]]) /\ Within(quota'[quotas[k]])
             /\ quota'[quotas[k]].used = quota[quotas[k]].used
             /\ quota'[quotas[k]].period - quota'[quotas[k]].left
                  <= (quota[quotas[k]].period - quota[quotas[k]].left) + 1
  <2>1. PICK q \in Quotas : q = quotas[k]
    BY <1>7, TableQuota
  <2>2. PICK p \in QObjects : p = quota[q]
    BY <1>1 DEF QuotasTyped
  <2>3. Within(p) /\ p.period \in Nat /\ p.left \in Int /\ p.used \in Nat /\ p.limit \in Nat
    BY <1>1, <1>7, <2>1, <2>2 DEF TableWithin, QObjects
  <2>4. p # QBlank
    <3>1. QBlank.period = 0 /\ p.period # 0
      BY <1>1, <2>3 DEF QBlank, Within
    <3>2. QED
      BY <3>1
  <2>5. PICK s \in QObjects : s = quota'[q]
    BY <1>5
  <2>6. s.limit = p.limit /\ s.used = p.used /\ s.period = p.period /\ s.left = Max({-1, p.left - 1})
    BY <1>5, <2>2, <2>4, <2>5
  <2>7. PICK x \in Int : x = Max({-1, p.left - 1}) /\ -1 <= x /\ p.left - 1 <= x /\ (p.left - 1 < -1 \/ x = p.left - 1)
    <3>1. p.left - 1 \in Int
      BY <2>3
    <3>2. QED
      BY <1>3, <3>1
  <2>8. -1 <= p.left /\ p.left <= p.period
    BY <2>3 DEF Within
  <2>9. x <= p.period /\ p.period - x <= (p.period - p.left) + 1
    <3>1. CASE x = p.left - 1
      BY <2>3, <2>7, <2>8, <3>1
    <3>2. CASE x # p.left - 1
      <4>1. p.left < 0
        BY <2>3, <2>7, <3>2
      <4>2. Max({-1, p.left - 1}) = -1
        <5>1. PICK y \in Int : y = p.left - 1 /\ y <= -1
          BY <2>3, <4>1
        <5>2. {-1, y} \in SUBSET Int /\ -1 \in {-1, y} /\ \A z \in {-1, y} : z <= -1
          BY <5>1
        <5>3. Max({-1, y}) = -1
          BY <5>2, MaxIs
        <5>4. QED
          BY <5>1, <5>3
      <4>3. QED
        BY <2>3, <2>7, <2>8, <4>1, <4>2
    <3>3. QED
      BY <3>1, <3>2
  <2>10. Within(s)
    BY <2>3, <2>6, <2>7, <2>9 DEF Within
  <2>11. QED
    BY <2>1, <2>2, <2>3, <2>5, <2>6, <2>7, <2>9, <2>10
<1>8. ASSUME NEW k \in QKeys
      PROVE  recent'[k] \in Stretches /\ caught'[k] \in Stretches /\ Accounted(recent'[k], caught'[k], UsedOf(k)', ElapsedOf(k)')
  <2>1. recent'[k] = Older(recent[k]) /\ caught'[k] = Older(caught[k])
    BY DEF QuotaTick
  <2>2. /\ recent[k] \in Stretches /\ caught[k] \in Stretches
        /\ Accounted(recent[k], caught[k], UsedOf(k), ElapsedOf(k))
    BY <1>1 DEF QuotasTyped, RecentFits
  <2>3. /\ UsedOf(k)' = UsedOf(k) /\ UsedOf(k) \in Nat /\ ElapsedOf(k) \in Int /\ ElapsedOf(k)' \in Int
        /\ ElapsedOf(k)' <= ElapsedOf(k) + 1
    <3>1. CASE quotas[k] = NoQuota
      BY <1>2, <3>1 DEF UsedOf, ElapsedOf
    <3>2. CASE quotas[k] # NoQuota
      <4>1. /\ UsedOf(k)' = quota'[quotas[k]].used /\ UsedOf(k) = quota[quotas[k]].used
            /\ ElapsedOf(k)' = quota'[quotas[k]].period - quota'[quotas[k]].left
            /\ ElapsedOf(k) = quota[quotas[k]].period - quota[quotas[k]].left
        BY <1>2, <3>2 DEF UsedOf, ElapsedOf
      <4>2. /\ quota[quotas[k]].used \in Nat
            /\ quota[quotas[k]].period - quota[quotas[k]].left \in Int
            /\ quota'[quotas[k]].period - quota'[quotas[k]].left \in Int
        BY <1>7, <3>2 DEF QObjects
      <4>3. QED
        BY <1>7, <3>2, <4>1, <4>2
    <3>3. QED
      BY <3>1, <3>2
  <2>4. PICK rec \in Stretches, cgt \in Stretches : rec = recent[k] /\ cgt = caught[k]
    BY <2>2
  <2>5. PICK used \in Nat, elapsed \in Int, later \in Int :
          used = UsedOf(k) /\ elapsed = ElapsedOf(k) /\ later = ElapsedOf(k)' /\ later <= elapsed + 1
    BY <2>3
  <2>6. Accounted(rec, cgt, used, elapsed)
    BY <2>2, <2>4, <2>5
  <2>7. Older(rec) \in Stretches /\ Older(cgt) \in Stretches /\ Accounted(Older(rec), Older(cgt), used, later)
    BY <2>5, <2>6, AccountedTick
  <2>8. QED
    BY <2>1, <2>3, <2>4, <2>5, <2>7
<1>9. QuotasTyped'
  <2>1. recent' = [k \in QKeys |-> recent'[k]] /\ caught' = [k \in QKeys |-> caught'[k]]
    BY DEF QuotaTick
  <2>2. recent' \in [QKeys -> Stretches] /\ caught' \in [QKeys -> Stretches]
    BY <1>8, <2>1
  <2>3. QED
    BY <1>1, <1>2, <1>6, <2>2 DEF QuotasTyped
<1>10. QCallsHold' /\ OneKeyEach'
  BY <1>1, <1>2 DEF QCallsHold, OneKeyEach
<1>11. TableWithin'
  BY <1>2, <1>7 DEF TableWithin, Within
<1>12. RecentFits'
  BY <1>8 DEF RecentFits, Accounted, Fits
<1>13. QED
  BY <1>9, <1>10, <1>11, <1>12 DEF QuotaInv

\* Every step keeps the invariant.
LEMMA QuotaInvNext == QuotaInv /\ [QuotaNext]_quotaVars => QuotaInv'
<1> SUFFICES ASSUME QuotaInv, [QuotaNext]_quotaVars PROVE QuotaInv'
  OBVIOUS
<1>1. CASE \E c \in QCallers : \E k \in QKeysOf[c] :
             \/ \E n \in QAmounts, op \in {"use", "check"} : BeginQuota(c, k, op, n, QDefault)
             \/ \E l \in QLimits : BeginQuota(c, k, "set", 0, l)
             \/ BeginQuota(c, k, "reset", 0, QDefault)
  <2>1. PICK c \in QCallers : \E k \in QKeysOf[c] :
             \/ \E n \in QAmounts, op \in {"use", "check"} : BeginQuota(c, k, op, n, QDefault)
             \/ \E l \in QLimits : BeginQuota(c, k, "set", 0, l)
             \/ BeginQuota(c, k, "reset", 0, QDefault)
    BY <1>1
  <2>2. PICK k \in QKeysOf[c] :
             \/ \E n \in QAmounts, op \in {"use", "check"} : BeginQuota(c, k, op, n, QDefault)
             \/ \E l \in QLimits : BeginQuota(c, k, "set", 0, l)
             \/ BeginQuota(c, k, "reset", 0, QDefault)
    BY <2>1
  <2>3. k \in QKeys /\ QDefault \in QLimits /\ QAmounts \subseteq Nat
    BY QuotasAssumption
  <2>4. QED
    BY <2>2, <2>3, BeginKeepsQuotas
<1>2. CASE \E c \in QCallers : GetQuota(c) \/ UseHeldQuota(c) \/ RenewHeldQuota(c)
  BY <1>2, GetKeepsQuotas, UseKeeps, RenewKeeps
<1>3. CASE \E k \in QKeys : ResetExpired(k)
  BY <1>3, ExpiredKeeps
<1>4. CASE QuotaCleanup
  BY <1>4, CleanupKeepsQuotas
<1>5. CASE QuotaTick
  BY <1>5, TickKeepsQuotas
<1>6. CASE UNCHANGED quotaVars
  BY <1>6 DEF quotaVars, QuotaInv, QuotasTyped, QCallsHold, OneKeyEach, TableWithin, Within, RecentFits,
              UsedOf, ElapsedOf, Accounted, Fits
<1>7. QED
  BY <1>1, <1>2, <1>3, <1>4, <1>5, <1>6 DEF QuotaNext

\* What a key is granted in any stretch of a period, from quotas in the table and
\* from dropped ones, is no more than two windows' worth and one limit's worth for
\* each call whose quota was dropped between its lookup and its use: lookups,
\* expiry and cleanup, in whatever order, add no more than that. Only an eviction,
\* SetQuota and ResetQuota start a key anew (rate_limiting.go:369-381, 437-596).
THEOREM GrantsFitTwoWindows == QuotaSpec => []TwoWindowsAtMost
<1>1. QuotaInit => QuotaInv
  BY QuotaInvInit
<1>2. QuotaInv /\ [QuotaNext]_quotaVars => QuotaInv'
  BY QuotaInvNext
<1>3. QuotaInv => TwoWindowsAtMost
  BY FitsIsTwice
<1>4. QED
  BY <1>1, <1>2, <1>3, PTL DEF QuotaSpec
==============================================================================
