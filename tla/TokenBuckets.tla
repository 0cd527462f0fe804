------------------------------ MODULE TokenBuckets ------------------------------
(***************************************************************************)
(* TokenBucketLimiter (rate_limiting.go): one bucket per key, looked up     *)
(* under the table's lock and used under its own.  Between the two steps    *)
(* cleanup, an eviction or Reset may drop it from the table; its holder     *)
(* goes on with the object it has.                                          *)
(*                                                                         *)
(* Time advances by Tick.  A bucket keeps the age of its lastRefill, which  *)
(* stops growing at MaxAge, where it is old enough for everything that      *)
(* depends on it.                                                           *)
(***************************************************************************)
EXTENDS Integers, FiniteSets, FiniteSetsExt

CONSTANTS
  Keys, Callers,
  KeysOf,           \* the keys each caller asks for
  Buckets,          \* objects, enough of them for the table and its users
  Limits,           \* the [capacity, refill] that SetLimit may be given
  Default,          \* DefaultCapacity and DefaultRefill
  CleanupInterval,
  MaxBuckets,
  Amounts,          \* what AllowN may be asked for
  MaxAge,           \* bound: ages beyond it are all alike
  NoBucket

Capacity == CHOOSE m \in {l.capacity : l \in Limits} : \A l \in Limits : l.capacity <= m
Refill == CHOOSE m \in {l.refill : l \in Limits} : \A l \in Limits : m <= l.refill
SlowRefill == CHOOSE m \in {l.refill : l \in Limits} : \A l \in Limits : l.refill <= m

ASSUME TokenBucketsAssumption ==
  /\ KeysOf \in [Callers -> SUBSET Keys]
  /\ Limits # {} /\ IsFiniteSet(Limits)
  /\ Limits \subseteq [capacity : Nat \ {0}, refill : Nat \ {0}]
  /\ Default \in Limits
  /\ NoBucket \notin Buckets /\ IsFiniteSet(Callers)
  /\ Amounts \subseteq Nat /\ MaxAge \in Nat
  /\ CleanupInterval \in Nat /\ Capacity * Refill <= CleanupInterval
  /\ CleanupInterval < MaxAge /\ Capacity * SlowRefill <= MaxAge

VARIABLES
  buckets,   \* the table: key -> bucket object
  bucket,    \* the objects: capacity, refill, tokens, age of lastRefill
  caller,    \* per caller: what it does, where it is, the object it holds
  credit     \* what an ideal bucket for the key, and the calls caught with a dropped
             \* one, would still be allowed, in ticks

bucketVars == <<buckets, bucket, caller, credit>>

Bucket == [capacity : Nat, refill : Nat, tokens : Nat, age : 0..MaxAge]

Blank == [capacity |-> 0, refill |-> 1, tokens |-> 0, age |-> 0]

Full == [capacity |-> Default.capacity, refill |-> Default.refill,
         tokens |-> Default.capacity, age |-> 0]

Idle == [op |-> "none", pc |-> "idle", key |-> CHOOSE k \in Keys : TRUE,
         n |-> 0, limit |-> Default, held |-> NoBucket, timer |-> 0]

\* The fluid bucket that bounds the code's: it gains one per tick and pays
\* Refill for a token, and it holds a full bucket and the part of an interval
\* that a full bucket keeps.
MaxCredit == Capacity * Refill + SlowRefill - 1

BucketInit ==
  /\ buckets = [k \in Keys |-> NoBucket]
  /\ bucket = [b \in Buckets |-> Blank]
  /\ caller = [c \in Callers |-> Idle]
  /\ credit = [k \in Keys |-> MaxCredit]

Larger(a, b) == IF a < b THEN b ELSE a
Smaller(a, b) == IF a < b THEN a ELSE b

-----------------------------------------------------------------------------
Held(c) == caller[c].held

\* Objects nobody refers to any more are collected.
Collect(table, callers, objects) ==
  [b \in Buckets |->
     IF (\E k \in Keys : table[k] = b) \/ (\E c \in Callers : callers[c].held = b)
     THEN objects[b] ELSE Blank]

\* The calls for k that are about to take from a bucket that was dropped after
\* they had looked it up, and what they ask for.
Caught(k) == {c \in Callers : caller[c].pc = "take" /\ caller[c].key = k /\ Held(c) # buckets[k]}

Asked(k) == MapThenSumSet(LAMBDA c : caller[c].n, Caught(k))

Unused == {b \in Buckets : (\A k \in Keys : buckets[k] # b) /\ (\A c \in Callers : Held(c) # b)}

\* Dropping a bucket lets each call that holds it take what it asks for once
\* more; by eviction or Reset the key also starts again from full.
CreditAfterDrop(forgiven) ==
  credit' = [k \in Keys |->
    (IF k \in forgiven THEN Larger(credit[k], Capacity * Refill + Asked(k) * Refill) ELSE credit[k])
      + (Asked(k)' - Asked(k)) * Refill]

\* Mutant: whole intervals are added but lastRefill stays where it was.
RefilledTwice(b) ==
  IF b.age < b.refill THEN b
  ELSE [b EXCEPT !.tokens = Smaller(b.capacity, b.tokens + b.age \div b.refill)]

\* refill adds the whole intervals and forgets the rest.
Refilled(b) ==
  IF b.age < b.refill THEN b
  ELSE [b EXCEPT !.tokens = Smaller(b.capacity, b.tokens + b.age \div b.refill), !.age = 0]

-----------------------------------------------------------------------------
\* AllowN, Wait and SetLimit begin with getBucket; Wait asks for one token.
Begin(c, k, op, n, l) ==
  /\ caller[c].pc = "idle"
  /\ caller' = [caller EXCEPT ![c] =
       [op |-> op, pc |-> "lookup", key |-> k, n |-> IF op = "wait" THEN 1 ELSE n,
        limit |-> l, held |-> NoBucket, timer |-> 0]]
  /\ UNCHANGED <<buckets, bucket, credit>>

AfterLookup(c) ==
  CASE caller[c].pc = "relookup" -> "reserve"
    [] caller[c].op = "setlimit" -> "set"
    [] OTHER -> "take"

\* getBucket finds the bucket, or makes one and, if the table is full, evicts
\* some other one.
GetBucket(c) ==
  LET k == caller[c].key IN
  /\ caller[c].pc \in {"lookup", "relookup"}
  /\ \/ /\ buckets[k] # NoBucket
        /\ caller' = [caller EXCEPT ![c].held = buckets[k], ![c].pc = AfterLookup(c)]
        /\ UNCHANGED <<buckets, bucket, credit>>
     \/ /\ buckets[k] = NoBucket
        /\ \E b \in Unused, out \in SUBSET Keys :
             /\ LET here == {j \in Keys : buckets[j] # NoBucket} IN
                IF Cardinality(here) >= MaxBuckets /\ here # {}
                THEN \E j \in here : out = {j} ELSE out = {}
             /\ b = CHOOSE u \in Unused : TRUE
             /\ buckets' = [j \in Keys |-> IF j = k THEN b
                                           ELSE IF j \in out THEN NoBucket ELSE buckets[j]]
             /\ caller' = [caller EXCEPT ![c].held = b, ![c].pc = AfterLookup(c)]
             /\ bucket' = Collect(buckets', caller', [bucket EXCEPT ![b] = Full])
             /\ CreditAfterDrop(out)

\* Mutant: the last token of a bucket is kept back.
TakeTokensButOne(c) ==
  LET k == caller[c].key
      b == Refilled(bucket[Held(c)])
      n == caller[c].n
      objects == [bucket EXCEPT ![Held(c)] = IF b.tokens > n THEN [b EXCEPT !.tokens = @ - n] ELSE b] IN
  /\ caller[c].pc = "take"
  /\ caller' = [caller EXCEPT ![c] =
       IF b.tokens <= n /\ @.op = "wait" THEN [@ EXCEPT !.pc = "relookup", !.held = NoBucket] ELSE Idle]
  /\ bucket' = Collect(buckets, caller', objects)
  /\ credit' = IF b.tokens > n \/ c \in Caught(k) THEN [credit EXCEPT ![k] = @ - n * Refill] ELSE credit
  /\ UNCHANGED buckets

\* takeTokens, under the bucket's own lock.  Every grant is paid for, also one
\* from a bucket that was dropped meanwhile; a call caught with one that gets
\* nothing gives back what it was allowed for that.
TakeTokens(c) ==
  LET k == caller[c].key
      b == Refilled(bucket[Held(c)])
      n == caller[c].n
      objects == [bucket EXCEPT ![Held(c)] = IF b.tokens >= n THEN [b EXCEPT !.tokens = @ - n] ELSE b] IN
  /\ caller[c].pc = "take"
  /\ caller' = [caller EXCEPT ![c] =
       IF b.tokens < n /\ @.op = "wait" THEN [@ EXCEPT !.pc = "relookup", !.held = NoBucket] ELSE Idle]
  /\ bucket' = Collect(buckets, caller', objects)
  /\ credit' = IF b.tokens >= n \/ c \in Caught(k) THEN [credit EXCEPT ![k] = @ - n * Refill] ELSE credit
  /\ UNCHANGED buckets

\* Reserve, for a Wait that got no token: how long until there is one.
ReserveTime(c) ==
  LET b == Refilled(bucket[Held(c)]) IN
  /\ caller[c].pc = "reserve"
  /\ caller' = [caller EXCEPT ![c].pc = "sleep", ![c].held = NoBucket,
                              ![c].timer = IF b.tokens > 0 THEN 0 ELSE b.refill - b.age]
  /\ bucket' = Collect(buckets, caller', [bucket EXCEPT ![Held(c)] = b])
  /\ UNCHANGED <<buckets, credit>>

\* The timer fires and Wait tries again, or its context is cancelled.
WaitAgain(c) ==
  /\ caller[c].pc = "sleep"
  /\ caller[c].timer = 0
  /\ caller' = [caller EXCEPT ![c].pc = "lookup"]
  /\ UNCHANGED <<buckets, bucket, credit>>

WaitCancelled(c) ==
  /\ caller[c].pc = "sleep"
  /\ caller' = [caller EXCEPT ![c] = Idle]
  /\ UNCHANGED <<buckets, bucket, credit>>

\* SetLimit changes the bucket it found; tokens above the new capacity go.
SetLimit(c) ==
  LET l == caller[c].limit
      b == bucket[Held(c)] IN
  /\ caller[c].pc = "set"
  /\ caller' = [caller EXCEPT ![c] = Idle]
  /\ bucket' = Collect(buckets, caller', [bucket EXCEPT ![Held(c)] =
       [b EXCEPT !.capacity = l.capacity, !.refill = l.refill,
                 !.tokens = Smaller(@, l.capacity)]])
  /\ UNCHANGED <<buckets, credit>>

Reset(k) ==
  /\ buckets[k] # NoBucket
  /\ buckets' = [buckets EXCEPT ![k] = NoBucket]
  /\ bucket' = Collect(buckets', caller, bucket)
  /\ UNCHANGED caller
  /\ CreditAfterDrop({k})

\* cleanup drops every bucket that was not refilled for CleanupInterval.
Cleanup ==
  LET old == {k \in Keys : buckets[k] # NoBucket /\ bucket[buckets[k]].age > CleanupInterval} IN
  /\ old # {}
  /\ buckets' = [k \in Keys |-> IF k \in old THEN NoBucket ELSE buckets[k]]
  /\ bucket' = Collect(buckets', caller, bucket)
  /\ UNCHANGED caller
  /\ CreditAfterDrop({})

\* One unit of time.
Tick ==
  /\ bucket' = [b \in Buckets |-> IF bucket[b] = Blank THEN Blank
                                  ELSE [bucket[b] EXCEPT !.age = Smaller(MaxAge, @ + 1)]]
  /\ caller' = [c \in Callers |-> [caller[c] EXCEPT !.timer = Larger(0, @ - 1)]]
  /\ credit' = [k \in Keys |-> Smaller(MaxCredit + Asked(k) * Refill, credit[k] + 1)]
  /\ UNCHANGED buckets

CallerStep(c) == GetBucket(c) \/ TakeTokens(c) \/ ReserveTime(c) \/ WaitAgain(c) \/ SetLimit(c)

BucketNext ==
  \/ \E c \in Callers : \E k \in KeysOf[c] :
       \/ \E n \in Amounts : Begin(c, k, "allow", n, Default)
       \/ Begin(c, k, "wait", 1, Default)
       \/ \E l \in Limits : Begin(c, k, "setlimit", 0, l)
  \/ \E c \in Callers : CallerStep(c) \/ WaitCancelled(c)
  \/ \E k \in Keys : Reset(k)
  \/ Cleanup
  \/ Tick

\* A call that can go on does, and time passes.
BucketFairness == WF_bucketVars(Tick) /\ \A c \in Callers : WF_bucketVars(CallerStep(c))

BucketSafe == BucketInit /\ [][BucketNext]_bucketVars
BucketSpec == BucketSafe /\ BucketFairness

-----------------------------------------------------------------------------
(* Properties.                                                             *)

\* How much a key is granted, by whatever bucket, when lookups, cleanup and
\* changes of the limit interleave: every grant is charged to the key's credit,
\* and the credit covers what its bucket in the table can give, now and after
\* its next refill, and what the calls ask for that hold a dropped one.  The
\* credit is that of an ideal bucket, which has a full bucket, the interval a
\* full bucket keeps, and one token per refill interval, and once for each call
\* caught with a bucket that was dropped what that call asks for: that much too
\* many tokens are granted, and no more.  A key without a bucket has credit for
\* a full one; only eviction and Reset start a key anew
\* (rate_limiting.go:103-107, 179-260, 295-308).
Covered ==
  \A k \in Keys :
    Asked(k) * Refill + (IF buckets[k] = NoBucket THEN Capacity * Refill
                         ELSE Smaller(MaxCredit, bucket[buckets[k]].tokens * Refill + bucket[buckets[k]].age))
      <= credit[k]

\* A Wait that is not cancelled returns once nobody else uses the limiter: the
\* time Reserve names is enough for a token (rate_limiting.go:110-138, 263-282).
WaitServed ==
  \A c \in Callers :
    <>[](\A d \in Callers \ {c} : caller[d].pc = "idle") => []<>(caller[c].op # "wait")
=============================================================================
