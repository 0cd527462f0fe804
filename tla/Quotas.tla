--------------------------------- MODULE Quotas ---------------------------------
(***************************************************************************)
(* QuotaManager (rate_limiting.go): one quota per key with a fixed window.  *)
(* As with the buckets of TokenBuckets, a quota is looked up under one lock *)
(* and used under another; cleanup, an eviction or a reset may come in      *)
(* between.  Time advances by Tick; ages and remaining times stop at the    *)
(* point where nothing tells them apart any more.                           *)
(***************************************************************************)
EXTENDS Integers, FiniteSets, FiniteSetsExt

CONSTANTS
  QKeys, QCallers,
  QKeysOf,          \* the keys each caller asks for
  Quotas,           \* objects, enough of them for the table and its users
  QLimits,          \* the [limit, period] that SetQuota may be given
  QDefault,         \* DefaultQuota and ResetInterval
  QCleanupInterval,
  MaxQuotas,
  QAmounts,
  NoQuota

Periods == {l.period : l \in QLimits}
MinPeriod == Min(Periods)
MaxLimit == Max({l.limit : l \in QLimits})
MaxResetAge == 2 * QCleanupInterval + 1

ASSUME QuotasAssumption ==
  /\ QKeysOf \in [QCallers -> SUBSET QKeys]
  /\ IsFiniteSet(QLimits) /\ QDefault \in QLimits
  /\ QLimits \subseteq [limit : Nat, period : Nat \ {0}]
  /\ NoQuota \notin Quotas
  /\ QAmounts \subseteq Nat /\ QCleanupInterval \in Nat

VARIABLES
  quotas,    \* the table: key -> quota object
  quota,     \* the objects: Limit, Used, ResetPeriod, time to WindowEnd, age of LastReset
  qcaller,   \* per caller: what it does, where it is, the object it holds
  recent,    \* what was granted n ticks ago for the key, from whatever quota
  caught     \* the calls granted n ticks ago from a quota that was dropped after
             \* they had looked it up

quotaVars == <<quotas, quota, qcaller, recent, caught>>
granted == <<recent, caught>>

Quota == [limit : Nat, used : Nat, period : Nat, left : Int, resetAge : 0..MaxResetAge]

QBlank == [limit |-> 0, used |-> 0, period |-> 0, left |-> 0, resetAge |-> 0]

NewQuota == [limit |-> QDefault.limit, used |-> 0, period |-> QDefault.period,
             left |-> QDefault.period, resetAge |-> 0]

QIdle == [op |-> "none", pc |-> "idle", key |-> CHOOSE k \in QKeys : TRUE,
          n |-> 0, limit |-> QDefault, held |-> NoQuota]

\* What a key was granted, or how many calls, over the last period.
Total(r) == MapThenSumSet(LAMBDA t : r[t], 0..MinPeriod - 1)

Nothing == [t \in 0..MinPeriod - 1 |-> 0]

QuotaInit ==
  /\ quotas = [k \in QKeys |-> NoQuota]
  /\ quota = [q \in Quotas |-> QBlank]
  /\ qcaller = [c \in QCallers |-> QIdle]
  /\ recent = [k \in QKeys |-> Nothing] /\ caught = [k \in QKeys |-> Nothing]

-----------------------------------------------------------------------------
CollectQuotas(table, callers, objects) ==
  [q \in Quotas |->
     IF (\E k \in QKeys : table[k] = q) \/ (\E c \in QCallers : callers[c].held = q)
     THEN objects[q] ELSE QBlank]

UnusedQuotas ==
  {q \in Quotas : (\A k \in QKeys : quotas[k] # q) /\ (\A c \in QCallers : qcaller[c].held # q)}

\* resetWindow
ResetWindow(q) == [q EXCEPT !.used = 0, !.left = q.period, !.resetAge = 0]

\* checkReset: the window is over when now is after its end.
CheckReset(q) == IF q.left < 0 THEN ResetWindow(q) ELSE q

-----------------------------------------------------------------------------
\* CheckQuota, UseQuota, SetQuota and ResetQuota begin with getQuota.
BeginQuota(c, k, op, n, l) ==
  /\ qcaller[c].pc = "idle"
  /\ qcaller' = [qcaller EXCEPT ![c] =
       [op |-> op, pc |-> "lookup", key |-> k, n |-> n, limit |-> l, held |-> NoQuota]]
  /\ UNCHANGED <<quotas, quota, granted>>

\* What was granted for these keys is forgotten.
StartAnew(ks) ==
  /\ recent' = [k \in QKeys |-> IF k \in ks THEN Nothing ELSE recent[k]]
  /\ caught' = [k \in QKeys |-> IF k \in ks THEN Nothing ELSE caught[k]]

\* getQuota finds the quota, or makes one and, if the table is full, evicts
\* some other one, whose usage is forgotten.
GetQuota(c) ==
  LET k == qcaller[c].key
      here == {j \in QKeys : quotas[j] # NoQuota} IN
  /\ qcaller[c].pc = "lookup"
  /\ \/ /\ quotas[k] # NoQuota
        /\ qcaller' = [qcaller EXCEPT ![c].held = quotas[k], ![c].pc = "held"]
        /\ UNCHANGED <<quotas, quota, granted>>
     \/ /\ quotas[k] = NoQuota
        /\ \E q \in UnusedQuotas, out \in SUBSET here :
             /\ q = CHOOSE u \in UnusedQuotas : TRUE
             /\ Cardinality(out) = IF Cardinality(here) >= MaxQuotas /\ here # {} THEN 1 ELSE 0
             /\ quotas' = [j \in QKeys |-> IF j = k THEN q
                                           ELSE IF j \in out THEN NoQuota ELSE quotas[j]]
             /\ qcaller' = [qcaller EXCEPT ![c].held = q, ![c].pc = "held"]
             /\ quota' = CollectQuotas(quotas', qcaller', [quota EXCEPT ![q] = NewQuota])
             /\ StartAnew(out)

\* The rest of the call, under the quota's own lock, whether the quota is still
\* in the table or not.
UseHeldQuota(c) ==
  LET k == qcaller[c].key
      n == qcaller[c].n
      q == CheckReset(quota[qcaller[c].held])
      allowed == q.used + n <= q.limit
      used == allowed /\ qcaller[c].op = "use" IN
  /\ qcaller[c].pc = "held"
  /\ qcaller[c].op \in {"use", "check"}
  /\ qcaller' = [qcaller EXCEPT ![c] = QIdle]
  /\ quota' = CollectQuotas(quotas, qcaller', [quota EXCEPT ![qcaller[c].held] =
       IF used THEN [q EXCEPT !.used = @ + n] ELSE q])
  /\ recent' = IF used THEN [recent EXCEPT ![k][0] = @ + n] ELSE recent
  /\ caught' = IF used /\ quotas[k] # qcaller[c].held THEN [caught EXCEPT ![k][0] = @ + 1] ELSE caught
  /\ UNCHANGED quotas

\* SetQuota gives the quota new terms and a new window, ResetQuota a new window.
RenewHeldQuota(c) ==
  LET k == qcaller[c].key
      l == qcaller[c].limit
      q == quota[qcaller[c].held]
      terms == IF qcaller[c].op = "set" THEN [q EXCEPT !.limit = l.limit, !.period = l.period] ELSE q IN
  /\ qcaller[c].pc = "held"
  /\ qcaller[c].op \in {"set", "reset"}
  /\ qcaller' = [qcaller EXCEPT ![c] = QIdle]
  /\ quota' = CollectQuotas(quotas, qcaller', [quota EXCEPT ![qcaller[c].held] = ResetWindow(terms)])
  /\ StartAnew({j \in {k} : quotas[j] = qcaller[c].held})
  /\ UNCHANGED quotas

\* resetExpiredQuotas, one quota at a time.
ResetExpired(k) ==
  /\ quotas[k] # NoQuota
  /\ quota[quotas[k]].left < 0
  /\ quota' = [quota EXCEPT ![quotas[k]] = ResetWindow(@)]
  /\ UNCHANGED <<quotas, qcaller, granted>>

\* Mutant: a quota that is in use is dropped as well.
QuotaCleanupUsed ==
  LET old == {k \in QKeys : quotas[k] # NoQuota /\ quota[quotas[k]].resetAge > 2 * QCleanupInterval} IN
  /\ old # {}
  /\ quotas' = [k \in QKeys |-> IF k \in old THEN NoQuota ELSE quotas[k]]
  /\ quota' = CollectQuotas(quotas', qcaller, quota)
  /\ UNCHANGED <<qcaller, granted>>

\* cleanup drops the quotas without usage whose window is old.
QuotaCleanup ==
  LET old == {k \in QKeys : /\ quotas[k] # NoQuota
                            /\ quota[quotas[k]].resetAge > 2 * QCleanupInterval
                            /\ quota[quotas[k]].used = 0} IN
  /\ old # {}
  /\ quotas' = [k \in QKeys |-> IF k \in old THEN NoQuota ELSE quotas[k]]
  /\ quota' = CollectQuotas(quotas', qcaller, quota)
  /\ UNCHANGED <<qcaller, granted>>

Older(r) == [t \in 0..MinPeriod - 1 |-> IF t = 0 THEN 0 ELSE r[t - 1]]

\* One unit of time.
QuotaTick ==
  /\ quota' = [q \in Quotas |-> IF quota[q] = QBlank THEN QBlank ELSE
       [quota[q] EXCEPT !.left = Max({-1, @ - 1}), !.resetAge = Min({MaxResetAge, @ + 1})]]
  /\ recent' = [k \in QKeys |-> Older(recent[k])] /\ caught' = [k \in QKeys |-> Older(caught[k])]
  /\ UNCHANGED <<quotas, qcaller>>

QuotaNext ==
  \/ \E c \in QCallers : \E k \in QKeysOf[c] :
       \/ \E n \in QAmounts, op \in {"use", "check"} : BeginQuota(c, k, op, n, QDefault)
       \/ \E l \in QLimits : BeginQuota(c, k, "set", 0, l)
       \/ BeginQuota(c, k, "reset", 0, QDefault)
  \/ \E c \in QCallers : GetQuota(c) \/ UseHeldQuota(c) \/ RenewHeldQuota(c)
  \/ \E k \in QKeys : ResetExpired(k)
  \/ QuotaCleanup
  \/ QuotaTick

QuotaSpec == QuotaInit /\ [][QuotaNext]_quotaVars

-----------------------------------------------------------------------------
(* Properties.                                                             *)

\* How much is granted to a key in any stretch of one period, from whatever
\* quota: fixed windows allow two windows' worth around the end of one of them,
\* and expiry and cleanup, in whatever order, allow no more, except that each call
\* whose quota was dropped between its lookup and its use may be granted one
\* window's worth besides.  Only an eviction, SetQuota and ResetQuota start a key
\* anew (rate_limiting.go:369-381, 437-596).
TwoWindowsAtMost ==
  \A k \in QKeys : Total(recent[k]) <= (2 + Total(caught[k])) * MaxLimit
=============================================================================
