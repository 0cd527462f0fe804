------------------------------ MODULE Capabilities ------------------------------
(***************************************************************************)
(* SecurityManager and MemoryCapabilityStore (security.go): capabilities in *)
(* a table of their own and, by ID, in the lists of the sessions they are   *)
(* granted to.  The table has a lock, the sessions have another, and a      *)
(* check walks a session's list with neither while RevokeCapability moves   *)
(* its elements.                                                            *)
(*                                                                         *)
(* A capability either fits the operation that checks ask for or does not.  *)
(* The manager sets no MaxUses, so use counts, which then bound nothing,    *)
(* are left out.  Deadlines pass whenever they like; that of a session has  *)
(* passed or not whenever somebody asks.                                    *)
(***************************************************************************)
EXTENDS Integers, Sequences, FiniteSets

CONSTANTS
  Caps,             \* IDs, each drawn once
  SecSessions,      \* session IDs, each drawn once
  Issuers,          \* goroutines that create, delegate and grant
  Revokers,         \* goroutines that revoke
  Checks,           \* calls of CheckAuthorization
  MaxPerSubject,    \* MaxCapabilitiesPerSubject
  MaxListed,        \* bound: length of a session's list
  NoCap

ASSUME CapabilitiesAssumption ==
  /\ NoCap \notin Caps
  /\ MaxPerSubject \in Nat /\ MaxListed \in Nat

VARIABLES
  capability, \* per ID: undrawn, in the table or removed from it; what it is like there
  revoked,    \* IDs whose revocation has returned
  session,    \* per session: its state, its list as an array and a length
  issuer,     \* per issuer: what it is in the middle of
  revoker,    \* per revoker: the ID it has yet to take from the sessions
  check       \* per check: where it is, the list it walks, what it could have used
              \* all along, whether the list moved; whether it allowed by an ID
              \* whose revocation had returned

secVars == <<capability, revoked, session, issuer, revoker, check>>

\* owners: it was created for the owner and not delegated; term: whose ExpiresAt it has.
Bare(state) == [state |-> state, fits |-> FALSE, owners |-> FALSE, term |-> NoCap, expired |-> FALSE]
AtRest == [pc |-> "idle", cap |-> NoCap, made |-> Bare("undrawn"), session |-> CHOOSE s \in SecSessions : TRUE]
NoCheck == [pc |-> "new", session |-> CHOOSE s \in SecSessions : TRUE, own |-> FALSE, array |-> <<>>,
            length |-> 0, i |-> 1, id |-> NoCap, usable |-> {}, moved |-> FALSE, stale |-> FALSE]

SecInit ==
  /\ capability = [c \in Caps |-> Bare("undrawn")]
  /\ revoked = {}
  /\ session = [s \in SecSessions |-> [state |-> "undrawn", array |-> <<>>, length |-> 0]]
  /\ issuer = [g \in Issuers |-> AtRest]
  /\ revoker = [g \in Revokers |-> NoCap]
  /\ check = [k \in Checks |-> NoCheck]

-----------------------------------------------------------------------------
\* GrantCapability keeps sessionsMux from its lookups to its append.
SessionsLocked == \E g \in Issuers : issuer[g].pc = "append"

Stored == {c \in Caps : capability[c].state = "stored"}
Listed(s) == {session[s].array[i] : i \in 1..session[s].length}
Valid(c) == c \in Stored /\ capability[c].fits /\ ~capability[c].expired
Usable(s) == {c \in Listed(s) : Valid(c)}

Walking(k) == check[k].pc \in {"range", "validate"}

\* A check in progress forgets what it could not have used from its start on.
Witnessed ==
  [k \in Checks |-> IF ~Walking(k) THEN check[k] ELSE
     [check[k] EXCEPT !.usable = {c \in @ : \E s \in {check[k].session} : (c \in Usable(s))'}]]

-----------------------------------------------------------------------------
(* The table: CreateCapability, DelegateCapability, Revoke and time.       *)

\* List is one critical section and Store another: creators that list at the
\* same time all pass the limit.
CreateLists(g, fits) ==
  /\ issuer[g].pc = "idle"
  /\ Cardinality({c \in Stored : capability[c].owners}) < MaxPerSubject
  /\ issuer' = [issuer EXCEPT ![g].pc = "store",
                              ![g].made = [Bare("stored") EXCEPT !.fits = fits, !.owners = TRUE]]
  /\ UNCHANGED <<capability, revoked, session, revoker, check>>

\* Only the owner's can be delegated.  A delegated capability is for somebody
\* else, may be restricted, and expires with the one it was made from.
DelegateRetrieves(g, c, restricted) ==
  /\ issuer[g].pc = "idle"
  /\ c \in Stored /\ capability[c].owners
  /\ issuer' = [issuer EXCEPT ![g].pc = "store",
       ![g].made = [capability[c] EXCEPT !.fits = @ /\ ~restricted, !.owners = FALSE]]
  /\ UNCHANGED <<capability, revoked, session, revoker, check>>

StoreIssued(g) ==
  LET undrawn == {c \in Caps : capability[c].state = "undrawn"}
      id == CHOOSE c \in undrawn : TRUE IN
  /\ issuer[g].pc = "store" /\ undrawn # {}
  /\ capability' = [capability EXCEPT ![id] = [issuer[g].made EXCEPT !.term = IF @ = NoCap THEN id ELSE @]]
  /\ issuer' = [issuer EXCEPT ![g] = AtRest]
  /\ UNCHANGED <<revoked, session, revoker, check>>

\* Mutant: the capability is taken from the sessions only.
RevokeFromSessionsOnly(g, c) ==
  /\ revoker[g] = NoCap /\ capability[c].state # "undrawn"
  /\ revoker' = [revoker EXCEPT ![g] = c]
  /\ UNCHANGED <<capability, revoked, session, issuer, check>>

\* RevokeCapability removes the capability from the table first.
Revoke(g, c) ==
  /\ revoker[g] = NoCap /\ capability[c].state # "undrawn"
  /\ revoker' = [revoker EXCEPT ![g] = c]
  /\ capability' = [capability EXCEPT ![c] = Bare("removed")]
  /\ UNCHANGED <<revoked, session, issuer>>
  /\ check' = Witnessed

\* Then, of every session, the first place that lists it; the rest of the list
\* moves down within its array, whose last element stays behind.
RevokeScrubs(g) ==
  LET c == revoker[g]
      hit == {s \in SecSessions : c \in Listed(s)}
      first(s) == CHOOSE i \in 1..session[s].length :
                    session[s].array[i] = c /\ \A j \in 1..i - 1 : session[s].array[j] # c
      shifted(s) == [i \in DOMAIN session[s].array |->
                       session[s].array[IF first(s) <= i /\ i < session[s].length THEN i + 1 ELSE i]] IN
  /\ c # NoCap /\ ~SessionsLocked
  /\ session' = [s \in SecSessions |-> IF s \notin hit THEN session[s] ELSE
                   [session[s] EXCEPT !.array = shifted(s), !.length = @ - 1]]
  /\ revoked' = revoked \cup {c}
  /\ revoker' = [revoker EXCEPT ![g] = NoCap]
  /\ UNCHANGED <<capability, issuer>>
  /\ check' = [k \in Checks |-> [Witnessed[k] EXCEPT
       !.moved = @ \/ (check[k].session \in hit /\ Walking(k) /\ ~check[k].own)]]

\* A capability expires, and with it what was delegated from it.
TermEnds(t) ==
  LET ends(made) == [made EXCEPT !.expired = @ \/ made.term = t] IN
  /\ \E c \in Stored : capability[c].term = t /\ ~capability[c].expired
  /\ capability' = [c \in Caps |-> ends(capability[c])]
  /\ issuer' = [g \in Issuers |-> [issuer[g] EXCEPT !.made = ends(@)]]
  /\ UNCHANGED <<revoked, session, revoker>>
  /\ check' = Witnessed

CleanupStore ==
  /\ \E c \in Stored : capability[c].expired
  /\ capability' = [c \in Caps |-> IF capability[c].expired THEN Bare("removed") ELSE capability[c]]
  /\ UNCHANGED <<revoked, session, issuer, revoker, check>>

-----------------------------------------------------------------------------
(* The sessions: Authenticate, GrantCapability, Logout and cleanup.        *)

Authenticate(s) ==
  /\ session[s].state = "undrawn" /\ ~SessionsLocked
  /\ session' = [session EXCEPT ![s].state = "known"]
  /\ UNCHANGED <<capability, revoked, issuer, revoker, check>>

\* An expired session is good enough, and so is an expired capability.
GrantLooks(g, s, c) ==
  /\ issuer[g].pc = "idle" /\ ~SessionsLocked
  /\ session[s].state = "known" /\ session[s].length < MaxListed
  /\ c \in Stored
  /\ issuer' = [issuer EXCEPT ![g].pc = "append", ![g].cap = c, ![g].session = s]
  /\ UNCHANGED <<capability, revoked, session, revoker, check>>

\* append writes in place while there is room, else it copies to a new array of
\* twice the size and leaves the old one to the checks that walk it.
GrantAppends(g) ==
  LET s == issuer[g].session
      old == session[s].array
      n == session[s].length
      grown == [i \in 1..IF n = 0 THEN 1 ELSE 2 * n |-> IF i <= n THEN old[i] ELSE NoCap]
      array == IF n < Len(old) THEN old ELSE grown IN
  /\ issuer[g].pc = "append"
  /\ session' = [session EXCEPT ![s].array = [array EXCEPT ![n + 1] = issuer[g].cap], ![s].length = n + 1]
  /\ issuer' = [issuer EXCEPT ![g] = AtRest]
  /\ check' = [k \in Checks |->
       IF Walking(k) /\ check[k].session = s /\ ~check[k].own /\ n = Len(old)
       THEN [check[k] EXCEPT !.own = TRUE, !.array = old] ELSE check[k]]
  /\ UNCHANGED <<capability, revoked, revoker>>

\* The session leaves the table; a check that has its context goes on with the
\* list it has.
SessionGoes(s) ==
  /\ session[s].state = "known" /\ ~SessionsLocked
  /\ session' = [session EXCEPT ![s] = [state |-> "gone", array |-> <<>>, length |-> 0]]
  /\ check' = [k \in Checks |->
       IF ~Walking(k) \/ check[k].session # s THEN check[k] ELSE
       [check[k] EXCEPT !.own = TRUE, !.array = IF check[k].own THEN @ ELSE session[s].array, !.usable = {}]]
  /\ UNCHANGED <<capability, revoked, issuer, revoker>>

Logout(s) == SessionGoes(s)

\* The session has expired.
CleanupSession(s) == SessionGoes(s)

-----------------------------------------------------------------------------
(* CheckAuthorization.                                                     *)

\* GetSecurityContext; the range takes the list's array and length once.
CheckBegins(k, s) ==
  /\ check[k].pc = "new" /\ ~SessionsLocked /\ session[s].state = "known"
  /\ check' = [check EXCEPT ![k] =
       [NoCheck EXCEPT !.pc = "range", !.session = s, !.length = session[s].length,
                       !.usable = Usable(s)]]
  /\ UNCHANGED <<capability, revoked, session, issuer, revoker>>

\* The next element, read without a lock; after the last one the check denies.
CheckReads(k) ==
  LET w == check[k]
      array == IF w.own THEN w.array ELSE session[w.session].array IN
  /\ w.pc = "range"
  /\ check' = [check EXCEPT ![k] =
       IF w.i <= w.length THEN [w EXCEPT !.pc = "validate", !.id = array[w.i]]
       ELSE [NoCheck EXCEPT !.pc = "denied", !.usable = w.usable, !.moved = w.moved]]
  /\ UNCHANGED <<capability, revoked, session, issuer, revoker>>

\* Validate: Retrieve and CanPerform; the first capability that fits is enough.
CheckValidates(k) ==
  LET w == check[k] IN
  /\ w.pc = "validate"
  /\ check' = [check EXCEPT ![k] =
       IF ~Valid(w.id) THEN [w EXCEPT !.pc = "range", !.i = @ + 1]
       ELSE [NoCheck EXCEPT !.pc = "allowed", !.stale = w.id \in revoked]]
  /\ UNCHANGED <<capability, revoked, session, issuer, revoker>>

SecNext ==
  \/ \E g \in Issuers :
       \/ \E fits \in BOOLEAN : CreateLists(g, fits)
       \/ \E c \in Caps, restricted \in BOOLEAN : DelegateRetrieves(g, c, restricted)
       \/ StoreIssued(g)
       \/ \E s \in SecSessions, c \in Caps : GrantLooks(g, s, c)
       \/ GrantAppends(g)
  \/ \E g \in Revokers : RevokeScrubs(g) \/ \E c \in Caps : Revoke(g, c)
  \/ \E c \in Caps : TermEnds(c)
  \/ \E s \in SecSessions : Authenticate(s) \/ Logout(s) \/ CleanupSession(s)
  \/ CleanupStore
  \/ \E k \in Checks : CheckReads(k) \/ CheckValidates(k) \/ \E s \in SecSessions : CheckBegins(k, s)

SecSpec == SecInit /\ [][SecNext]_secVars

-----------------------------------------------------------------------------
(* Properties.                                                             *)

\* A check that allows did so by a capability whose revocation had not returned,
\* however often it was granted; and one that denies had no capability it could have
\* used from beginning to end, unless a revocation moved the list under it, when
\* it may have stepped over one (security.go:157-189, 506-578).
CheckIsRight ==
  \A k \in Checks :
    /\ ~check[k].stale
    /\ check[k].pc = "denied" => check[k].usable = {} \/ check[k].moved
=============================================================================
