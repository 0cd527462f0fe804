------------------------------ MODULE TransportPool ------------------------------
(***************************************************************************)
(* TransportManager (transport_manager.go): one transport per endpoint,     *)
(* made by the suitable providers in the order of their priority, with      *)
(* retries.  A transport is looked up, created, stored and handed to the    *)
(* health checker in separate steps.  It may close at any time, by itself   *)
(* or because the session that uses it closes it; the manager does not      *)
(* notice.                                                                  *)
(***************************************************************************)
EXTENDS Integers, Sequences, FiniteSets, SequencesExt

CONSTANTS
  Providers,    \* transport providers
  Priority,     \* GetPriority
  Suitable,     \* endpoint -> the providers that support it
  Endpoints, Getters,
  Transports,   \* bound: transports that are ever created
  MaxFailoverAttempts,
  NoTransport

ASSUME TransportPoolAssumption ==
  /\ Priority \in [Providers -> Int]
  /\ Suitable \in [Endpoints -> SUBSET Providers]
  /\ NoTransport \notin Transports
  /\ Endpoints # {}
  /\ MaxFailoverAttempts \in Nat

VARIABLES
  providers,         \* registered providers
  activeTransports,  \* endpoint -> transport
  transport,         \* per transport: "unborn", "open" or "closed"
  monitored,         \* transports known to the health checker
  checking,          \* the health checker runs
  getter,            \* per call: where it is, whom it may still try, what it returned
  displaced,         \* transports whose entry another call's transport took
  overlapped         \* a call has begun while another looked for the same endpoint

leakVars == <<displaced, overlapped>>
poolVars == <<providers, activeTransports, transport, monitored, checking, getter, leakVars>>
poolRest == <<providers, activeTransports, transport, monitored, checking, displaced>>

NewCall == [pc |-> "idle", endpoint |-> CHOOSE e \in Endpoints : TRUE, attempt |-> 0,
            list |-> <<>>, result |-> NoTransport]

PoolInit ==
  /\ providers = {}
  /\ activeTransports = [e \in Endpoints |-> NoTransport]
  /\ transport = [t \in Transports |-> "unborn"]
  /\ monitored = {}
  /\ checking = TRUE
  /\ getter = [g \in Getters |-> NewCall]
  /\ displaced = {} /\ overlapped = FALSE

-----------------------------------------------------------------------------
\* findSuitableProviders lists them by falling priority; the map yields those of
\* one priority in any order.
FindSuitableProviders(e) ==
  {s \in SetToSeqs(providers \cap Suitable[e]) :
     \A i, j \in DOMAIN s : i < j => Priority[s[i]] >= Priority[s[j]]}

-----------------------------------------------------------------------------
RegisterProvider(p) ==
  /\ p \notin providers
  /\ providers' = providers \cup {p}
  /\ UNCHANGED <<activeTransports, transport, monitored, checking, getter, leakVars>>

\* The calls that will miss, or have missed, the endpoint's transport.
Looking(e) == {g \in Getters : getter[g].endpoint = e /\ getter[g].pc \in {"lookup", "create", "store"}}

\* GetTransportWithFailover, or GetTransport with one attempt.
GetTransport(g, e) ==
  /\ getter[g].pc = "idle"
  /\ getter' = [getter EXCEPT ![g] = [NewCall EXCEPT !.pc = "lookup", !.endpoint = e]]
  /\ overlapped' = (overlapped \/ Looking(e) # {})
  /\ UNCHANGED poolRest

\* An attempt that failed is repeated until there have been enough.
Failed(call) ==
  IF call.attempt + 1 < MaxFailoverAttempts
  THEN [call EXCEPT !.pc = "lookup", !.attempt = @ + 1, !.list = <<>>]
  ELSE [call EXCEPT !.pc = "failed"]

\* The table is read under the read lock; on a miss the providers are listed.
Lookup(g) ==
  LET e == getter[g].endpoint IN
  /\ getter[g].pc = "lookup"
  /\ \/ /\ activeTransports[e] # NoTransport
        /\ getter' = [getter EXCEPT ![g].pc = "returned", ![g].result = activeTransports[e]]
     \/ /\ activeTransports[e] = NoTransport
        /\ \E list \in FindSuitableProviders(e) :
             getter' = [getter EXCEPT ![g] =
               IF list = <<>> THEN Failed(@) ELSE [@ EXCEPT !.pc = "create", !.list = list]]
  /\ UNCHANGED <<poolRest, overlapped>>

\* The next provider creates a transport or fails.
CreateTransport(g) ==
  LET call == [getter[g] EXCEPT !.list = Tail(@)] IN
  /\ getter[g].pc = "create"
  /\ \/ \E t \in Transports :
          /\ transport[t] = "unborn"
          /\ \A u \in Transports : transport[u] = "unborn" => t = CHOOSE v \in Transports : transport[v] = "unborn"
          /\ transport' = [transport EXCEPT ![t] = "open"]
          /\ getter' = [getter EXCEPT ![g] = [call EXCEPT !.pc = "store", !.result = t]]
     \/ /\ getter' = [getter EXCEPT ![g] = IF call.list = <<>> THEN Failed(call) ELSE call]
        /\ UNCHANGED transport
  /\ UNCHANGED <<providers, activeTransports, monitored, checking, leakVars>>

\* The transport is stored, whatever the table holds by now.
Store(g) ==
  LET e == getter[g].endpoint IN
  /\ getter[g].pc = "store"
  /\ displaced' = displaced \cup ({activeTransports[e]} \ {NoTransport})
  /\ activeTransports' = [activeTransports EXCEPT ![e] = getter[g].result]
  /\ getter' = [getter EXCEPT ![g].pc = "monitor"]
  /\ UNCHANGED <<providers, transport, monitored, checking, overlapped>>

Monitor(g) ==
  /\ getter[g].pc = "monitor"
  /\ monitored' = monitored \cup {getter[g].result}
  /\ getter' = [getter EXCEPT ![g].pc = "returned"]
  /\ UNCHANGED <<providers, activeTransports, transport, checking, leakVars>>

\* Mutant: the transport is taken out of the table and left open.
RemoveWithoutClosing(e) ==
  LET t == activeTransports[e] IN
  /\ t # NoTransport
  /\ activeTransports' = [activeTransports EXCEPT ![e] = NoTransport]
  /\ monitored' = monitored \ {t}
  /\ UNCHANGED <<providers, transport, checking, getter, leakVars>>

\* RemoveTransport closes, forgets and stops monitoring, all under the lock.
RemoveTransport(e) ==
  LET t == activeTransports[e] IN
  /\ t # NoTransport
  /\ transport' = [transport EXCEPT ![t] = "closed"]
  /\ activeTransports' = [activeTransports EXCEPT ![e] = NoTransport]
  /\ monitored' = monitored \ {t}
  /\ UNCHANGED <<providers, checking, getter, leakVars>>

\* Close closes whatever is in the table and stops the health checker, which
\* keeps what it knows.
ClosePool ==
  LET held == {activeTransports[e] : e \in Endpoints} IN
  /\ transport' = [t \in Transports |-> IF t \in held THEN "closed" ELSE transport[t]]
  /\ activeTransports' = [e \in Endpoints |-> NoTransport]
  /\ checking' = FALSE
  /\ UNCHANGED <<providers, monitored, getter, leakVars>>

\* A transport closes by itself, or the session it was handed to closes it; its
\* entry stays.
TransportCloses(t) ==
  /\ transport[t] = "open"
  /\ transport' = [transport EXCEPT ![t] = "closed"]
  /\ UNCHANGED <<providers, activeTransports, monitored, checking, getter, leakVars>>

PoolNext ==
  \/ \E p \in Providers : RegisterProvider(p)
  \/ \E g \in Getters, e \in Endpoints : GetTransport(g, e)
  \/ \E g \in Getters : Lookup(g) \/ CreateTransport(g) \/ Store(g) \/ Monitor(g)
  \/ \E e \in Endpoints : RemoveTransport(e)
  \/ \E t \in Transports : TransportCloses(t)
  \/ ClosePool

PoolSpec == PoolInit /\ [][PoolNext]_poolVars

-----------------------------------------------------------------------------
(* Properties.                                                             *)

\* Every variable has its type.
PoolTypeOK ==
  /\ providers \subseteq Providers
  /\ activeTransports \in [Endpoints -> Transports \cup {NoTransport}]
  /\ transport \in [Transports -> {"unborn", "open", "closed"}]
  /\ monitored \subseteq Transports /\ displaced \subseteq Transports
  /\ checking \in BOOLEAN /\ overlapped \in BOOLEAN
  /\ getter \in [Getters -> [pc : {"idle", "lookup", "create", "store", "monitor", "returned", "failed"},
                             endpoint : Endpoints, attempt : Nat, list : Seq(Providers),
                             result : Transports \cup {NoTransport}]]

\* No transport the manager has made is lost while it is open: it is in the
\* table, under one endpoint, where RemoveTransport and Close find it, or in the
\* hands of the call that is about to store it.  What a call finds in the table
\* need not be open, and only calls that look for one endpoint at the same time
\* take each other's entry (transport_manager.go:122-166, 233-300).
OpenIsHeld ==
  /\ \A t \in Transports : transport[t] = "open" =>
       \/ \E e \in Endpoints : activeTransports[e] = t
       \/ \E g \in Getters : getter[g].pc = "store" /\ getter[g].result = t
       \/ t \in displaced
  /\ \A e, f \in Endpoints : activeTransports[e] = activeTransports[f] =>
       e = f \/ activeTransports[e] = NoTransport
  /\ displaced # {} => overlapped
=============================================================================
