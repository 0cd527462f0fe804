-------------------------- MODULE Transports_proofs --------------------------
(***************************************************************************)
(* Proofs about the WebSocket transport, the transport manager's table,    *)
(* the HTTP batch transport and the in-process pair, for any values of     *)
(* their constants.                                                        *)
(***************************************************************************)
EXTENDS WebSocket, TransportPool, HTTPBatch, InProcess, FiniteSetTheorems, SequenceTheorems,
        Induction, TLAPS

-----------------------------------------------------------------------------
(***************************************************************************)
(* WebSocket.  OneConnection is not inductive: a transport that is not      *)
(* connected could have had its connection before.  It has not, as nothing  *)
(* but Close disconnects, and Close closes.                                 *)
(***************************************************************************)

ClosedAfterwards == ~connected /\ ~closed => conns = 0

WSInv == WSTypeOK /\ OneConnection /\ ClosedAfterwards

\* A transport starts with a connection or without.
LEMMA WSInvInit == WSInit => WSInv
<1> SUFFICES ASSUME WSInit PROVE WSInv
  OBVIOUS
<1>1. conns \in 0..1 /\ (connected <=> conns = 1)
  BY DEF WSInit
<1>2. /\ connected \in BOOLEAN /\ closed \in BOOLEAN
      /\ locker \in [Lockers -> {"none", "connect", "close"}]
      /\ sending \in [Senders -> {"new", "holding", "sent", "refused"}]
  BY DEF WSInit
<1>3. /\ sendCh \in 0..SendSize /\ receiveCh \in 0..ReceiveSize
      /\ attempt \in -1..MaxReconnectAttempts /\ read \in Nat
  BY WebSocketAssumption DEF WSInit
<1>4. readPump \in {"none", "running"} /\ writePump = readPump /\ keepAlive = readPump
  BY DEF WSInit
<1>5. QED
  BY <1>1, <1>2, <1>3, <1>4 DEF WSInv, WSTypeOK, OneConnection, ClosedAfterwards

\* Connect starts pumps only when there never were any, and Close is final.
LEMMA LockersKeep ==
  ASSUME WSInv, NEW l \in Lockers, Connect(l) \/ Close(l)
  PROVE  WSInv'
<1>1. CASE Connect(l)
  <2>1. attempt' \in -1..MaxReconnectAttempts
    BY <1>1, WebSocketAssumption DEF Connect, AfterAttempt, WSInv, WSTypeOK
  <2>2. locker' \in [Lockers -> {"none", "connect", "close"}]
    BY <1>1 DEF Connect, WSInv, WSTypeOK
  <2>3. CASE (connected \/ closed) /\ UNCHANGED <<connected, conns, pumps>>
    BY <1>1, <2>1, <2>2, <2>3 DEF Connect, pumps, WSInv, WSTypeOK, OneConnection, ClosedAfterwards
  <2>4. CASE /\ ~connected /\ ~closed /\ connected' = TRUE /\ conns' = conns + 1
             /\ readPump' = "running" /\ writePump' = "running" /\ keepAlive' = "running"
    BY <1>1, <2>1, <2>2, <2>4 DEF Connect, WSInv, WSTypeOK, OneConnection, ClosedAfterwards
  <2>5. QED
    BY <1>1, <2>3, <2>4 DEF Connect
<1>2. CASE Close(l)
  BY <1>2 DEF Close, pumps, WSInv, WSTypeOK, OneConnection, ClosedAfterwards
<1>3. QED
  BY <1>1, <1>2

\* No other step changes connected, closed or the number of connections.
LEMMA OthersKeep ==
  ASSUME WSInv, UNCHANGED <<connected, closed, conns>>, WSTypeOK'
  PROVE  WSInv'
BY DEF WSInv, OneConnection, ClosedAfterwards

\* Sending and receiving keep the types.
LEMMA TrafficTypes ==
  ASSUME WSTypeOK,
         \/ ReceiveWS \/ ReadMessage
         \/ \E s \in Senders : SendBegins(s) \/ SendQueues(s) \/ SendGivesUp(s)
  PROVE  WSTypeOK' /\ UNCHANGED <<connected, closed, conns>>
<1>1. CASE ReceiveWS \/ ReadMessage
  BY <1>1, WebSocketAssumption DEF ReceiveWS, ReadMessage, pumps, WSTypeOK
<1>2. ASSUME NEW s \in Senders, SendBegins(s) \/ SendGivesUp(s)
      PROVE  WSTypeOK' /\ UNCHANGED <<connected, closed, conns>>
  BY <1>2 DEF SendBegins, SendGivesUp, pumps, WSTypeOK
<1>3. ASSUME NEW s \in Senders, SendQueues(s)
      PROVE  WSTypeOK' /\ UNCHANGED <<connected, closed, conns>>
  BY <1>3, WebSocketAssumption DEF SendQueues, pumps, WSTypeOK
<1>4. QED
  BY <1>1, <1>2, <1>3

\* The pumps, the keep-alive loop and reconnect keep the types.
LEMMA PumpTypes ==
  ASSUME WSTypeOK, WantsConnect \/ WantsClose \/ ReadEnds \/ WriteMessage \/ KeepAlive \/ Reconnect
  PROVE  WSTypeOK' /\ UNCHANGED <<connected, closed, conns>>
<1>0. {"user", "readPump", "keepAlive", "reconnect"} = Lockers
  BY DEF Lockers
<1>1. CASE WantsConnect \/ WantsClose
  BY <1>0, <1>1 DEF WantsConnect, WantsClose, pumps, WSTypeOK
<1>2. CASE ReadEnds
  <2>1. attempt' \in -1..MaxReconnectAttempts
    BY <1>2, WebSocketAssumption DEF ReadEnds, WSTypeOK
  <2>2. QED
    BY <1>0, <1>2, <2>1 DEF ReadEnds, WSTypeOK
<1>3. CASE WriteMessage
  BY <1>3, WebSocketAssumption DEF WriteMessage, WSTypeOK
<1>4. CASE KeepAlive
  BY <1>0, <1>4 DEF KeepAlive, WSTypeOK
<1>5. CASE Reconnect
  BY <1>0, <1>5, WebSocketAssumption DEF Reconnect, pumps, WSTypeOK
<1>6. QED
  BY <1>1, <1>2, <1>3, <1>4, <1>5

\* The invariant holds throughout every behaviour of the transport.
LEMMA WSInvariant == WSSpec => []WSInv
<1>1. WSInv /\ [WSNext]_wsVars => WSInv'
  <2> SUFFICES ASSUME WSInv, [WSNext]_wsVars PROVE WSInv'
    OBVIOUS
  <2>0. WSTypeOK
    BY DEF WSInv
  <2>1. CASE UNCHANGED wsVars
    BY <2>1 DEF wsVars, WSInv, WSTypeOK, OneConnection, ClosedAfterwards
  <2>2. QED
    BY <2>0, <2>1, LockersKeep, OthersKeep, TrafficTypes, PumpTypes DEF WSNext
<1>2. QED
  BY <1>1, WSInvInit, PTL DEF WSSpec

(***************************************************************************)
(* Type correctness of the WebSocket transport: neither channel holds more  *)
(* than its capacity (websocket_transport.go:121-433).                      *)
(***************************************************************************)
THEOREM WebSocketTypeCorrect == WSSpec => []WSTypeOK
<1>1. WSInv => WSTypeOK
  BY DEF WSInv
<1>2. QED
  BY <1>1, WSInvariant, PTL

(***************************************************************************)
(* The pumps are started for one connection only, however often a program   *)
(* connects and however reconnect and Close interleave                      *)
(* (websocket_transport.go:186-228, 295-311, 405-433).                      *)
(***************************************************************************)
THEOREM ConnectsOnce == WSSpec => []OneConnection
<1>1. WSInv => OneConnection
  BY DEF WSInv
<1>2. QED
  BY <1>1, WSInvariant, PTL

-----------------------------------------------------------------------------
(***************************************************************************)
(* TransportPool: who holds which transport.                                *)
(***************************************************************************)

\* A call that is about to store its transport is the only one to have it.
Held(g) == getter[g].pc = "store"

InHand ==
  \A g \in Getters : Held(g) =>
     /\ getter[g].result \in Transports
     /\ transport[getter[g].result] # "unborn"
     /\ \A e \in Endpoints : activeTransports[e] # getter[g].result
     /\ \A h \in Getters \ {g} : Held(h) => getter[h].result # getter[g].result

\* What is in the table was made by a provider.
Made ==
  \A e \in Endpoints : activeTransports[e] # NoTransport => transport[activeTransports[e]] # "unborn"

\* As long as no call has begun while another looked for the same endpoint, no
\* two look for one, and one that has missed the endpoint's transport will find
\* no entry when it stores its own.
Looks(g) == getter[g].pc \in {"lookup", "create", "store"}

Alone ==
  ~overlapped => \A g \in Getters : Looks(g) =>
     /\ getter[g].pc # "lookup" => activeTransports[getter[g].endpoint] = NoTransport
     /\ \A h \in Getters : Looks(h) /\ getter[h].endpoint = getter[g].endpoint => h = g

\* A call that monitors a transport has one.
Returning == \A g \in Getters : getter[g].pc = "monitor" => getter[g].result \in Transports

\* A call that is about to create has a provider to try.
StillToTry == \A g \in Getters : getter[g].pc = "create" => getter[g].list # <<>>

PoolInv ==
  /\ PoolTypeOK /\ IsFiniteSet(providers)
  /\ InHand /\ Made /\ Alone /\ Returning /\ StillToTry
  /\ OpenIsHeld

\* The listed providers are a sequence of the registered ones.
LEMMA ListedProviders ==
  ASSUME PoolInv, NEW e \in Endpoints, NEW list \in FindSuitableProviders(e)
  PROVE  list \in Seq(Providers)
<1> DEFINE S == providers \cap Suitable[e]
<1>1. IsFiniteSet(S) /\ Cardinality(S) \in Nat
  BY FS_Subset, FS_CardinalityType DEF PoolInv
<1>2. list \in [1..Cardinality(S) -> S]
  BY DEF FindSuitableProviders, SetToSeqs
<1>3. S \subseteq Providers
  BY DEF PoolInv, PoolTypeOK
<1> HIDE DEF S
<1>4. list \in [1..Cardinality(S) -> Providers]
  BY <1>2, <1>3
<1>5. QED
  BY <1>1, <1>4

\* What a call is when it holds no transport.
Calls == [pc : {"idle", "lookup", "create", "returned", "failed"}, endpoint : Endpoints,
          attempt : Nat, list : Seq(Providers), result : Transports \cup {NoTransport}]

\* A new call is one.
LEMMA NewCallIsCall == NewCall \in Calls
<1>1. (CHOOSE e \in Endpoints : TRUE) \in Endpoints
  BY TransportPoolAssumption, Zenon
<1>2. <<>> \in Seq(Providers)
  OBVIOUS
<1>3. QED
  BY <1>1, <1>2, Zenon DEF NewCall, Calls

\* Initially nobody has a transport.
LEMMA PoolInvInit == PoolInit => PoolInv
<1> SUFFICES ASSUME PoolInit PROVE PoolInv
  OBVIOUS
<1>1. PoolTypeOK
  BY NewCallIsCall DEF PoolInit, PoolTypeOK, Calls
<1>2. IsFiniteSet(providers)
  BY FS_EmptySet DEF PoolInit
<1>3. InHand /\ Made /\ Alone /\ Returning /\ StillToTry
  BY DEF PoolInit, InHand, Made, Alone, Looks, Returning, StillToTry, Held, NewCall
<1>4. OpenIsHeld
  BY DEF PoolInit, OpenIsHeld
<1>5. QED
  BY <1>1, <1>2, <1>3, <1>4 DEF PoolInv

\* A step that changes one call, and neither from nor to holding a transport,
\* keeps the invariant.
LEMMA CallMoves ==
  ASSUME PoolInv, NEW g \in Getters, NEW ask \in Calls, getter' = [getter EXCEPT ![g] = ask],
         getter[g].pc # "store", ask.pc = "create" => ask.list # <<>>,
         UNCHANGED <<activeTransports, transport, monitored, checking, displaced, providers>>,
         overlapped' \in BOOLEAN, overlapped => overlapped', Alone'
  PROVE  PoolInv'
<1>1. /\ getter'[g] = ask /\ ask.pc \notin {"store", "monitor"}
      /\ \A h \in Getters \ {g} : getter'[h] = getter[h]
  BY DEF PoolInv, PoolTypeOK, Calls
<1>2. PoolTypeOK' /\ IsFiniteSet(providers')
  BY DEF PoolInv, PoolTypeOK, Calls
<1>3. InHand' /\ Made' /\ Returning' /\ StillToTry'
  BY <1>1 DEF PoolInv, InHand, Made, Returning, StillToTry, Held
<1>4. OpenIsHeld'
  BY <1>1 DEF PoolInv, OpenIsHeld
<1>5. QED
  BY <1>2, <1>3, <1>4 DEF PoolInv

\* A call that goes on looking for its endpoint remains the only one.
LEMMA GoesOnAlone ==
  ASSUME PoolInv, NEW g \in Getters, NEW ask, getter' = [getter EXCEPT ![g] = ask],
         UNCHANGED <<activeTransports, overlapped>>,
         Looks(g), ask.endpoint = getter[g].endpoint,
         ask.pc \in {"create", "store"} => getter[g].pc # "lookup" \/ activeTransports[ask.endpoint] = NoTransport
  PROVE  Alone'
<1>1. /\ getter'[g] = ask /\ \A h \in Getters \ {g} : getter'[h] = getter[h]
  BY DEF PoolInv, PoolTypeOK
<1>2. QED
  BY <1>1 DEF PoolInv, Alone, Looks

\* A call that begins when nobody looks for its endpoint is the only one.
LEMMA BeginsAlone ==
  ASSUME PoolInv, NEW g \in Getters, NEW e \in Endpoints, GetTransport(g, e)
  PROVE  Alone' /\ overlapped' \in BOOLEAN /\ (overlapped => overlapped')
<1>1. /\ getter'[g].pc = "lookup" /\ getter'[g].endpoint = e
      /\ \A h \in Getters \ {g} : getter'[h] = getter[h]
      /\ overlapped' = (overlapped \/ Looking(e) # {}) /\ UNCHANGED activeTransports
  BY DEF GetTransport, poolRest, NewCall, PoolInv, PoolTypeOK
<1>2. ~overlapped' => ~overlapped /\ \A h \in Getters : ~(Looks(h) /\ getter[h].endpoint = e)
  BY <1>1 DEF Looking, Looks
<1>3. Alone'
  BY <1>1, <1>2 DEF PoolInv, Alone, Looks
<1>4. QED
  BY <1>1, <1>3 DEF PoolInv, PoolTypeOK

\* Setting a field leaves a call a call.
LEMMA Fields ==
  ASSUME NEW ask \in Calls
  PROVE  /\ \A p \in {"idle", "lookup", "create", "returned", "failed"} : [ask EXCEPT !.pc = p] \in Calls
         /\ \A e \in Endpoints : [ask EXCEPT !.endpoint = e] \in Calls
         /\ \A n \in Nat : [ask EXCEPT !.attempt = n] \in Calls
         /\ \A l \in Seq(Providers) : [ask EXCEPT !.list = l] \in Calls
         /\ \A t \in Transports : [ask EXCEPT !.result = t] \in Calls
BY DEF Calls

\* An attempt that failed is followed by another or by none.
LEMMA FailedCalls ==
  ASSUME NEW ask \in Calls
  PROVE  Failed(ask) \in Calls /\ Failed(ask).pc # "create" /\ Failed(ask).endpoint = ask.endpoint
<1>1. [ask EXCEPT !.pc = "lookup"] \in Calls
  BY Fields
<1>2. [[ask EXCEPT !.pc = "lookup"] EXCEPT !.attempt = ask.attempt + 1] \in Calls
  <2>1. ask.attempt + 1 \in Nat
    BY DEF Calls
  <2>2. QED
    BY <1>1, <2>1, Fields
<1>3. [[[ask EXCEPT !.pc = "lookup"] EXCEPT !.attempt = ask.attempt + 1] EXCEPT !.list = <<>>] \in Calls
  <2>1. <<>> \in Seq(Providers)
    OBVIOUS
  <2>2. QED
    BY <1>2, <2>1, Fields, Zenon
<1>4. [ask EXCEPT !.pc = "failed"] \in Calls
  BY Fields
<1>5. /\ [ask EXCEPT !.pc = "failed"].pc = "failed"
      /\ [[[ask EXCEPT !.pc = "lookup"] EXCEPT !.attempt = ask.attempt + 1] EXCEPT !.list = <<>>].pc = "lookup"
      /\ [ask EXCEPT !.pc = "failed"].endpoint = ask.endpoint
      /\ [[[ask EXCEPT !.pc = "lookup"] EXCEPT !.attempt = ask.attempt + 1] EXCEPT !.list = <<>>].endpoint = ask.endpoint
  BY DEF Calls
<1>6. QED
  BY <1>3, <1>4, <1>5 DEF Failed

\* A call that holds no transport is one of Calls.
LEMMA CallTyped ==
  ASSUME PoolInv, NEW g \in Getters, getter[g].pc \notin {"store", "monitor"}
  PROVE  getter[g] \in Calls
BY DEF PoolInv, PoolTypeOK, Calls

\* The start of a call, its lookups, and attempts of providers that fail.
LEMMA LookupKeeps ==
  ASSUME PoolInv, NEW g \in Getters,
         \/ \E e \in Endpoints : GetTransport(g, e)
         \/ Lookup(g)
         \/ /\ getter[g].pc = "create"
            /\ \E ask \in {[getter[g] EXCEPT !.list = Tail(@)]} :
                 getter' = [getter EXCEPT ![g] = IF ask.list = <<>> THEN Failed(ask) ELSE ask]
            /\ getter[g].list # <<>>
            /\ UNCHANGED <<poolRest, overlapped>>
  PROVE  PoolInv'
<1>0. /\ getter[g].pc # "store" /\ getter[g] \in Calls
      /\ UNCHANGED <<activeTransports, transport, monitored, checking, displaced, providers>>
  BY CallTyped, ZenonT(60) DEF GetTransport, Lookup, poolRest
<1>1. ASSUME NEW e \in Endpoints, GetTransport(g, e) PROVE PoolInv'
  <2>1. [[NewCall EXCEPT !.pc = "lookup"] EXCEPT !.endpoint = e] \in Calls
    BY NewCallIsCall, Fields
  <2>2. QED
    BY <1>0, <1>1, <2>1, BeginsAlone, CallMoves DEF GetTransport, NewCall
<1>2. CASE Lookup(g)
  <2>0. Looks(g) /\ UNCHANGED overlapped /\ overlapped \in BOOLEAN
    BY <1>2 DEF Lookup, Looks, PoolInv, PoolTypeOK
  <2>1. getter[g].endpoint \in Endpoints /\ activeTransports[getter[g].endpoint] \in Transports \cup {NoTransport}
    BY <1>0 DEF Calls, PoolInv, PoolTypeOK
  <2>2. CASE activeTransports[getter[g].endpoint] # NoTransport
    <3>1. [[getter[g] EXCEPT !.pc = "returned"] EXCEPT !.result = activeTransports[getter[g].endpoint]] \in Calls
      BY <1>0, <2>1, <2>2, Fields
    <3>2. getter' = [getter EXCEPT ![g] = [[getter[g] EXCEPT !.pc = "returned"] EXCEPT !.result = activeTransports[getter[g].endpoint]]]
      BY <1>2, <2>2 DEF Lookup, PoolInv, PoolTypeOK
    <3>3. [[getter[g] EXCEPT !.pc = "returned"] EXCEPT !.result = activeTransports[getter[g].endpoint]].pc = "returned"
      BY <1>0 DEF Calls
    <3>4. [[getter[g] EXCEPT !.pc = "returned"] EXCEPT !.result = activeTransports[getter[g].endpoint]].endpoint = getter[g].endpoint
      BY <1>0 DEF Calls
    <3>5. Alone'
      BY <1>0, <2>0, <3>2, <3>3, <3>4, GoesOnAlone
    <3>6. QED
      BY <1>0, <2>0, <3>1, <3>2, <3>3, <3>5, CallMoves
  <2>3. ASSUME NEW list \in FindSuitableProviders(getter[g].endpoint),
               activeTransports[getter[g].endpoint] = NoTransport,
               getter' = [getter EXCEPT ![g] = IF list = <<>> THEN Failed(@) ELSE [@ EXCEPT !.pc = "create", !.list = list]]
        PROVE  PoolInv'
    <3>1. [[getter[g] EXCEPT !.pc = "create"] EXCEPT !.list = list] \in Calls /\ Failed(getter[g]) \in Calls
      BY <1>0, <2>1, ListedProviders, FailedCalls, Fields
    <3>2. /\ [[getter[g] EXCEPT !.pc = "create"] EXCEPT !.list = list].list = list
          /\ [[getter[g] EXCEPT !.pc = "create"] EXCEPT !.list = list].endpoint = getter[g].endpoint
          /\ Failed(getter[g]).pc # "create" /\ Failed(getter[g]).endpoint = getter[g].endpoint
      BY <1>0, FailedCalls DEF Calls
    <3>3. PICK x \in Calls : /\ getter' = [getter EXCEPT ![g] = x] /\ (x.pc = "create" => x.list # <<>>)
                             /\ x.endpoint = getter[g].endpoint
      BY <2>3, <3>1, <3>2 DEF PoolInv, PoolTypeOK
    <3>4. Alone'
      BY <1>0, <2>0, <2>3, <3>3, GoesOnAlone
    <3>5. QED
      BY <1>0, <2>0, <3>3, <3>4, CallMoves
  <2>4. QED
    BY <1>2, <2>2, <2>3 DEF Lookup
<1>3. CASE /\ \E ask \in {[getter[g] EXCEPT !.list = Tail(@)]} :
                 getter' = [getter EXCEPT ![g] = IF ask.list = <<>> THEN Failed(ask) ELSE ask]
           /\ getter[g].list # <<>> /\ getter[g].pc = "create" /\ UNCHANGED overlapped
  <2>0. Looks(g) /\ overlapped \in BOOLEAN
    BY <1>3 DEF Looks, PoolInv, PoolTypeOK
  <2>1. [getter[g] EXCEPT !.list = Tail(@)] \in Calls
    <3>1. Tail(getter[g].list) \in Seq(Providers)
      BY <1>0, <1>3 DEF Calls
    <3>2. QED
      BY <1>0, <3>1, Fields
  <2>2. PICK ask : /\ ask = [getter[g] EXCEPT !.list = Tail(@)] /\ ask \in Calls
                   /\ ask.endpoint = getter[g].endpoint
    <3>1. [getter[g] EXCEPT !.list = Tail(@)].endpoint = getter[g].endpoint
      BY ONLY <1>0, SMTT(40) DEF Calls
    <3>2. QED
      BY ONLY <2>1, <3>1, ZenonT(40)
  <2>3. PICK x \in Calls : /\ getter' = [getter EXCEPT ![g] = x] /\ (x.pc = "create" => x.list # <<>>)
                           /\ x.endpoint = getter[g].endpoint
    <3>1. getter' = [getter EXCEPT ![g] = IF ask.list = <<>> THEN Failed(ask) ELSE ask]
      BY ONLY <1>3, <2>2, ZenonT(40)
    <3>2. Failed(ask) \in Calls /\ Failed(ask).pc # "create" /\ Failed(ask).endpoint = ask.endpoint
      BY ONLY <2>2, FailedCalls
    <3>3. CASE ask.list = <<>>
      BY ONLY <2>2, <3>1, <3>2, <3>3, ZenonT(40)
    <3>4. CASE ask.list # <<>>
      BY ONLY <2>2, <3>1, <3>4, ZenonT(40)
    <3>5. QED
      BY ONLY <3>3, <3>4
  <2>4. Alone'
    BY <1>0, <1>3, <2>0, <2>3, GoesOnAlone
  <2>5. QED
    BY <1>0, <1>3, <2>0, <2>3, <2>4, CallMoves
<1>4. QED
  BY <1>0, <1>1, <1>2, <1>3, CallMoves, SMTT(40)

\* A provider's transport is new, so nobody else has it.
LEMMA CreatedKeeps ==
  ASSUME PoolInv, NEW g \in Getters, NEW t \in Transports, NEW ask \in Calls,
         getter[g].pc = "create", transport[t] = "unborn", ask.endpoint = getter[g].endpoint,
         transport' = [transport EXCEPT ![t] = "open"],
         getter' = [getter EXCEPT ![g] = [ask EXCEPT !.pc = "store", !.result = t]],
         UNCHANGED <<providers, activeTransports, monitored, checking, leakVars>>
  PROVE  PoolInv'
<1>1. /\ getter'[g].pc = "store" /\ getter'[g].result = t
      /\ \A h \in Getters \ {g} : getter'[h] = getter[h]
      /\ transport'[t] = "open" /\ \A u \in Transports \ {t} : transport'[u] = transport[u]
  BY DEF PoolInv, PoolTypeOK, Calls
<1>2. /\ \A e \in Endpoints : activeTransports[e] # t
      /\ \A h \in Getters : Held(h) => getter[h].result # t
  <2>1. t # NoTransport
    BY TransportPoolAssumption
  <2>2. QED
    BY <2>1 DEF PoolInv, Made, InHand
<1>3. PoolTypeOK' /\ IsFiniteSet(providers')
  <2>1. /\ [ask EXCEPT !.pc = "store"] \in [pc : {"store"}, endpoint : Endpoints, attempt : Nat,
                                         list : Seq(Providers), result : Transports \cup {NoTransport}]
        /\ \A x \in [pc : {"store"}, endpoint : Endpoints, attempt : Nat, list : Seq(Providers),
                     result : Transports \cup {NoTransport}] :
             [x EXCEPT !.result = t] \in [pc : {"store"}, endpoint : Endpoints, attempt : Nat,
                                         list : Seq(Providers), result : Transports \cup {NoTransport}]
    BY DEF Calls
  <2>2. [[ask EXCEPT !.pc = "store"] EXCEPT !.result = t] \in [pc : {"store"}, endpoint : Endpoints, attempt : Nat,
                                         list : Seq(Providers), result : Transports \cup {NoTransport}]
    BY <2>1
  <2>3. QED
    BY <2>2 DEF PoolInv, PoolTypeOK, leakVars
<1>4. InHand' /\ Made' /\ Returning' /\ StillToTry'
  BY <1>1, <1>2 DEF PoolInv, InHand, Made, Returning, StillToTry, Held
<1>5. OpenIsHeld'
  BY <1>1, <1>2 DEF PoolInv, OpenIsHeld, PoolTypeOK, leakVars
<1>6. Alone'
  <2>1. /\ Looks(g) /\ UNCHANGED <<activeTransports, overlapped>>
        /\ [ask EXCEPT !.pc = "store", !.result = t].endpoint = getter[g].endpoint
    BY DEF Looks, leakVars, Calls
  <2>2. QED
    BY <2>1, GoesOnAlone
<1>7. QED
  BY <1>3, <1>4, <1>5, <1>6 DEF PoolInv

\* Storing puts the transport into the table, and what was there is displaced.
LEMMA StoreKeeps ==
  ASSUME PoolInv, NEW g \in Getters, Store(g)
  PROVE  PoolInv'
<1> DEFINE e == getter[g].endpoint
           t == getter[g].result
<1>1. /\ e \in Endpoints /\ t \in Transports /\ transport[t] # "unborn" /\ t # NoTransport
      /\ \A f \in Endpoints : activeTransports[f] # t
      /\ \A h \in Getters \ {g} : Held(h) => getter[h].result # t
  BY TransportPoolAssumption, ZenonT(60) DEF Store, PoolInv, PoolTypeOK, InHand, Held
<1>2. /\ getter'[g].pc = "monitor" /\ getter'[g].result = t
      /\ \A h \in Getters \ {g} : getter'[h] = getter[h]
      /\ activeTransports'[e] = t /\ \A f \in Endpoints \ {e} : activeTransports'[f] = activeTransports[f]
      /\ displaced' = displaced \cup ({activeTransports[e]} \ {NoTransport})
      /\ UNCHANGED <<providers, transport, monitored, checking, overlapped>>
  BY <1>1 DEF Store, PoolInv, PoolTypeOK
<1>3. PoolTypeOK' /\ IsFiniteSet(providers')
  BY <1>1 DEF Store, PoolInv, PoolTypeOK
<1>8. /\ Looks(g) /\ getter[g].pc # "lookup" /\ getter[g].endpoint = e
  BY DEF Store, Looks
<1> HIDE DEF e, t
<1>9. Alone'
  <2>1. ~overlapped => \A h \in Getters \ {g} : Looks(h) => getter[h].endpoint # e
    BY <1>8 DEF PoolInv, Alone
  <2>2. \A h \in Getters : Looks(h)' => h # g /\ Looks(h) /\ getter'[h] = getter[h] /\ getter[h].endpoint \in Endpoints
    BY <1>2 DEF PoolInv, PoolTypeOK, Looks
  <2>3. ASSUME ~overlapped, NEW h \in Getters, Looks(h)'
        PROVE  /\ getter[h].pc # "lookup" => activeTransports'[getter[h].endpoint] = NoTransport
               /\ \A k \in Getters : Looks(k)' /\ getter[k].endpoint = getter[h].endpoint => k = h
    <3>1. /\ getter[h].endpoint \in Endpoints \ {e} /\ Looks(h)
          /\ \A k \in Getters : Looks(k)' => Looks(k)
      BY <2>1, <2>2, <2>3
    <3>2. activeTransports'[getter[h].endpoint] = activeTransports[getter[h].endpoint]
      BY <1>2, <3>1
    <3>3. QED
      BY <2>3, <3>1, <3>2 DEF PoolInv, Alone
  <2>4. QED
    BY <1>2, <2>2, <2>3 DEF Alone
<1>10. displaced' # {} => overlapped'
  <2>1. ~overlapped => activeTransports[e] = NoTransport
    BY <1>8 DEF PoolInv, Alone
  <2>2. QED
    BY <1>2, <2>1 DEF PoolInv, OpenIsHeld
<1>4. InHand'
  BY <1>1, <1>2 DEF PoolInv, InHand, Held
<1>5. Made' /\ Returning' /\ StillToTry'
  BY <1>1, <1>2 DEF PoolInv, Made, Returning, StillToTry
<1>6. OpenIsHeld'
  <2>1. \A f, d \in Endpoints : activeTransports'[f] = activeTransports'[d] =>
          f = d \/ activeTransports'[f] = NoTransport
    BY <1>1, <1>2 DEF PoolInv, OpenIsHeld
  <2>2. ASSUME NEW u \in Transports, transport'[u] = "open"
        PROVE  \/ \E f \in Endpoints : activeTransports'[f] = u
               \/ \E h \in Getters : getter'[h].pc = "store" /\ getter'[h].result = u
               \/ u \in displaced'
    <3>1. CASE \E f \in Endpoints : activeTransports[f] = u
      BY <1>1, <1>2, <3>1, TransportPoolAssumption
    <3>2. CASE \E h \in Getters : getter[h].pc = "store" /\ getter[h].result = u
      BY <1>1, <1>2, <3>2 DEF t
    <3>3. QED
      BY <1>2, <2>2, <3>1, <3>2 DEF PoolInv, OpenIsHeld
  <2>3. QED
    BY <1>10, <2>1, <2>2 DEF OpenIsHeld
<1>7. QED
  BY <1>3, <1>4, <1>5, <1>6, <1>9 DEF PoolInv

\* Handing a transport to the health checker.
LEMMA MonitorKeeps ==
  ASSUME PoolInv, NEW g \in Getters, Monitor(g)
  PROVE  PoolInv'
<1>1. /\ getter[g].pc = "monitor" /\ getter[g].result \in Transports
      /\ getter'[g].pc = "returned" /\ \A h \in Getters \ {g} : getter'[h] = getter[h]
      /\ UNCHANGED <<providers, activeTransports, transport, checking, displaced, overlapped>>
  BY DEF Monitor, leakVars, PoolInv, PoolTypeOK, Returning
<1>2. PoolTypeOK' /\ IsFiniteSet(providers')
  BY <1>1, ZenonT(60) DEF Monitor, PoolInv, PoolTypeOK
<1>3. InHand' /\ Made' /\ Alone' /\ Returning' /\ StillToTry'
  BY <1>1 DEF PoolInv, InHand, Made, Alone, Looks, Returning, StillToTry, Held
<1>4. OpenIsHeld'
  BY <1>1 DEF PoolInv, OpenIsHeld
<1>5. QED
  BY <1>2, <1>3, <1>4 DEF PoolInv

\* A transport that closes stays where it is.
LEMMA ItselfKeeps ==
  ASSUME PoolInv, NEW t \in Transports, TransportCloses(t)
  PROVE  PoolInv'
<1>1. /\ transport'[t] = "closed" /\ \A u \in Transports \ {t} : transport'[u] = transport[u]
      /\ UNCHANGED <<providers, activeTransports, monitored, checking, getter, displaced, overlapped>>
  BY DEF TransportCloses, leakVars, PoolInv, PoolTypeOK
<1>2. PoolTypeOK' /\ IsFiniteSet(providers')
  BY <1>1 DEF TransportCloses, PoolInv, PoolTypeOK
<1>3. InHand' /\ Made' /\ Alone' /\ Returning' /\ StillToTry'
  <2>1. \A e \in Endpoints : activeTransports[e] # NoTransport => activeTransports[e] \in Transports
    BY DEF PoolInv, PoolTypeOK
  <2>2. QED
    BY <1>1, <2>1 DEF PoolInv, InHand, Made, Alone, Looks, Returning, StillToTry, Held
<1>4. OpenIsHeld'
  BY <1>1 DEF PoolInv, OpenIsHeld
<1>5. QED
  BY <1>2, <1>3, <1>4 DEF PoolInv

\* Transports that leave the table are closed, and no others are.
LEMMA ClosingKeeps ==
  ASSUME PoolInv, NEW E \in SUBSET Endpoints,
         transport' \in [Transports -> {"unborn", "open", "closed"}],
         \A t \in Transports : transport'[t] =
            IF \E e \in E : activeTransports[e] = t THEN "closed" ELSE transport[t],
         activeTransports' \in [Endpoints -> Transports \cup {NoTransport}],
         \A e \in Endpoints : activeTransports'[e] = IF e \in E THEN NoTransport ELSE activeTransports[e],
         monitored' \subseteq monitored, checking' \in BOOLEAN,
         UNCHANGED <<providers, getter, displaced, overlapped>>
  PROVE  PoolInv'
<1>1. PoolTypeOK' /\ IsFiniteSet(providers')
  BY DEF PoolInv, PoolTypeOK
<1>2. InHand' /\ Made' /\ Alone' /\ Returning' /\ StillToTry'
  <2>1. \A e \in Endpoints : activeTransports[e] # NoTransport => activeTransports[e] \in Transports
    BY DEF PoolInv, PoolTypeOK
  <2>2. InHand' /\ Made' /\ Returning' /\ StillToTry'
    BY <2>1, TransportPoolAssumption DEF PoolInv, InHand, Made, Returning, StillToTry, Held
  <2>3. \A g \in Getters : getter[g].endpoint \in Endpoints
    BY DEF PoolInv, PoolTypeOK
  <2>4. Alone'
    BY <2>3 DEF PoolInv, Alone, Looks
  <2>5. QED
    BY <2>2, <2>4
<1>3. OpenIsHeld'
  <2>1. displaced' # {} => overlapped'
    BY DEF PoolInv, OpenIsHeld
  <2>2. \A e, d \in Endpoints : activeTransports'[e] = activeTransports'[d] =>
          e = d \/ activeTransports'[e] = NoTransport
    BY DEF PoolInv, OpenIsHeld
  <2>3. \A u \in Transports : transport'[u] = "open" =>
          \/ \E e \in Endpoints : activeTransports'[e] = u
          \/ \E h \in Getters : getter'[h].pc = "store" /\ getter'[h].result = u
          \/ u \in displaced'
    BY DEF PoolInv, OpenIsHeld
  <2>4. QED
    BY <2>1, <2>2, <2>3 DEF OpenIsHeld
<1>4. QED
  BY <1>1, <1>2, <1>3 DEF PoolInv

\* The invariant holds throughout every behaviour of the transport manager.
LEMMA PoolInvariant == PoolSpec => []PoolInv
<1>1. PoolInv /\ [PoolNext]_poolVars => PoolInv'
  <2> SUFFICES ASSUME PoolInv, [PoolNext]_poolVars PROVE PoolInv'
    OBVIOUS
  <2>1. ASSUME NEW p \in Providers, RegisterProvider(p) PROVE PoolInv'
    <3>1. IsFiniteSet(providers')
      BY <2>1, FS_AddElement DEF RegisterProvider, PoolInv
    <3>2. QED
      BY <2>1, <3>1 DEF RegisterProvider, leakVars, PoolInv, PoolTypeOK, InHand, Made, Alone, Looks, Returning, StillToTry, Held, OpenIsHeld
  <2>2. ASSUME NEW g \in Getters, CreateTransport(g) PROVE PoolInv'
    <3>1. getter[g] \in Calls /\ getter[g].pc = "create"
      BY <2>2, CallTyped DEF CreateTransport
    <3>2. /\ getter[g].list # <<>> /\ [getter[g] EXCEPT !.list = Tail(@)] \in Calls
          /\ [getter[g] EXCEPT !.list = Tail(@)].endpoint = getter[g].endpoint
      <4>1. getter[g].list # <<>> /\ Tail(getter[g].list) \in Seq(Providers)
        BY <3>1 DEF PoolInv, StillToTry, Calls
      <4>2. [getter[g] EXCEPT !.list = Tail(@)] \in Calls
        BY <3>1, <4>1, Fields
      <4>3. QED
        BY <3>1, <4>1, <4>2 DEF Calls
    <3>3. ASSUME NEW t \in Transports, transport[t] = "unborn",
                 transport' = [transport EXCEPT ![t] = "open"],
                 getter' = [getter EXCEPT ![g] =
                   [[getter[g] EXCEPT !.list = Tail(@)] EXCEPT !.pc = "store", !.result = t]]
          PROVE  PoolInv'
      BY <2>2, <3>1, <3>2, <3>3, CreatedKeeps DEF CreateTransport
    <3>4. CASE /\ getter' = [getter EXCEPT ![g] =
                   IF [getter[g] EXCEPT !.list = Tail(@)].list = <<>>
                   THEN Failed([getter[g] EXCEPT !.list = Tail(@)]) ELSE [getter[g] EXCEPT !.list = Tail(@)]]
               /\ UNCHANGED transport
      BY <2>2, <3>1, <3>2, <3>4, LookupKeeps DEF CreateTransport, poolRest, leakVars
    <3>5. QED
      BY <2>2, <3>3, <3>4 DEF CreateTransport
  <2>3. ASSUME NEW e \in Endpoints, RemoveTransport(e) PROVE PoolInv'
    <3>1. /\ {e} \in SUBSET Endpoints /\ activeTransports[e] \in Transports
          /\ transport' = [transport EXCEPT ![activeTransports[e]] = "closed"]
          /\ activeTransports' = [activeTransports EXCEPT ![e] = NoTransport]
          /\ monitored' \subseteq monitored /\ checking' \in BOOLEAN
          /\ UNCHANGED <<providers, getter, displaced, overlapped>>
      BY <2>3 DEF RemoveTransport, leakVars, PoolInv, PoolTypeOK
    <3>2. /\ transport' \in [Transports -> {"unborn", "open", "closed"}]
          /\ \A t \in Transports : transport'[t] =
               IF \E f \in {e} : activeTransports[f] = t THEN "closed" ELSE transport[t]
          /\ activeTransports' \in [Endpoints -> Transports \cup {NoTransport}]
          /\ \A f \in Endpoints : activeTransports'[f] = IF f \in {e} THEN NoTransport ELSE activeTransports[f]
      BY <3>1 DEF PoolInv, PoolTypeOK
    <3>3. QED
      BY <3>1, <3>2, ClosingKeeps
  <2>4. CASE ClosePool
    BY <2>4, ClosingKeeps DEF ClosePool, leakVars, PoolInv, PoolTypeOK
  <2>5. CASE UNCHANGED poolVars
    BY <2>5 DEF poolVars, leakVars, PoolInv, PoolTypeOK, InHand, Made, Alone, Looks, Returning, StillToTry, Held, OpenIsHeld
  <2>6. QED
    BY <2>1, <2>2, <2>3, <2>4, <2>5, LookupKeeps, StoreKeeps, MonitorKeeps, ItselfKeeps DEF PoolNext
<1>2. QED
  BY <1>1, PoolInvInit, PTL DEF PoolSpec

(***************************************************************************)
(* Type correctness of the transport manager's tables and calls             *)
(* (transport_manager.go:85-300).                                           *)
(***************************************************************************)
THEOREM PoolTypeCorrect == PoolSpec => []PoolTypeOK
<1>1. PoolInv => PoolTypeOK
  BY DEF PoolInv
<1>2. QED
  BY <1>1, PoolInvariant, PTL

(***************************************************************************)
(* No transport is lost while it is open: it is in the table, under one     *)
(* endpoint, or in the hands of the call that made it, unless calls that    *)
(* looked for one endpoint at the same time took each other's entry.  This  *)
(* holds of transports that close by themselves at any time                 *)
(* (transport_manager.go:122-166, 233-300).                                 *)
(***************************************************************************)
THEOREM OpenTransportsHeld == PoolSpec => []OpenIsHeld
<1>1. PoolInv => OpenIsHeld
  BY DEF PoolInv
<1>2. QED
  BY <1>1, PoolInvariant, PTL

-----------------------------------------------------------------------------
(***************************************************************************)
(* HTTPBatch. What says that a message is in one place is inductive once   *)
(* the places are sequences without repetition that have nothing in        *)
(* common, and a message that Send has not taken is in none of them. From  *)
(* it follows that an answer belongs to one batch, and with it that        *)
(* nothing is forwarded twice of a batch that never ran into a full        *)
(* channel.                                                                *)
(***************************************************************************)

(* What a batch is answered.                                               *)

Pieces(b) == [i \in DOMAIN b |-> IF b[i] \in Answered THEN <<b[i]>> ELSE <<>>]

\* Each message of a batch contributes its answer or nothing.
LEMMA PiecesAre ==
  ASSUME NEW b \in Seq(Messages)
  PROVE  Pieces(b) \in Seq(Seq(Messages)) /\ Len(Pieces(b)) = Len(b)
<1>1. PICK n \in Nat : n = Len(b) /\ DOMAIN b = 1..n
  OBVIOUS
<1>2. \A i \in 1..n : b[i] \in Messages
  BY <1>1
<1>3. \A i \in 1..n : (IF b[i] \in Answered THEN <<b[i]>> ELSE <<>>) \in Seq(Messages)
  BY <1>2
<1>4. Pieces(b) \in [1..n -> Seq(Messages)]
  BY <1>1, <1>3 DEF Pieces
<1>5. QED
  BY <1>1, <1>4, FunctionIsSeq

\* Each piece is one message of the batch or none, so no answer is twice in what
\* the server returns, and there is none to another batch's message.
LEMMA AnswersAre ==
  ASSUME NEW b \in Seq(Messages), IsInjective(b)
  PROVE  /\ Answers(b) \in Seq(Messages) /\ IsInjective(Answers(b))
         /\ Range(Answers(b)) \subseteq Range(b)
<1>0. PICK n \in Nat : n = Len(b) /\ DOMAIN b = 1..n
  OBVIOUS
<1>1. PICK ss \in Seq(Seq(Messages)) : ss = Pieces(b) /\ Len(ss) = n
  BY <1>0, PiecesAre
<1>2. Answers(b) = FlattenSeq(ss)
  BY <1>1 DEF Answers, Pieces
<1>3. Answers(b) \in Seq(Messages)
  BY <1>2, FlattenType
<1>4. CASE n = 0
  <2>1. ss = <<>>
    BY <1>1, <1>4, EmptySeq
  <2>2. Answers(b) = <<>>
    BY <1>2, <2>1, FlattenEmpty
  <2>3. IsInjective(<<>>) /\ Range(<<>>) = {}
    BY DEF IsInjective, Range
  <2>4. QED
    BY <1>3, <2>2, <2>3
<1>5. CASE n # 0
  <2>1. PICK f \in [1..n -> Seq(Messages)] : FlatStep(ss, n, f) /\ FlattenSeq(ss) = f[n]
    BY <1>1, <1>5, FlattenExists
  <2> DEFINE Good(a, m) == /\ \A j, k \in 1..Len(a) : a[j] = a[k] => j = k
                           /\ \A k \in 1..Len(a) : \E j \in 1..m : a[k] = b[j]
             M == {m \in Nat : m + 1 <= n => Good(f[m + 1], m + 1)}
  <2>2. \A i \in 1..n : ss[i] = IF b[i] \in Answered THEN <<b[i]>> ELSE <<>>
    BY <1>0, <1>1 DEF Pieces
  <2>3. \A i, j \in 1..n : b[i] = b[j] => i = j
    BY <1>0 DEF IsInjective
  <2>4. 0 \in M
    <3>1. 0 + 1 = 1 /\ 1 \in 1..n
      BY <1>5
    <3>2. f[1] = ss[1]
      BY <2>1, <3>1 DEF FlatStep
    <3>3. PICK a : a = f[1]
      OBVIOUS
    <3>4. a = <<b[1]>> \/ a = <<>>
      BY <2>2, <3>1, <3>2, <3>3
    <3>5. Good(a, 1)
      <4>1. CASE a = <<>>
        BY <4>1
      <4>2. CASE a = <<b[1]>>
        <5>1. Len(a) = 1 /\ a[1] = b[1]
          BY <4>2
        <5>2. QED
          BY <5>1
      <4>3. QED
        BY <3>4, <4>1, <4>2
    <3>6. QED
      BY <3>1, <3>3, <3>5
  <2>5. ASSUME NEW m \in Nat, m \in M PROVE m + 1 \in M
    <3> SUFFICES ASSUME (m + 1) + 1 <= n PROVE Good(f[(m + 1) + 1], (m + 1) + 1)
      OBVIOUS
    <3>1. PICK k \in 1..n : k = (m + 1) + 1 /\ k # 1 /\ k - 1 = m + 1 /\ m + 1 <= n /\ m + 1 \in 1..n
      OBVIOUS
    <3>2. f[k] = f[m + 1] \o ss[k]
      BY <2>1, <3>1 DEF FlatStep
    <3>3. PICK a \in Seq(Messages), c \in Seq(Messages) : a = f[m + 1] /\ c = f[k]
      BY <3>1
    <3>4. Good(a, m + 1)
      BY <2>5, <3>1, <3>3
    <3>5. CASE b[k] \in Answered
      <4>0. ss[k] = <<b[k]>>
        BY <2>2, <3>5
      <4>1. c = a \o <<b[k]>> /\ b[k] \in Messages
        <5>1. b[k] \in Messages
          BY <1>0
        <5>2. c = a \o ss[k]
          BY ONLY <3>1, <3>2, <3>3
        <5>3. QED
          BY ONLY <4>0, <5>1, <5>2
      <4>2. PICK l \in Nat : l = Len(a)
        OBVIOUS
      <4>3. Len(c) = l + 1 /\ c[l + 1] = b[k] /\ \A i \in 1..l : c[i] = a[i]
        BY <4>1, <4>2
      <4>4. \A i \in 1..l : a[i] # b[k]
        <5> TAKE i \in 1..l
        <5>1. PICK j \in 1..m+1 : a[i] = b[j]
          BY <3>4, <4>2
        <5>2. j \in 1..n /\ j # k
          BY <3>1
        <5>3. QED
          BY <2>3, <5>1, <5>2
      <4>5. \A i, j \in 1..l+1 : c[i] = c[j] => i = j
        <5> TAKE i, j \in 1..l+1
        <5>1. \A x \in 1..l+1 : x = l + 1 \/ x \in 1..l
          OBVIOUS
        <5>2. QED
          BY <3>4, <4>2, <4>3, <4>4, <5>1
      <4>6. \A i \in 1..l+1 : \E j \in 1..k : c[i] = b[j]
        <5> TAKE i \in 1..l+1
        <5>1. CASE i = l + 1
          BY <4>3, <5>1, <3>1
        <5>2. CASE i # l + 1
          <6>1. i \in 1..l
            BY <5>2
          <6>2. PICK j \in 1..m+1 : a[i] = b[j]
            BY <3>4, <4>2, <6>1
          <6>3. j \in 1..k
            BY <3>1
          <6>4. QED
            BY <4>3, <6>1, <6>2, <6>3
        <5>3. QED
          BY <5>1, <5>2
      <4>7. QED
        BY <3>1, <3>3, <4>3, <4>5, <4>6
    <3>6. CASE b[k] \notin Answered
      <4>0. ss[k] = <<>>
        BY <2>2, <3>6
      <4>1. c = a
        <5>1. c = a \o <<>>
          BY ONLY <3>1, <3>2, <3>3, <4>0
        <5>2. QED
          BY ONLY <5>1, a \in Seq(Messages), ConcatEmptySeq
      <4>2. \A j \in 1..m+1 : j \in 1..k
        BY <3>1
      <4>3. QED
        BY <3>1, <3>3, <3>4, <4>1, <4>2
    <3>7. QED
      BY <3>5, <3>6
  <2>6. Nat \subseteq M
    <3> HIDE DEF M
    <3>1. QED
      BY <2>4, <2>5, Induct
  <2>7. Good(f[n], n)
    <3>1. n - 1 \in Nat /\ (n - 1) + 1 = n /\ n <= n
      BY <1>5
    <3>2. n - 1 \in M
      BY <2>6, <3>1
    <3>3. QED
      BY <3>1, <3>2
  <2>8. PICK a \in Seq(Messages) : a = Answers(b) /\ Good(a, n)
    BY <1>2, <1>3, <2>1, <2>7
  <2>9. DOMAIN a = 1..Len(a)
    OBVIOUS
  <2>10. IsInjective(a)
    BY <2>8, <2>9 DEF IsInjective
  <2>11. Range(a) \subseteq Range(b)
    <3>1. \A i \in 1..Len(a) : \E j \in DOMAIN b : a[i] = b[j]
      BY <1>0, <2>8
    <3>2. QED
      BY ONLY <2>9, <3>1 DEF Range
  <2>12. QED
    BY <2>8, <2>10, <2>11
<1>6. QED
  BY <1>4, <1>5

Items == [answer : Messages, part : Range(Parts) \cup {"whole"}]

\* What is forwarded of a batch is told apart, and belongs to its messages.
LEMMA IncomingIs ==
  ASSUME NEW b \in Seq(Messages), IsInjective(b)
  PROVE  /\ Incoming(Answers(b)) \in Seq(Items) /\ IsInjective(Incoming(Answers(b)))
         /\ \A k \in 1..Len(Incoming(Answers(b))) : Incoming(Answers(b))[k].answer \in Range(b)
<1>1. PICK a \in Seq(Messages) : a = Answers(b) /\ IsInjective(a) /\ Range(a) \subseteq Range(b)
  BY AnswersAre
<1>2. PICK n \in Nat : n = Len(a) /\ DOMAIN a = 1..n
  OBVIOUS
<1>3. \A i \in 1..n : a[i] \in Messages /\ a[i] \in Range(b)
  BY <1>1, <1>2 DEF Range
<1>4. PICK c : c = Incoming(a)
  OBVIOUS
<1>5. CASE n = 1
  <2>1. PICK p \in Nat : p = Len(Parts) /\ DOMAIN Parts = 1..p
    BY HTTPBatchAssumption
  <2>2. \A i, j \in 1..p : Parts[i] \in Range(Parts) /\ (Parts[i] = Parts[j] => i = j)
    BY <2>1, HTTPBatchAssumption DEF IsInjective, Range
  <2>3. c = [i \in 1..p |-> [answer |-> a[1], part |-> Parts[i]]]
    BY <1>2, <1>4, <1>5, <2>1 DEF Incoming
  <2>4. a[1] \in Messages /\ a[1] \in Range(b)
    BY <1>3, <1>5
  <2>5. c \in [1..p -> Items]
    BY <2>2, <2>3, <2>4 DEF Items
  <2>6. c \in Seq(Items) /\ Len(c) = p
    BY <2>5, FunctionIsSeq
  <2>7. \A i, j \in 1..p : c[i] = c[j] => i = j
    BY <2>2, <2>3
  <2>8. DOMAIN c = 1..p
    BY <2>3
  <2>9. IsInjective(c)
    BY <2>7, <2>8 DEF IsInjective
  <2>10. \A k \in 1..p : c[k].answer \in Range(b)
    BY <2>3, <2>4
  <2>11. QED
    BY <1>1, <1>4, <2>6, <2>9, <2>10
<1>6. CASE n # 1
  <2>1. c = [i \in 1..n |-> [answer |-> a[i], part |-> "whole"]]
    BY <1>2, <1>4, <1>6 DEF Incoming, Whole
  <2>2. c \in [1..n -> Items]
    BY <1>3, <2>1 DEF Items
  <2>3. c \in Seq(Items) /\ Len(c) = n
    BY <2>2, FunctionIsSeq
  <2>4. \A i, j \in 1..n : a[i] = a[j] => i = j
    BY <1>1, <1>2 DEF IsInjective
  <2>5. \A i, j \in 1..n : c[i] = c[j] => i = j
    BY <2>1, <2>4
  <2>6. DOMAIN c = 1..n
    BY <2>1
  <2>7. IsInjective(c)
    BY <2>5, <2>6 DEF IsInjective
  <2>8. \A k \in 1..n : c[k].answer \in Range(b)
    BY <1>3, <2>1
  <2>9. QED
    BY <1>1, <1>4, <2>3, <2>7, <2>8
<1>7. QED
  BY <1>5, <1>6

-----------------------------------------------------------------------------
(* Each message in one batch.                                              *)

Requests == [batch : Seq(Messages), attempt : Nat, answer : Seq(Items), full : BOOLEAN,
             pc : {"posting", "answered", "failed", "done"}]

HTTPTypeOK ==
  /\ call \in [Messages -> {"new", "checked", "queued", "refused", "panicked"}]
  /\ outbound \in Seq(Messages) /\ batch \in Seq(Messages) /\ taken \in Seq(Messages)
  /\ requests \in Seq(Requests)

Batches == [i \in DOMAIN requests |-> requests[i].batch]

InPlace(m, bs, b, o) ==
  m \in Range(b) \/ m \in Range(o) \/ \E i \in DOMAIN bs : m \in Range(bs[i])

\* The batches bs, the one that is gathered and the channel have no message
\* twice, nor in common.
Apart(bs, b, o) ==
  /\ IsInjective(b) /\ IsInjective(o) /\ Range(b) \cap Range(o) = {}
  /\ \A i \in DOMAIN bs : /\ IsInjective(bs[i])
                          /\ Range(bs[i]) \cap Range(b) = {} /\ Range(bs[i]) \cap Range(o) = {}
                          /\ \A j \in DOMAIN bs : i # j => Range(bs[i]) \cap Range(bs[j]) = {}

\* What is in them was put there by a Send, and a Send puts it there once.
BatchesApart ==
  /\ Apart(Batches, batch, outbound)
  /\ \A m \in Messages : InPlace(m, Batches, batch, outbound) => call[m] = "queued"

\* The batches of the requests, in their order.
LEMMA BatchesAre ==
  ASSUME requests \in Seq(Requests)
  PROVE  /\ Batches \in Seq(Seq(Messages)) /\ Len(Batches) = Len(requests) /\ DOMAIN Batches = DOMAIN requests
         /\ \A i \in DOMAIN requests : Batches[i] = requests[i].batch
<1>1. PICK n \in Nat : n = Len(requests) /\ DOMAIN requests = 1..n
  OBVIOUS
<1>2. \A i \in 1..n : requests[i].batch \in Seq(Messages)
  <2> TAKE i \in 1..n
  <2>1. requests[i] \in Requests
    BY <1>1
  <2>2. QED
    BY <2>1 DEF Requests
<1>3. Batches \in [1..n -> Seq(Messages)]
  BY <1>1, <1>2 DEF Batches
<1>4. Batches \in Seq(Seq(Messages)) /\ Len(Batches) = n
  BY <1>3, FunctionIsSeq
<1>5. QED
  BY <1>1, <1>4 DEF Batches

\* sendBatch hands the batch over as it is, to the end of the list.
LEMMA SendBatchHands ==
  ASSUME HTTPTypeOK, NEW b \in Seq(Messages), SendBatch(b)
  PROVE  /\ requests' \in Seq(Requests) /\ batch' = <<>>
         /\ b = <<>> => requests' = requests /\ Batches' = Batches
         /\ b # <<>> => /\ Batches' = Append(Batches, b)
                        /\ requests' = Append(requests, [batch |-> b, attempt |-> 0, pc |-> "posting",
                                                         answer |-> <<>>, full |-> FALSE])
<1>1. CASE b = <<>>
  BY <1>1 DEF SendBatch, HTTPTypeOK, Batches
<1>2. CASE b # <<>>
  <2>1. PICK r : r = [batch |-> b, attempt |-> 0, pc |-> "posting", answer |-> <<>>, full |-> FALSE]
    OBVIOUS
  <2>2. r \in Requests /\ r.batch = b
    <3>1. <<>> \in Seq(Items)
      OBVIOUS
    <3>2. QED
      BY <2>1, <3>1 DEF Requests
  <2>3. requests' = Append(requests, r) /\ batch' = <<>>
    BY <1>2, <2>1 DEF SendBatch
  <2>4. PICK n \in Nat : n = Len(requests) /\ DOMAIN requests = 1..n
    BY DEF HTTPTypeOK
  <2>5. /\ requests' \in Seq(Requests) /\ Len(requests') = n + 1 /\ requests'[n + 1] = r
        /\ DOMAIN requests' = 1..n+1 /\ \A i \in 1..n : requests'[i] = requests[i]
    BY <2>2, <2>3, <2>4 DEF HTTPTypeOK
  <2>6. PICK bs \in Seq(Seq(Messages)) : bs = Batches /\ Len(bs) = n /\ \A i \in 1..n : bs[i] = requests[i].batch
    BY <2>4, BatchesAre DEF HTTPTypeOK
  <2>7. PICK cs \in Seq(Seq(Messages)) : cs = Append(bs, b)
    BY AppendProperties, Zenon
  <2>8. Len(cs) = n + 1 /\ cs[n + 1] = b /\ DOMAIN cs = 1..n+1 /\ \A i \in 1..n : cs[i] = bs[i]
    BY <2>6, <2>7
  <2>9. PICK ds : ds = Batches'
    OBVIOUS
  <2>10. ds = [i \in 1..n+1 |-> requests'[i].batch]
    BY <2>5, <2>9 DEF Batches
  <2>11. \A i \in 1..n+1 : ds[i] = cs[i]
    <3> TAKE i \in 1..n+1
    <3>1. i = n + 1 \/ i \in 1..n
      OBVIOUS
    <3>2. QED
      BY <2>2, <2>5, <2>6, <2>8, <2>10, <3>1
  <2>12. cs = [i \in 1..n+1 |-> cs[i]]
    BY <2>8
  <2>13. ds = cs
    BY <2>10, <2>11, <2>12
  <2>14. QED
    BY <1>2, <2>1, <2>3, <2>5, <2>6, <2>7, <2>9, <2>13
<1>3. QED
  BY <1>1, <1>2

\* A request on its way keeps its batch.
LEMMA BatchesKept ==
  ASSUME HTTPTypeOK, NEW i \in DOMAIN requests, NEW r \in Requests, r.batch = requests[i].batch,
         requests' = [requests EXCEPT ![i] = r]
  PROVE  requests' \in Seq(Requests) /\ Batches' = Batches /\ DOMAIN requests' = DOMAIN requests
<1>1. PICK n \in Nat : n = Len(requests) /\ DOMAIN requests = 1..n /\ requests \in [1..n -> Requests]
  BY DEF HTTPTypeOK
<1>2. requests' \in [1..n -> Requests]
  BY <1>1
<1>3. requests' \in Seq(Requests) /\ DOMAIN requests' = 1..n
  BY <1>2, FunctionIsSeq
<1>4. \A j \in 1..n : requests'[j].batch = requests[j].batch
  BY <1>1
<1>5. Batches' = Batches
  BY <1>1, <1>3, <1>4 DEF Batches
<1>6. QED
  BY <1>1, <1>3, <1>5

\* The batch is handed over, and nothing is in two places.
LEMMA ApartSend ==
  ASSUME NEW bs \in Seq(Seq(Messages)), NEW b \in Seq(Messages), NEW o \in Seq(Messages), Apart(bs, b, o)
  PROVE  /\ Apart(Append(bs, b), <<>>, o)
         /\ \A m : InPlace(m, Append(bs, b), <<>>, o) => InPlace(m, bs, b, o)
<1>1. PICK n \in Nat : n = Len(bs) /\ DOMAIN bs = 1..n
  OBVIOUS
<1>2. PICK cs \in Seq(Seq(Messages)) : cs = Append(bs, b)
  BY AppendProperties, Zenon
<1>3. Len(cs) = n + 1 /\ cs[n + 1] = b /\ DOMAIN cs = 1..n+1 /\ \A i \in 1..n : cs[i] = bs[i]
  BY <1>1, <1>2
<1>4. \A i \in 1..n+1 : i = n + 1 \/ i \in 1..n
  OBVIOUS
<1>5. IsInjective(<<>>) /\ Range(<<>>) = {}
  BY DEF IsInjective, Range
<1>6. IsInjective(b) /\ IsInjective(o) /\ Range(b) \cap Range(o) = {}
  BY DEF Apart
<1>7. \A i \in 1..n : /\ IsInjective(bs[i])
                      /\ Range(bs[i]) \cap Range(b) = {} /\ Range(bs[i]) \cap Range(o) = {}
                      /\ \A j \in 1..n : i # j => Range(bs[i]) \cap Range(bs[j]) = {}
  BY <1>1 DEF Apart
<1>8. \A i \in 1..n+1 : /\ IsInjective(cs[i])
                        /\ Range(cs[i]) \cap {} = {} /\ Range(cs[i]) \cap Range(o) = {}
                        /\ \A j \in 1..n+1 : i # j => Range(cs[i]) \cap Range(cs[j]) = {}
  <2> TAKE i \in 1..n+1
  <2>1. IsInjective(cs[i]) /\ Range(cs[i]) \cap Range(o) = {}
    BY <1>3, <1>4, <1>6, <1>7
  <2>2. ASSUME NEW j \in 1..n+1, i # j PROVE Range(cs[i]) \cap Range(cs[j]) = {}
    BY <1>3, <1>4, <1>7, <2>2
  <2>3. QED
    BY <2>1, <2>2
<1>9. Apart(cs, <<>>, o)
  BY <1>3, <1>5, <1>6, <1>8 DEF Apart
<1>10. ASSUME NEW m, InPlace(m, cs, <<>>, o) PROVE InPlace(m, bs, b, o)
  BY <1>1, <1>3, <1>4, <1>5, <1>10 DEF InPlace
<1>11. QED
  BY <1>2, <1>9, <1>10

\* A message goes from the head of the channel to the end of the batch.
LEMMA ApartGather ==
  ASSUME NEW bs, NEW b \in Seq(Messages), NEW o \in Seq(Messages), o # <<>>, Apart(bs, b, o)
  PROVE  /\ Append(b, Head(o)) \in Seq(Messages) /\ Append(b, Head(o)) # <<>> /\ Tail(o) \in Seq(Messages)
         /\ Append(b, Head(o)) \o Tail(o) = b \o o
         /\ Apart(bs, Append(b, Head(o)), Tail(o))
         /\ \A m : InPlace(m, bs, Append(b, Head(o)), Tail(o)) => InPlace(m, bs, b, o)
<1>1. PICK n \in Nat, k \in Nat : n = Len(b) /\ k + 1 = Len(o) /\ DOMAIN b = 1..n /\ DOMAIN o = 1..k+1
  <2>1. Len(o) \in Nat \ {0}
    BY EmptySeq
  <2>2. PICK k \in Nat : k + 1 = Len(o)
    <3>1. Len(o) - 1 \in Nat /\ (Len(o) - 1) + 1 = Len(o)
      BY <2>1
    <3>2. QED
      BY <3>1
  <2>3. QED
    BY <2>2
<1>2. PICK h \in Messages : h = Head(o) /\ h = o[1]
  BY <1>1
<1>3. PICK c \in Seq(Messages) : c = Append(b, h)
  BY AppendProperties
<1>4. PICK t \in Seq(Messages) : t = Tail(o)
  BY HeadTailProperties
<1>5. Len(c) = n + 1 /\ c[n + 1] = h /\ DOMAIN c = 1..n+1 /\ \A i \in 1..n : c[i] = b[i]
  BY <1>1, <1>3
<1>6. Len(t) = k /\ DOMAIN t = 1..k /\ \A i \in 1..k : t[i] = o[i + 1]
  BY <1>1, <1>4
<1>7. IsInjective(b) /\ IsInjective(o) /\ Range(b) \cap Range(o) = {}
  BY DEF Apart
<1>8. Range(c) = Range(b) \cup {h} /\ Range(o) = Range(t) \cup {h} /\ h \in Range(o)
  <2>1. Range(c) = Range(b) \cup {h}
    <3>1. \A i \in 1..n+1 : i = n + 1 \/ i \in 1..n
      OBVIOUS
    <3>2. \A i \in 1..n : i \in 1..n+1
      OBVIOUS
    <3>3. n + 1 \in 1..n+1
      OBVIOUS
    <3>4. QED
      BY <1>1, <1>5, <3>1, <3>2, <3>3 DEF Range
  <2>2. Range(o) = Range(t) \cup {h}
    <3>1. \A i \in 1..k+1 : i = 1 \/ (i - 1 \in 1..k /\ (i - 1) + 1 = i)
      OBVIOUS
    <3>2. \A i \in 1..k : i + 1 \in 1..k+1
      OBVIOUS
    <3>3. 1 \in 1..k+1
      OBVIOUS
    <3>4. \A i \in 1..k+1 : o[i] \in Range(t) \cup {h}
      <4> TAKE i \in 1..k+1
      <4>1. CASE i = 1
        BY <1>2, <4>1
      <4>2. CASE i # 1
        <5>1. i - 1 \in 1..k /\ t[i - 1] = o[i]
          BY <1>6, <3>1, <4>2
        <5>2. QED
          BY <1>6, <5>1 DEF Range
      <4>3. QED
        BY <4>1, <4>2
    <3>5. Range(o) \subseteq Range(t) \cup {h}
      BY <1>1, <3>4 DEF Range
    <3>6. \A i \in 1..k : t[i] \in Range(o)
      <4> TAKE i \in 1..k
      <4>1. i + 1 \in DOMAIN o /\ t[i] = o[i + 1]
        BY <1>1, <1>6, <3>2
      <4>2. QED
        BY <4>1 DEF Range
    <3>7. Range(t) \subseteq Range(o)
      BY <1>6, <3>6 DEF Range
    <3>8. h \in Range(o)
      BY <1>1, <1>2, <3>3 DEF Range
    <3>9. QED
      BY <3>5, <3>7, <3>8
  <2>3. QED
    BY <2>1, <2>2
<1>9. IsInjective(c)
  <2>1. \A i \in 1..n : b[i] \in Range(b) /\ b[i] # h
    <3>1. \A i \in 1..n : b[i] \in Range(b)
      BY <1>1 DEF Range
    <3>2. QED
      BY <1>7, <1>8, <3>1
  <2>2. \A i, j \in 1..n : b[i] = b[j] => i = j
    BY <1>1, <1>7 DEF IsInjective
  <2>3. \A i, j \in 1..n+1 : c[i] = c[j] => i = j
    <3> TAKE i, j \in 1..n+1
    <3>1. \A x \in 1..n+1 : x = n + 1 \/ x \in 1..n
      OBVIOUS
    <3>2. QED
      BY <1>5, <2>1, <2>2, <3>1
  <2>4. QED
    BY <1>5, <2>3 DEF IsInjective
<1>10. IsInjective(t) /\ h \notin Range(t)
  <2>1. \A i, j \in 1..k+1 : o[i] = o[j] => i = j
    BY <1>1, <1>7 DEF IsInjective
  <2>2. \A i, j \in 1..k : i + 1 \in 1..k+1 /\ j + 1 \in 1..k+1 /\ (i + 1 = j + 1 => i = j) /\ i + 1 # 1
    OBVIOUS
  <2>3. \A i, j \in 1..k : t[i] = t[j] => i = j
    <3> TAKE i, j \in 1..k
    <3>1. t[i] = o[i + 1] /\ t[j] = o[j + 1]
      BY <1>6
    <3>2. o[i + 1] = o[j + 1] => i + 1 = j + 1
      BY <2>1, <2>2
    <3>3. QED
      BY <2>2, <3>1, <3>2
  <2>4. \A i \in 1..k : t[i] # h
    <3>1. 1 \in 1..k+1
      OBVIOUS
    <3>2. QED
      BY <1>2, <1>6, <2>1, <2>2, <3>1
  <2>5. QED
    BY <1>6, <2>3, <2>4 DEF IsInjective, Range
<1>11. Apart(bs, c, t)
  <2>1. \A i \in DOMAIN bs : /\ IsInjective(bs[i])
                      /\ Range(bs[i]) \cap Range(b) = {} /\ Range(bs[i]) \cap Range(o) = {}
                      /\ \A j \in DOMAIN bs : i # j => Range(bs[i]) \cap Range(bs[j]) = {}
    BY DEF Apart
  <2>2. Range(c) \cap Range(t) = {} /\ \A i \in DOMAIN bs : Range(bs[i]) \cap Range(c) = {} /\ Range(bs[i]) \cap Range(t) = {}
    BY <1>7, <1>8, <1>10, <2>1
  <2>3. QED
    BY <1>9, <1>10, <2>1, <2>2 DEF Apart
<1>12. ASSUME NEW m, InPlace(m, bs, c, t) PROVE InPlace(m, bs, b, o)
  BY <1>8, <1>12 DEF InPlace
<1>13. c \o t = b \o o
  <2>1. c = b \o <<h>>
    BY <1>3, AppendIsConcat
  <2>2. <<h>> \o t = o
    BY <1>2, <1>4, HeadTailProperties
  <2>3. <<h>> \in Seq(Messages)
    OBVIOUS
  <2>4. (b \o <<h>>) \o t = b \o (<<h>> \o t)
    BY ONLY <2>3, b \in Seq(Messages), t \in Seq(Messages), ConcatAssociative
  <2>5. QED
    BY <2>1, <2>2, <2>4
<1>14. QED
  BY <1>2, <1>3, <1>4, <1>5, <1>11, <1>12, <1>13, SMTT(40)

\* A message that is nowhere yet joins the channel.
LEMMA ApartQueue ==
  ASSUME NEW bs, NEW b \in Seq(Messages), NEW o \in Seq(Messages), NEW m \in Messages,
         ~InPlace(m, bs, b, o), Apart(bs, b, o)
  PROVE  /\ Apart(bs, b, Append(o, m))
         /\ \A k : InPlace(k, bs, b, Append(o, m)) => k = m \/ InPlace(k, bs, b, o)
<1>1. PICK n \in Nat : n = Len(o) /\ DOMAIN o = 1..n
  OBVIOUS
<1>2. PICK p \in Seq(Messages) : p = Append(o, m)
  BY AppendProperties
<1>3. DOMAIN p = 1..n+1 /\ p[n + 1] = m /\ \A i \in 1..n : p[i] = o[i]
  BY <1>1, <1>2
<1>4. \A i \in 1..n+1 : i = n + 1 \/ i \in 1..n
  OBVIOUS
<1>5. Range(p) \subseteq Range(o) \cup {m}
  BY <1>1, <1>3, <1>4 DEF Range
<1>6. m \notin Range(b) /\ m \notin Range(o) /\ \A i \in DOMAIN bs : m \notin Range(bs[i])
  BY DEF InPlace
<1>7. IsInjective(p)
  <2>1. \A i, j \in 1..n : o[i] = o[j] => i = j
    BY <1>1 DEF Apart, IsInjective
  <2>2. \A i \in 1..n : o[i] # m
    BY <1>1, <1>6 DEF Range
  <2>3. \A i, j \in 1..n+1 : p[i] = p[j] => i = j
    BY <1>3, <1>4, <2>1, <2>2
  <2>4. QED
    BY <1>3, <2>3 DEF IsInjective
<1>8. Apart(bs, b, p)
  BY <1>5, <1>6, <1>7 DEF Apart
<1>9. ASSUME NEW k, InPlace(k, bs, b, p) PROVE k = m \/ InPlace(k, bs, b, o)
  BY <1>5, <1>9 DEF InPlace
<1>10. QED
  BY <1>2, <1>8, <1>9

OnceEach == HTTPTypeOK /\ EachInOneBatch /\ BatchesApart

\* The property's batched messages are the batches, one after the other.
LEMMA BatchedIs == Batched = FlattenSeq(Batches)
BY DEF Batched, Batches

\* What is sent was in its place before, and is in the next one afterwards.
LEMMA SendKeeps ==
  ASSUME HTTPTypeOK, NEW b \in Seq(Messages), SendBatch(b), outbound' \in Seq(Messages), taken' \in Seq(Messages),
         call' \in [Messages -> {"new", "checked", "queued", "refused", "panicked"}],
         (FlattenSeq(Batches) \o b) \o outbound' = taken',
         Apart(Batches, b, outbound'),
         \A m \in Messages : InPlace(m, Batches, b, outbound') => call'[m] = "queued"
  PROVE  OnceEach'
<1>1. /\ requests' \in Seq(Requests) /\ batch' = <<>>
      /\ b = <<>> => Batches' = Batches
      /\ b # <<>> => Batches' = Append(Batches, b)
  BY SendBatchHands
<1>2. Batches \in Seq(Seq(Messages))
  BY BatchesAre DEF HTTPTypeOK
<1>3. PICK bs \in Seq(Seq(Messages)) : bs = Batches
  BY <1>2
<1>4. PICK cs, o : cs = Batches' /\ o = outbound'
  OBVIOUS
<1>5. FlattenSeq(bs) \in Seq(Messages)
  BY FlattenType
<1>6. <<>> \in Seq(Messages)
  OBVIOUS
<1>7. FlattenSeq(cs) = FlattenSeq(bs) \o b
  <2>1. CASE b = <<>>
    BY <1>1, <1>3, <1>4, <1>5, <2>1, ConcatEmptySeq
  <2>2. CASE b # <<>>
    BY <1>1, <1>3, <1>4, <2>2, FlattenAppend
  <2>3. QED
    BY <2>1, <2>2
<1>8. FlattenSeq(cs) \o <<>> = FlattenSeq(cs)
  <2>1. FlattenSeq(bs) \o b \in Seq(Messages)
    BY <1>5
  <2>2. QED
    BY <1>7, <2>1, ConcatEmptySeq
<1>9. Batched' = FlattenSeq(cs)
  BY <1>4 DEF Batched, Batches
<1>10. EachInOneBatch'
  BY <1>1, <1>3, <1>4, <1>7, <1>8, <1>9 DEF EachInOneBatch
<1>11. Apart(cs, <<>>, o) /\ \A m : InPlace(m, cs, <<>>, o) => InPlace(m, bs, b, o)
  <2>1. CASE b = <<>>
    BY <1>1, <1>3, <1>4, <2>1
  <2>2. CASE b # <<>>
    BY <1>1, <1>3, <1>4, <2>2, ApartSend
  <2>3. QED
    BY <2>1, <2>2
<1>12. Apart(Batches, batch, outbound)'
  BY <1>1, <1>4, <1>11
<1>13. (\A m \in Messages : InPlace(m, Batches, batch, outbound) => call[m] = "queued")'
  BY <1>1, <1>3, <1>4, <1>11
<1>14. HTTPTypeOK'
  BY <1>1, <1>6 DEF HTTPTypeOK
<1>15. QED
  BY <1>10, <1>12, <1>13, <1>14 DEF OnceEach, BatchesApart

\* No message has been taken.
LEMMA OnceEachInit ==
  ASSUME HTTPInit PROVE OnceEach
<1>1. <<>> \in Seq(Messages) /\ <<>> \in Seq(Requests)
  OBVIOUS
<1>2. HTTPTypeOK
  BY <1>1 DEF HTTPInit, HTTPTypeOK
<1>3. requests = <<>> /\ batch = <<>> /\ outbound = <<>> /\ taken = <<>>
  BY DEF HTTPInit
<1>4. Batches = <<>> /\ Len(Batches) = 0 /\ DOMAIN Batches = {}
  <2>1. Len(requests) = 0 /\ DOMAIN requests = {}
    BY <1>3
  <2>2. Batches \in Seq(Seq(Messages)) /\ Len(Batches) = 0 /\ DOMAIN Batches = {}
    BY <1>2, <2>1, BatchesAre DEF HTTPTypeOK
  <2>3. QED
    BY <2>2, EmptySeq
<1>5. Batched = <<>>
  BY <1>4, BatchedIs, FlattenEmpty
<1>6. EachInOneBatch
  BY <1>3, <1>5 DEF EachInOneBatch
<1>7. IsInjective(<<>>) /\ Range(<<>>) = {}
  BY DEF IsInjective, Range
<1>8. BatchesApart
  BY <1>3, <1>4, <1>7 DEF BatchesApart, Apart, InPlace
<1>9. QED
  BY <1>2, <1>6, <1>8 DEF OnceEach

\* What moves no message keeps every one in its place.
LEMMA StillOnceEach ==
  ASSUME OnceEach, Batches' = Batches, requests' \in Seq(Requests), UNCHANGED <<batch, outbound, taken>>,
         call' \in [Messages -> {"new", "checked", "queued", "refused", "panicked"}],
         \A m \in Messages : call[m] = "queued" => call'[m] = "queued"
  PROVE  OnceEach'
<1>1. Batched' = Batched
  BY DEF Batched, Batches
<1>2. EachInOneBatch'
  BY <1>1 DEF OnceEach, EachInOneBatch
<1>3. BatchesApart'
  BY DEF OnceEach, BatchesApart
<1>4. HTTPTypeOK'
  BY DEF OnceEach, HTTPTypeOK
<1>5. QED
  BY <1>2, <1>3, <1>4 DEF OnceEach

\* A step of another part.
LEMMA OnceEachUnchanged ==
  ASSUME OnceEach, UNCHANGED httpVars PROVE OnceEach'
<1>1. UNCHANGED <<call, outbound, batch, requests, taken>>
  BY DEF httpVars
<1>2. Batches' = Batches /\ requests' \in Seq(Requests)
  BY <1>1 DEF Batches, OnceEach, HTTPTypeOK
<1>3. call' \in [Messages -> {"new", "checked", "queued", "refused", "panicked"}]
  BY <1>1 DEF OnceEach, HTTPTypeOK
<1>4. QED
  BY <1>1, <1>2, <1>3, StillOnceEach

\* Send puts its message in the channel, or finds it full or closed.
LEMMA QueueKeeps ==
  ASSUME OnceEach, NEW m \in Messages, HTTPSendQueues(m) PROVE OnceEach'
<1>0. HTTPTypeOK /\ UNCHANGED <<batch, requests>> /\ Batches' = Batches
  BY DEF OnceEach, HTTPSendQueues, Batches
<1>1. CASE outbound' = Append(outbound, m) /\ taken' = Append(taken, m) /\ call' = [call EXCEPT ![m] = "queued"]
  <2>1. ~InPlace(m, Batches, batch, outbound) /\ Apart(Batches, batch, outbound)
    BY DEF OnceEach, BatchesApart, HTTPSendQueues
  <2>2. batch \in Seq(Messages) /\ outbound \in Seq(Messages) /\ taken \in Seq(Messages)
    BY <1>0 DEF HTTPTypeOK
  <2>3. PICK bs : bs = Batches
    OBVIOUS
  <2>17. PICK b \in Seq(Messages), o \in Seq(Messages) : b = batch /\ o = outbound
    BY <2>2
  <2>4. /\ Apart(bs, b, Append(o, m))
        /\ \A k : InPlace(k, bs, b, Append(o, m)) => k = m \/ InPlace(k, bs, b, o)
    BY <2>1, <2>3, <2>17, ApartQueue
  <2>5. Apart(Batches, batch, outbound)'
    BY <1>0, <1>1, <2>3, <2>17, <2>4
  <2>6. \A k \in Messages : InPlace(k, bs, b, o) => call[k] = "queued"
    BY <2>3, <2>17 DEF OnceEach, BatchesApart
  <2>7. call \in [Messages -> {"new", "checked", "queued", "refused", "panicked"}]
    BY <1>0 DEF HTTPTypeOK
  <2>8. \A k \in Messages : k = m \/ InPlace(k, bs, b, o) => call'[k] = "queued"
    BY <1>1, <2>6, <2>7
  <2>9. BatchesApart'
    BY <1>0, <1>1, <2>3, <2>17, <2>4, <2>5, <2>8 DEF BatchesApart
  <2>10. HTTPTypeOK'
    <3>1. Append(outbound, m) \in Seq(Messages) /\ Append(taken, m) \in Seq(Messages)
      BY <2>2
    <3>2. call' \in [Messages -> {"new", "checked", "queued", "refused", "panicked"}]
      BY <1>1, <2>7
    <3>3. QED
      BY <1>0, <1>1, <3>1, <3>2 DEF HTTPTypeOK
  <2>11. PICK x \in Seq(Messages) : x = Batched \o batch
    <3>1. Batches \in Seq(Seq(Messages))
      BY <1>0, BatchesAre DEF HTTPTypeOK
    <3>2. Batched \in Seq(Messages)
      BY <3>1, BatchedIs, FlattenType
    <3>3. PICK x \in Seq(Messages), y \in Seq(Messages) : x = Batched /\ y = batch
      BY <2>2, <3>2
    <3>4. x \o y \in Seq(Messages)
      BY ONLY x \in Seq(Messages), y \in Seq(Messages)
    <3>5. QED
      BY <3>3, <3>4
  <2>12. x \o o = taken
    BY <2>3, <2>17, <2>11 DEF OnceEach, EachInOneBatch
  <2>13. x \o Append(o, m) = Append(x \o o, m)
    BY ONLY x \in Seq(Messages), o \in Seq(Messages), m \in Messages
  <2>14. Batched' = Batched
    BY <1>0 DEF Batched, Batches
  <2>15. EachInOneBatch'
    BY <1>0, <1>1, <2>3, <2>17, <2>11, <2>12, <2>13, <2>14 DEF EachInOneBatch
  <2>16. QED
    BY <2>9, <2>10, <2>15 DEF OnceEach
<1>2. CASE UNCHANGED <<outbound, taken>> /\ (call' = [call EXCEPT ![m] = "refused"] \/ call' = [call EXCEPT ![m] = "panicked"])
  <2>1. call \in [Messages -> {"new", "checked", "queued", "refused", "panicked"}] /\ call[m] = "checked"
    BY <1>0 DEF HTTPTypeOK, HTTPSendQueues
  <2>2. /\ call' \in [Messages -> {"new", "checked", "queued", "refused", "panicked"}]
        /\ \A k \in Messages : call[k] = "queued" => call'[k] = "queued"
    BY <1>2, <2>1
  <2>3. requests' \in Seq(Requests)
    BY <1>0 DEF HTTPTypeOK
  <2>4. QED
    BY <1>0, <1>2, <2>2, <2>3, StillOnceEach
<1>3. QED
  BY <1>1, <1>2 DEF HTTPSendQueues

\* The processor posts the batch it has gathered.
LEMMA FlushKeeps ==
  ASSUME OnceEach, SendBatch(batch), UNCHANGED <<call, outbound, taken>> PROVE OnceEach'
<1>1. HTTPTypeOK /\ EachInOneBatch /\ BatchesApart
  BY DEF OnceEach
<1>2. batch \in Seq(Messages) /\ outbound' \in Seq(Messages) /\ taken' \in Seq(Messages)
      /\ call' \in [Messages -> {"new", "checked", "queued", "refused", "panicked"}]
  BY <1>1 DEF HTTPTypeOK
<1>3. PICK b \in Seq(Messages) : b = batch
  BY <1>2
<1>4. (FlattenSeq(Batches) \o b) \o outbound' = taken'
  BY <1>1, <1>3, BatchedIs DEF EachInOneBatch
<1>5. Apart(Batches, b, outbound') /\ \A m \in Messages : InPlace(m, Batches, b, outbound') => call'[m] = "queued"
  BY <1>1, <1>3 DEF BatchesApart
<1>6. QED
  BY <1>1, <1>2, <1>3, <1>4, <1>5, SendKeeps

\* The processor takes a message, and posts a batch that is full.
LEMMA GatherKeeps ==
  ASSUME OnceEach, Gather PROVE OnceEach'
<1>1. HTTPTypeOK /\ EachInOneBatch /\ BatchesApart
  BY DEF OnceEach
<1>2. batch \in Seq(Messages) /\ outbound \in Seq(Messages) /\ taken' \in Seq(Messages)
      /\ call' \in [Messages -> {"new", "checked", "queued", "refused", "panicked"}] /\ UNCHANGED <<call, taken>>
  BY <1>1 DEF HTTPTypeOK, Gather
<1>3. PICK bs \in Seq(Seq(Messages)), b \in Seq(Messages), o \in Seq(Messages) :
        bs = Batches /\ b = batch /\ o = outbound
  <2>1. Batches \in Seq(Seq(Messages))
    BY <1>1, BatchesAre DEF HTTPTypeOK
  <2>2. QED
    BY <1>2, <2>1
<1>4. o # <<>> /\ Apart(bs, b, o) /\ \A m \in Messages : InPlace(m, bs, b, o) => call[m] = "queued"
  BY <1>1, <1>3 DEF Gather, BatchesApart
<1>5. PICK c, t : c = Append(b, Head(o)) /\ t = Tail(o)
  OBVIOUS
<1>6. /\ c \in Seq(Messages) /\ c # <<>> /\ t \in Seq(Messages)
      /\ c \o t = b \o o /\ Apart(bs, c, t)
      /\ \A m : InPlace(m, bs, c, t) => InPlace(m, bs, b, o)
  <2>1. o # <<>> /\ Apart(bs, b, o)
    BY <1>4
  <2>2. /\ Append(b, Head(o)) \in Seq(Messages) /\ Append(b, Head(o)) # <<>> /\ Tail(o) \in Seq(Messages)
        /\ Append(b, Head(o)) \o Tail(o) = b \o o
        /\ Apart(bs, Append(b, Head(o)), Tail(o))
        /\ \A m : InPlace(m, bs, Append(b, Head(o)), Tail(o)) => InPlace(m, bs, b, o)
    BY ONLY <2>1, b \in Seq(Messages), o \in Seq(Messages), ApartGather, Zenon
  <2>3. QED
    BY ONLY <1>5, <2>2
<1>7. outbound' = t
  BY <1>3, <1>5 DEF Gather
<1>8. FlattenSeq(bs) \in Seq(Messages)
  BY FlattenType
<1>9. (FlattenSeq(bs) \o c) \o t = taken'
  <2>1. (FlattenSeq(bs) \o b) \o o = taken
    BY <1>1, <1>3, BatchedIs DEF EachInOneBatch
  <2>2. (FlattenSeq(bs) \o b) \o o = FlattenSeq(bs) \o (b \o o)
    BY ONLY <1>8, b \in Seq(Messages), o \in Seq(Messages), ConcatAssociative
  <2>3. (FlattenSeq(bs) \o c) \o t = FlattenSeq(bs) \o (c \o t)
    <3>1. c \in Seq(Messages) /\ t \in Seq(Messages)
      BY <1>6
    <3>2. QED
      BY ONLY <1>8, <3>1, ConcatAssociative, SMTT(40)
  <2>4. QED
    BY ONLY <1>2, <1>6, <2>1, <2>2, <2>3
<1>10. \A m \in Messages : InPlace(m, bs, c, t) => call'[m] = "queued"
  BY <1>2, <1>4, <1>6
<1>11. CASE SendBatch(c)
  BY <1>1, <1>2, <1>3, <1>6, <1>7, <1>9, <1>10, <1>11, SendKeeps
<1>12. CASE batch' = c /\ UNCHANGED requests
  <2>1. Batches' = bs
    BY <1>3, <1>12 DEF Batches
  <2>2. HTTPTypeOK'
    BY <1>1, <1>2, <1>6, <1>7, <1>12 DEF HTTPTypeOK
  <2>3. Batched' = FlattenSeq(bs)
    BY <2>1 DEF Batched, Batches
  <2>4. EachInOneBatch'
    BY <1>7, <1>9, <1>12, <2>3 DEF EachInOneBatch
  <2>5. BatchesApart'
    BY <1>6, <1>7, <1>10, <1>12, <2>1 DEF BatchesApart
  <2>6. QED
    BY <2>2, <2>4, <2>5 DEF OnceEach
<1>13. QED
  BY <1>3, <1>5, <1>11, <1>12 DEF Gather

\* What a failed attempt makes of a request.
LEMMA FailedIs ==
  ASSUME NEW r \in Requests
  PROVE  /\ AttemptFailed(r) \in Requests /\ AttemptFailed(r).batch = r.batch /\ AttemptFailed(r).full = r.full
         /\ AttemptFailed(r).pc \in {"posting", "failed"} /\ AttemptFailed(r).answer = <<>>
<1>1. PICK p : p = [r EXCEPT !.pc = "posting", !.attempt = r.attempt + 1, !.answer = <<>>]
  OBVIOUS
<1>2. PICK q : q = [r EXCEPT !.pc = "failed", !.answer = <<>>]
  OBVIOUS
<1>3. r.attempt + 1 \in Nat /\ <<>> \in Seq(Items)
  BY DEF Requests
<1>4. p \in Requests /\ p.batch = r.batch /\ p.full = r.full /\ p.pc = "posting" /\ p.answer = <<>>
  BY ONLY <1>1, <1>3, r \in Requests DEF Requests
<1>5. q \in Requests /\ q.batch = r.batch /\ q.full = r.full /\ q.pc = "failed" /\ q.answer = <<>>
  BY ONLY <1>2, <1>3, r \in Requests DEF Requests
<1>6. AttemptFailed(r) = p \/ AttemptFailed(r) = q
  BY ONLY <1>1, <1>2 DEF AttemptFailed
<1>7. QED
  BY <1>4, <1>5, <1>6

\* What Post and Forward make of the request i.
LEMMA PostIs ==
  ASSUME HTTPTypeOK, NEW i \in DOMAIN requests, Post(i), IsInjective(requests[i].batch)
  PROVE  \E r \in Requests :
           /\ r.batch = requests[i].batch /\ r.full = requests[i].full
           /\ requests' = [requests EXCEPT ![i] = r] /\ requests[i].pc = "posting"
           /\ \/ r.pc \in {"posting", "failed"} /\ r.answer = <<>>
              \/ r.pc = "answered" /\ r.answer = Incoming(Answers(requests[i].batch))
<1>1. PICK q \in Requests : q = requests[i]
  BY DEF HTTPTypeOK
<1>2. CASE requests' = [requests EXCEPT ![i] = AttemptFailed(@)]
  <2>1. PICK r \in Requests : r = AttemptFailed(q)
    BY FailedIs
  <2>2. r.batch = q.batch /\ r.full = q.full /\ r.pc \in {"posting", "failed"} /\ r.answer = <<>>
    BY <2>1, FailedIs
  <2>3. requests' = [requests EXCEPT ![i] = r]
    BY <1>1, <1>2, <2>1
  <2>4. QED
    BY <1>1, <2>2, <2>3 DEF Post
<1>3. CASE requests' = [requests EXCEPT ![i].pc = "answered", ![i].answer = Incoming(Answers(requests[i].batch))]
  <2>1. q.batch \in Seq(Messages)
    BY DEF Requests
  <2>2. PICK a \in Seq(Items) : a = Incoming(Answers(q.batch))
    BY <1>1, <2>1, IncomingIs
  <2>3. PICK r : r = [q EXCEPT !.pc = "answered", !.answer = a]
    OBVIOUS
  <2>4. r \in Requests /\ r.batch = q.batch /\ r.full = q.full /\ r.pc = "answered" /\ r.answer = a
    BY <2>3 DEF Requests
  <2>5. requests' = [requests EXCEPT ![i] = r]
    BY <1>1, <1>3, <2>2, <2>3 DEF HTTPTypeOK
  <2>6. QED
    BY <1>1, <2>2, <2>4, <2>5 DEF Post
<1>4. QED
  BY <1>2, <1>3 DEF Post

\* What Forward makes of the request i.
LEMMA ForwardIs ==
  ASSUME HTTPTypeOK, NEW i \in DOMAIN requests, Forward(i)
  PROVE  \E r \in Requests :
           /\ r.batch = requests[i].batch /\ requests[i].pc = "answered"
           /\ requests' = [requests EXCEPT ![i] = r]
           /\ \/ r.pc = "done" /\ r.answer = <<>> /\ r.full = requests[i].full /\ UNCHANGED <<forwarded, repeated>>
              \/ r.full /\ r.answer = <<>> /\ UNCHANGED <<forwarded, repeated>>
              \/ /\ r.pc = "answered" /\ r.full = requests[i].full
                 /\ requests[i].answer # <<>> /\ r.answer = Tail(requests[i].answer)
                 /\ forwarded' = forwarded \cup {Head(requests[i].answer)}
                 /\ repeated' = repeated \cup (forwarded \cap {Head(requests[i].answer)})
<1>1. PICK q \in Requests : q = requests[i]
  BY DEF HTTPTypeOK
<1>0. q.answer \in Seq(Items) /\ q.pc = "answered"
  BY <1>1 DEF Requests, Forward
<1>2. CASE q.answer = <<>> /\ requests' = [requests EXCEPT ![i].pc = "done"] /\ UNCHANGED answering
  <2>1. PICK r : r = [q EXCEPT !.pc = "done"]
    OBVIOUS
  <2>2. r \in Requests /\ r.batch = q.batch /\ r.full = q.full /\ r.pc = "done" /\ r.answer = <<>>
    BY <1>2, <2>1 DEF Requests
  <2>3. requests' = [requests EXCEPT ![i] = r]
    BY <1>1, <1>2, <2>1 DEF HTTPTypeOK
  <2>4. QED
    BY <1>0, <1>1, <1>2, <2>2, <2>3 DEF answering
<1>3. CASE /\ q.answer # <<>>
           /\ forwarded' = forwarded \cup {Head(q.answer)}
           /\ repeated' = repeated \cup (forwarded \cap {Head(q.answer)})
           /\ requests' = [requests EXCEPT ![i].answer = Tail(@)]
  <2>1. PICK r : r = [q EXCEPT !.answer = Tail(q.answer)]
    OBVIOUS
  <2>0. Tail(q.answer) \in Seq(Items)
    BY <1>0, <1>3, HeadTailProperties
  <2>2. r \in Requests /\ r.batch = q.batch /\ r.full = q.full /\ r.pc = "answered" /\ r.answer = Tail(q.answer)
    BY <1>0, <2>0, <2>1 DEF Requests
  <2>3. requests' = [requests EXCEPT ![i] = r]
    BY <1>1, <1>3, <2>1 DEF HTTPTypeOK
  <2>4. QED
    BY <1>0, <1>1, <1>3, <2>2, <2>3
<1>4. CASE requests' = [requests EXCEPT ![i] = AttemptFailed([@ EXCEPT !.full = TRUE])] /\ UNCHANGED answering
  <2>1. PICK s : s = [q EXCEPT !.full = TRUE]
    OBVIOUS
  <2>2. s \in Requests /\ s.batch = q.batch /\ s.full = TRUE
    BY <2>1 DEF Requests
  <2>3. PICK r \in Requests : r = AttemptFailed(s)
    BY <2>2, FailedIs
  <2>4. r.batch = q.batch /\ r.full = TRUE /\ r.answer = <<>>
    BY <2>2, <2>3, FailedIs
  <2>5. requests' = [requests EXCEPT ![i] = r]
    BY <1>1, <1>4, <2>1, <2>3 DEF HTTPTypeOK
  <2>6. QED
    BY <1>0, <1>1, <1>4, <2>4, <2>5 DEF answering
<1>5. QED
  BY <1>1, <1>2, <1>3, <1>4 DEF Forward

\* Every step keeps each message in one place.
LEMMA OnceEachNext ==
  ASSUME OnceEach, HTTPNext PROVE OnceEach'
<1>1. HTTPTypeOK /\ call \in [Messages -> {"new", "checked", "queued", "refused", "panicked"}]
      /\ requests \in Seq(Requests)
  BY DEF OnceEach, HTTPTypeOK
<1>2. ASSUME NEW m \in Messages, HTTPSendChecks(m) PROVE OnceEach'
  <2>1. /\ call' \in [Messages -> {"new", "checked", "queued", "refused", "panicked"}]
        /\ \A k \in Messages : call[k] = "queued" => call'[k] = "queued"
    BY <1>1, <1>2 DEF HTTPSendChecks
  <2>2. Batches' = Batches /\ requests' \in Seq(Requests) /\ UNCHANGED <<batch, outbound, taken>>
    BY <1>1, <1>2 DEF HTTPSendChecks, Batches
  <2>3. QED
    BY <2>1, <2>2, StillOnceEach
<1>3. ASSUME NEW m \in Messages, HTTPSendQueues(m) PROVE OnceEach'
  BY <1>3, QueueKeeps
<1>4. CASE CloseHTTP \/ ProcessorEnds \/ TimerSends
  BY <1>4, FlushKeeps DEF CloseHTTP, ProcessorEnds, TimerSends
<1>5. CASE Gather
  BY <1>5, GatherKeeps
<1>6. CASE TimerFires \/ ReceiveHTTP
  <2>1. UNCHANGED <<call, requests, batch, outbound, taken>>
    BY <1>6 DEF TimerFires, ReceiveHTTP
  <2>2. Batches' = Batches
    BY <2>1 DEF Batches
  <2>3. QED
    BY <1>1, <2>1, <2>2, StillOnceEach
<1>7. ASSUME NEW i \in DOMAIN requests, Post(i) \/ Forward(i) PROVE OnceEach'
  <2>1. IsInjective(requests[i].batch)
    BY <1>1, BatchesAre DEF OnceEach, BatchesApart, Apart
  <2>2. PICK r \in Requests : r.batch = requests[i].batch /\ requests' = [requests EXCEPT ![i] = r]
    BY <1>1, <1>7, <2>1, PostIs, ForwardIs
  <2>3. requests' \in Seq(Requests) /\ Batches' = Batches
    BY <1>1, <2>2, BatchesKept
  <2>4. UNCHANGED <<call, batch, outbound, taken>>
    BY <1>7 DEF Post, Forward
  <2>5. QED
    BY <1>1, <2>3, <2>4, StillOnceEach
<1>8. QED
  BY <1>2, <1>3, <1>4, <1>5, <1>6, <1>7 DEF HTTPNext

\* Every message Send took is in one place, a batch, the one being gathered or the
\* channel, and in the order it was taken, whatever processor, timers and Close do
\* (http_transport.go:188-237).
THEOREM BatchesHoldAll == HTTPSpec => []EachInOneBatch
<1>1. HTTPInit => OnceEach
  BY OnceEachInit
<1>2. OnceEach /\ [HTTPNext]_httpVars => OnceEach'
  BY OnceEachNext, OnceEachUnchanged
<1>3. OnceEach => EachInOneBatch
  BY DEF OnceEach
<1>4. QED
  BY <1>1, <1>2, <1>3, PTL DEF HTTPSpec

-----------------------------------------------------------------------------
(* What a batch is answered, forwarded once.                               *)

\* What was forwarded, and what waits to be, belongs to a batch that was posted.
AnswersBelong ==
  /\ repeated \subseteq forwarded
  /\ \A item \in forwarded : \E i \in DOMAIN requests : item.answer \in Range(requests[i].batch)
  /\ \A i \in DOMAIN requests : \A k \in 1..Len(requests[i].answer) :
       requests[i].answer[k].answer \in Range(requests[i].batch)

\* A batch that found room so far is forwarded from one answer: nothing of it
\* before the answer, and nothing twice of the answer.
OneAnswer ==
  \A i \in DOMAIN requests : ~requests[i].full =>
    /\ requests[i].pc = "posting" => \A item \in forwarded : item.answer \notin Range(requests[i].batch)
    /\ requests[i].pc = "answered" => /\ IsInjective(requests[i].answer)
                                      /\ \A k \in 1..Len(requests[i].answer) : requests[i].answer[k] \notin forwarded

ForwardInv == AnswersBelong /\ OneAnswer /\ ForwardedOnce

\* A request's batch shares nothing with any other place.
LEMMA RequestTypes ==
  ASSUME OnceEach, NEW i \in DOMAIN requests
  PROVE  /\ requests[i] \in Requests /\ requests[i].batch \in Seq(Messages) /\ requests[i].answer \in Seq(Items)
         /\ IsInjective(requests[i].batch)
         /\ Range(requests[i].batch) \cap Range(batch) = {} /\ Range(requests[i].batch) \cap Range(outbound) = {}
         /\ \A j \in DOMAIN requests : i # j => Range(requests[i].batch) \cap Range(requests[j].batch) = {}
<1>1. requests \in Seq(Requests)
  BY DEF OnceEach, HTTPTypeOK
<1>2. requests[i] \in Requests
  BY <1>1
<1>3. DOMAIN Batches = DOMAIN requests /\ \A j \in DOMAIN requests : Batches[j] = requests[j].batch
  BY <1>1, BatchesAre
<1>4. Apart(Batches, batch, outbound)
  BY DEF OnceEach, BatchesApart
<1>5. QED
  BY <1>2, <1>3, <1>4 DEF Requests, Apart

\* A batch that is posted for the first time.
LEMMA NewRequest ==
  ASSUME OnceEach, ForwardInv, NEW b \in Seq(Messages), SendBatch(b), UNCHANGED <<forwarded, repeated>>,
         \A i \in DOMAIN requests : Range(requests[i].batch) \cap Range(b) = {}
  PROVE  ForwardInv'
<1>1. CASE b = <<>>
  <2>1. UNCHANGED <<requests, forwarded, repeated>>
    BY <1>1 DEF SendBatch
  <2>2. QED
    BY <2>1 DEF ForwardInv, AnswersBelong, OneAnswer, ForwardedOnce
<1>2. CASE b # <<>>
  <2>1. PICK r : r = [batch |-> b, attempt |-> 0, pc |-> "posting", answer |-> <<>>, full |-> FALSE]
    OBVIOUS
  <2>2. PICK n \in Nat : n = Len(requests) /\ DOMAIN requests = 1..n /\ requests \in Seq(Requests)
    BY DEF OnceEach, HTTPTypeOK
  <2>3. r \in Requests /\ r.batch = b /\ r.pc = "posting" /\ Len(r.answer) = 0
    <3>1. <<>> \in Seq(Items) /\ Len(<<>>) = 0
      OBVIOUS
    <3>2. QED
      BY <2>1, <3>1 DEF Requests
  <2>4. requests' = Append(requests, r)
    BY <1>2, <2>1 DEF SendBatch
  <2>5. DOMAIN requests' = 1..n+1 /\ requests'[n + 1] = r /\ \A i \in 1..n : requests'[i] = requests[i]
    BY <2>2, <2>3, <2>4
  <2>6. \A i \in 1..n+1 : i = n + 1 \/ i \in 1..n
    OBVIOUS
  <2>7. \A i \in 1..n : i \in 1..n+1
    OBVIOUS
  <2>8. \A item \in forwarded : \E i \in 1..n : item.answer \in Range(requests[i].batch)
    BY <2>2 DEF ForwardInv, AnswersBelong
  <2>9. \A item \in forwarded : item.answer \notin Range(b)
    BY <2>2, <2>8
  <2>10. AnswersBelong'
    <3>1. \A i \in 1..n : \A k \in 1..Len(requests[i].answer) : requests[i].answer[k].answer \in Range(requests[i].batch)
      BY <2>2 DEF ForwardInv, AnswersBelong
    <3>2. \A i \in 1..n+1 : \A k \in 1..Len(requests'[i].answer) : requests'[i].answer[k].answer \in Range(requests'[i].batch)
      BY <2>3, <2>5, <2>6, <3>1
    <3>3. \A item \in forwarded : \E i \in 1..n+1 : item.answer \in Range(requests'[i].batch)
      BY <2>5, <2>7, <2>8
    <3>4. repeated \subseteq forwarded
      BY DEF ForwardInv, AnswersBelong
    <3>5. QED
      BY <2>5, <3>2, <3>3, <3>4 DEF AnswersBelong
  <2>11. OneAnswer'
    <3>1. ASSUME NEW i \in 1..n+1, ~requests'[i].full
          PROVE  /\ requests'[i].pc = "posting" => \A item \in forwarded : item.answer \notin Range(requests'[i].batch)
                 /\ requests'[i].pc = "answered" =>
                      /\ IsInjective(requests'[i].answer)
                      /\ \A k \in 1..Len(requests'[i].answer) : requests'[i].answer[k] \notin forwarded
      <4>1. CASE i = n + 1
        BY <2>3, <2>5, <2>9, <4>1
      <4>2. CASE i # n + 1
        BY <2>2, <2>5, <2>6, <3>1, <4>2 DEF ForwardInv, OneAnswer
      <4>3. QED
        BY <4>1, <4>2
    <3>2. QED
      BY <2>5, <3>1 DEF OneAnswer
  <2>12. ForwardedOnce'
    <3>1. \A i \in 1..n : requests[i].full \/ \A item \in repeated : item.answer \notin Range(requests[i].batch)
      BY <2>2 DEF ForwardInv, ForwardedOnce
    <3>2. \A item \in repeated : item.answer \notin Range(b)
      BY <2>9 DEF ForwardInv, AnswersBelong
    <3>3. \A i \in 1..n+1 : requests'[i].full \/ \A item \in repeated : item.answer \notin Range(requests'[i].batch)
      BY <2>3, <2>5, <2>6, <3>1, <3>2
    <3>4. QED
      BY <2>5, <3>3 DEF ForwardedOnce
  <2>13. QED
    BY <2>10, <2>11, <2>12 DEF ForwardInv
<1>3. QED
  BY <1>1, <1>2

\* A request is posted, and answered or not.
LEMMA PostForwardInv ==
  ASSUME OnceEach, ForwardInv, NEW i \in DOMAIN requests, Post(i) PROVE ForwardInv'
<1>0. HTTPTypeOK /\ IsInjective(requests[i].batch) /\ requests[i].batch \in Seq(Messages)
  BY RequestTypes DEF OnceEach
<1>1. PICK r \in Requests :
           /\ r.batch = requests[i].batch /\ r.full = requests[i].full
           /\ requests' = [requests EXCEPT ![i] = r] /\ requests[i].pc = "posting"
           /\ \/ r.pc \in {"posting", "failed"} /\ r.answer = <<>>
              \/ r.pc = "answered" /\ r.answer = Incoming(Answers(requests[i].batch))
  BY <1>0, PostIs
<1>2. UNCHANGED <<forwarded, repeated>>
  BY DEF Post, answering
<1>3. DOMAIN requests' = DOMAIN requests /\ requests'[i] = r /\ \A j \in DOMAIN requests : j # i => requests'[j] = requests[j]
  BY <1>1
<1>4. \A j \in DOMAIN requests : requests'[j].batch = requests[j].batch /\ requests'[j].full = requests[j].full
  BY <1>1, <1>3
<1>5. \A k \in 1..Len(r.answer) : r.answer[k].answer \in Range(requests[i].batch)
  <2>1. CASE r.answer = <<>>
    BY <2>1
  <2>2. CASE r.answer = Incoming(Answers(requests[i].batch))
    BY <1>0, <2>2, IncomingIs
  <2>3. QED
    BY <1>1, <2>1, <2>2
<1>6. r.pc = "answered" => IsInjective(r.answer)
  BY <1>0, <1>1, IncomingIs
<1>7. AnswersBelong'
  <2>1. \A item \in forwarded : \E j \in DOMAIN requests : item.answer \in Range(requests'[j].batch)
    BY <1>4 DEF ForwardInv, AnswersBelong
  <2>2. \A j \in DOMAIN requests : \A k \in 1..Len(requests'[j].answer) : requests'[j].answer[k].answer \in Range(requests'[j].batch)
    BY <1>1, <1>3, <1>5 DEF ForwardInv, AnswersBelong
  <2>3. QED
    BY <1>2, <1>3, <2>1, <2>2 DEF ForwardInv, AnswersBelong
<1>8. ASSUME NEW j \in DOMAIN requests, ~requests'[j].full
      PROVE  /\ requests'[j].pc = "posting" => \A item \in forwarded : item.answer \notin Range(requests'[j].batch)
             /\ requests'[j].pc = "answered" =>
                  /\ IsInjective(requests'[j].answer)
                  /\ \A k \in 1..Len(requests'[j].answer) : requests'[j].answer[k] \notin forwarded
  <2>1. CASE j = i
    <3>1. \A item \in forwarded : item.answer \notin Range(requests[i].batch)
      BY <1>1, <1>4, <1>8, <2>1 DEF ForwardInv, OneAnswer
    <3>2. \A k \in 1..Len(r.answer) : r.answer[k] \notin forwarded
      BY <1>5, <3>1
    <3>3. QED
      BY <1>1, <1>3, <1>6, <2>1, <3>1, <3>2
  <2>2. CASE j # i
    BY <1>3, <1>8, <2>2 DEF ForwardInv, OneAnswer
  <2>3. QED
    BY <2>1, <2>2
<1>9. OneAnswer'
  BY <1>2, <1>3, <1>8 DEF OneAnswer
<1>10. ForwardedOnce'
  BY <1>2, <1>3, <1>4 DEF ForwardInv, ForwardedOnce
<1>11. QED
  BY <1>7, <1>9, <1>10 DEF ForwardInv

\* An answer's first part is forwarded, or finds the channel full.
LEMMA ForwardForwardInv ==
  ASSUME OnceEach, ForwardInv, NEW i \in DOMAIN requests, Forward(i) PROVE ForwardInv'
<1>0. HTTPTypeOK /\ requests[i].answer \in Seq(Items)
      /\ \A j \in DOMAIN requests : i # j => Range(requests[i].batch) \cap Range(requests[j].batch) = {}
  BY RequestTypes DEF OnceEach
<1>1. PICK r \in Requests :
           /\ r.batch = requests[i].batch /\ requests[i].pc = "answered"
           /\ requests' = [requests EXCEPT ![i] = r]
           /\ \/ r.pc = "done" /\ r.answer = <<>> /\ r.full = requests[i].full /\ UNCHANGED <<forwarded, repeated>>
              \/ r.full /\ r.answer = <<>> /\ UNCHANGED <<forwarded, repeated>>
              \/ /\ r.pc = "answered" /\ r.full = requests[i].full
                 /\ requests[i].answer # <<>> /\ r.answer = Tail(requests[i].answer)
                 /\ forwarded' = forwarded \cup {Head(requests[i].answer)}
                 /\ repeated' = repeated \cup (forwarded \cap {Head(requests[i].answer)})
  BY <1>0, ForwardIs
<1>2. DOMAIN requests' = DOMAIN requests /\ requests'[i] = r /\ \A j \in DOMAIN requests : j # i => requests'[j] = requests[j]
  BY <1>1
<1>3. \A j \in DOMAIN requests : requests'[j].batch = requests[j].batch
  BY <1>1, <1>2
<1>4. CASE r.answer = <<>> /\ UNCHANGED <<forwarded, repeated>> /\ (r.full \/ (r.pc = "done" /\ r.full = requests[i].full))
  <2>1. AnswersBelong'
    <3>1. \A item \in forwarded : \E j \in DOMAIN requests : item.answer \in Range(requests'[j].batch)
      BY <1>3 DEF ForwardInv, AnswersBelong
    <3>2. \A j \in DOMAIN requests : \A k \in 1..Len(requests'[j].answer) : requests'[j].answer[k].answer \in Range(requests'[j].batch)
      BY <1>2, <1>4 DEF ForwardInv, AnswersBelong
    <3>3. QED
      BY <1>2, <1>4, <3>1, <3>2 DEF ForwardInv, AnswersBelong
  <2>2. OneAnswer'
    BY <1>2, <1>4 DEF ForwardInv, OneAnswer
  <2>3. ForwardedOnce'
    BY <1>2, <1>3, <1>4 DEF ForwardInv, ForwardedOnce
  <2>4. QED
    BY <2>1, <2>2, <2>3 DEF ForwardInv
<1>5. CASE /\ r.pc = "answered" /\ r.full = requests[i].full
           /\ requests[i].answer # <<>> /\ r.answer = Tail(requests[i].answer)
           /\ forwarded' = forwarded \cup {Head(requests[i].answer)}
           /\ repeated' = repeated \cup (forwarded \cap {Head(requests[i].answer)})
  <2>0. PICK h : h = Head(requests[i].answer)
    OBVIOUS
  <2>1. PICK a \in Seq(Items), t \in Seq(Items) : a = requests[i].answer /\ t = Tail(a) /\ a # <<>> /\ h = Head(a)
    BY <1>0, <1>5, <2>0, HeadTailProperties
  <2>2. PICK n \in Nat : n + 1 = Len(a)
    <3>1. Len(a) \in Nat \ {0}
      BY <2>1, EmptySeq
    <3>2. Len(a) - 1 \in Nat /\ (Len(a) - 1) + 1 = Len(a)
      BY <3>1
    <3>3. QED
      BY <3>2
  <2>3. Len(t) = n /\ DOMAIN t = 1..n /\ DOMAIN a = 1..n+1 /\ h = a[1] /\ \A k \in 1..n : t[k] = a[k + 1]
    BY <2>1, <2>2
  <2>4. 1 \in 1..n+1 /\ \A k, l \in 1..n : k + 1 \in 1..n+1 /\ k + 1 # 1 /\ (k + 1 = l + 1 => k = l)
    OBVIOUS
  <2>5. \A k \in 1..n+1 : a[k].answer \in Range(requests[i].batch)
    BY <2>1, <2>2 DEF ForwardInv, AnswersBelong
  <2>6. h.answer \in Range(requests[i].batch) /\ \A k \in 1..n : t[k].answer \in Range(requests[i].batch)
    BY <2>3, <2>4, <2>5
  <2>7. requests'[i].answer = t /\ requests'[i].pc = "answered" /\ requests'[i].full = requests[i].full
    BY <1>2, <1>5, <2>1
  <2>8. forwarded' = forwarded \cup {h} /\ repeated' = repeated \cup (forwarded \cap {h})
    BY <1>5, <2>1
  <2>9. \A j \in DOMAIN requests : j # i => h.answer \notin Range(requests[j].batch)
    BY <1>0, <2>6
  <2>10. AnswersBelong'
    <3>1. \A item \in forwarded' : \E j \in DOMAIN requests : item.answer \in Range(requests'[j].batch)
      BY <1>3, <2>6, <2>8 DEF ForwardInv, AnswersBelong
    <3>2. \A j \in DOMAIN requests : \A k \in 1..Len(requests'[j].answer) : requests'[j].answer[k].answer \in Range(requests'[j].batch)
      <4> TAKE j \in DOMAIN requests
      <4>1. CASE j = i
        BY <1>3, <2>3, <2>6, <2>7, <4>1
      <4>2. CASE j # i
        BY <1>2, <4>2 DEF ForwardInv, AnswersBelong
      <4>3. QED
        BY <4>1, <4>2
    <3>3. repeated' \subseteq forwarded'
      BY <2>8 DEF ForwardInv, AnswersBelong
    <3>4. QED
      BY <1>2, <3>1, <3>2, <3>3 DEF AnswersBelong
  <2>11. ~requests[i].full => /\ IsInjective(a) /\ \A k \in 1..n+1 : a[k] \notin forwarded
    BY <1>1, <2>1, <2>2 DEF ForwardInv, OneAnswer
  <2>12. ~requests[i].full => /\ IsInjective(t) /\ \A k \in 1..n : t[k] \notin forwarded'
    <3> HAVE ~requests[i].full
    <3>1. \A k, l \in 1..n+1 : a[k] = a[l] => k = l
      BY <2>3, <2>11 DEF IsInjective
    <3>2. \A k, l \in 1..n : t[k] = t[l] => k = l
      <4> TAKE k, l \in 1..n
      <4>1. t[k] = a[k + 1] /\ t[l] = a[l + 1]
        BY <2>3
      <4>2. a[k + 1] = a[l + 1] => k + 1 = l + 1
        BY <2>4, <3>1
      <4>3. QED
        BY <2>4, <4>1, <4>2
    <3>3. \A k \in 1..n : t[k] # h /\ t[k] \notin forwarded
      BY <2>3, <2>4, <2>11, <3>1
    <3>4. QED
      BY <2>3, <2>8, <3>2, <3>3 DEF IsInjective
  <2>13. OneAnswer'
    <3>1. ASSUME NEW j \in DOMAIN requests, ~requests'[j].full
          PROVE  /\ requests'[j].pc = "posting" => \A item \in forwarded' : item.answer \notin Range(requests'[j].batch)
                 /\ requests'[j].pc = "answered" =>
                      /\ IsInjective(requests'[j].answer)
                      /\ \A k \in 1..Len(requests'[j].answer) : requests'[j].answer[k] \notin forwarded'
      <4>1. CASE j = i
        BY <2>3, <2>7, <2>12, <3>1, <4>1
      <4>2. CASE j # i
        <5>1. requests'[j] = requests[j] /\ ~requests[j].full
          BY <1>2, <3>1, <4>2
        <5>2. \A k \in 1..Len(requests[j].answer) : requests[j].answer[k] # h
          BY <2>9, <4>2 DEF ForwardInv, AnswersBelong
        <5>3. QED
          BY <2>8, <2>9, <4>2, <5>1, <5>2 DEF ForwardInv, OneAnswer
      <4>3. QED
        BY <4>1, <4>2
    <3>2. QED
      BY <1>2, <3>1 DEF OneAnswer
  <2>14. ForwardedOnce'
    <3>1. ASSUME NEW j \in DOMAIN requests, ~requests'[j].full, NEW item \in repeated'
          PROVE  item.answer \notin Range(requests'[j].batch)
      <4>1. CASE j = i
        <5>1. ~requests[i].full /\ h \notin forwarded
          BY <2>3, <2>4, <2>7, <2>11, <3>1, <4>1
        <5>2. item \in repeated
          BY <2>8, <3>1, <5>1
        <5>3. QED
          BY <1>3, <4>1, <5>1, <5>2 DEF ForwardInv, ForwardedOnce
      <4>2. CASE j # i
        <5>1. item \in repeated \/ item = h
          BY <2>8
        <5>2. ~requests[j].full
          BY <1>2, <3>1, <4>2
        <5>3. QED
          BY <1>3, <2>9, <4>2, <5>1, <5>2 DEF ForwardInv, ForwardedOnce
      <4>3. QED
        BY <4>1, <4>2
    <3>2. QED
      BY <1>2, <3>1 DEF ForwardedOnce
  <2>15. QED
    BY <2>10, <2>13, <2>14 DEF ForwardInv
<1>6. QED
  BY <1>1, <1>4, <1>5

\* Every step keeps what is said of the answers.
LEMMA ForwardInvNext ==
  ASSUME OnceEach, ForwardInv, [HTTPNext]_httpVars PROVE ForwardInv'
<1>1. CASE UNCHANGED <<requests, forwarded, repeated>>
  BY <1>1 DEF ForwardInv, AnswersBelong, OneAnswer, ForwardedOnce
<1>2. CASE SendBatch(batch) /\ UNCHANGED <<forwarded, repeated>>
  <2>1. batch \in Seq(Messages)
    BY DEF OnceEach, HTTPTypeOK
  <2>2. \A i \in DOMAIN requests : Range(requests[i].batch) \cap Range(batch) = {}
    BY RequestTypes
  <2>3. QED
    BY <1>2, <2>1, <2>2, NewRequest
<1>3. CASE Gather
  <2>1. batch \in Seq(Messages) /\ outbound \in Seq(Messages) /\ outbound # <<>> /\ UNCHANGED <<forwarded, repeated>>
    BY <1>3 DEF OnceEach, HTTPTypeOK, Gather, answering
  <2>2. PICK bs, c : bs = Batches /\ c = Append(batch, Head(outbound))
    OBVIOUS
  <2>3. Apart(bs, batch, outbound)
    BY <2>2 DEF OnceEach, BatchesApart
  <2>4. PICK b \in Seq(Messages), o \in Seq(Messages) : b = batch /\ o = outbound
    BY <2>1
  <2>5. o # <<>> /\ Apart(bs, b, o)
    BY <2>1, <2>3, <2>4
  <2>6. Append(b, Head(o)) \in Seq(Messages) /\ Apart(bs, Append(b, Head(o)), Tail(o))
    BY ONLY <2>5, b \in Seq(Messages), o \in Seq(Messages), ApartGather, Zenon
  <2>7. c \in Seq(Messages) /\ \A i \in DOMAIN bs : Range(bs[i]) \cap Range(c) = {}
    BY <2>2, <2>4, <2>6 DEF Apart
  <2>8. \A i \in DOMAIN requests : Range(requests[i].batch) \cap Range(c) = {}
    BY <2>2, <2>7, BatchesAre DEF OnceEach, HTTPTypeOK
  <2>9. CASE SendBatch(c)
    BY <2>1, <2>7, <2>8, <2>9, NewRequest
  <2>10. QED
    BY <1>1, <1>3, <2>1, <2>2, <2>9 DEF Gather
<1>4. CASE HTTPNext
  <2>1. ASSUME NEW m \in Messages, HTTPSendChecks(m) \/ HTTPSendQueues(m) PROVE ForwardInv'
    BY <1>1, <2>1 DEF HTTPSendChecks, HTTPSendQueues, answering
  <2>2. CASE TimerFires \/ ReceiveHTTP
    BY <1>1, <2>2 DEF TimerFires, ReceiveHTTP, answering
  <2>3. CASE CloseHTTP \/ ProcessorEnds \/ TimerSends
    BY <1>2, <2>3 DEF CloseHTTP, ProcessorEnds, TimerSends, answering
  <2>4. ASSUME NEW i \in DOMAIN requests, Post(i) \/ Forward(i) PROVE ForwardInv'
    BY <2>4, PostForwardInv, ForwardForwardInv
  <2>5. QED
    BY <1>3, <1>4, <2>1, <2>2, <2>3, <2>4 DEF HTTPNext
<1>5. QED
  BY <1>1, <1>4 DEF httpVars, answering

\* An answer's parts reach the session once each, retries or not, unless the inbound
\* channel ran full while they were forwarded (http_transport.go:247-295, 347-373).
THEOREM AnswersForwardedOnce == HTTPSpec => []ForwardedOnce
<1>1. HTTPInit => OnceEach /\ ForwardInv
  <2>1. HTTPInit => ForwardInv
    BY DEF HTTPInit, ForwardInv, AnswersBelong, OneAnswer, ForwardedOnce
  <2>2. QED
    BY <2>1, OnceEachInit
<1>2. OnceEach /\ ForwardInv /\ [HTTPNext]_httpVars => OnceEach' /\ ForwardInv'
  <2>1. OnceEach /\ [HTTPNext]_httpVars => OnceEach'
    BY OnceEachNext, OnceEachUnchanged
  <2>2. QED
    BY <2>1, ForwardInvNext
<1>3. ForwardInv => ForwardedOnce
  BY DEF ForwardInv
<1>4. QED
  BY <1>1, <1>2, <1>3, PTL DEF HTTPSpec

-----------------------------------------------------------------------------
(***************************************************************************)
(* InProcess. The order is that of one sequence per direction, from what   *)
(* was delivered over the receive channel and the forwarder's hand to the  *)
(* send channel: steps move messages inside it, or add to its end, or      *)
(* drop one. Messages are told apart by the calls of Send, so that the     *)
(* property's places are those of InOrder.                                 *)
(***************************************************************************)

\* Every element of q is one of a, and wherever two are in a, they are in the order of q.
InOrder(q, a) ==
  /\ \A i \in 1..Len(q) : \E x \in 1..Len(a) : a[x] = q[i]
  /\ \A i, j \in 1..Len(q), x, y \in 1..Len(a) : i < j /\ a[x] = q[i] /\ a[y] = q[j] => x < y

Passed(e) == delivered[Peer(e)] \o end[Peer(e)].receiveCh \o forwarder[e].message \o end[e].sendCh

PairTyped ==
  /\ end \in [Ends -> [closed : BOOLEAN, close : {"new", "waiting", "returned"},
                       sendCh : Seq(PairSends), receiveCh : Seq(PairSends)]]
  /\ forwarder \in [Ends -> [pc : {"select", "look", "put", "gone"}, message : Seq(PairSends)]]
  /\ pairSend \in [PairSends -> {"new", "holding", "sent", "refused"}]
  /\ accepted \in [Ends -> Seq(PairSends)]
  /\ delivered \in [Ends -> Seq(PairSends)]

\* The forwarder has a message between its select and its put, and none else.
OneInHand ==
  \A e \in Ends : IF forwarder[e].pc \in {"look", "put"} THEN Len(forwarder[e].message) = 1
                  ELSE forwarder[e].message = <<>>

\* What an end accepted was sent, each by a call of its own.
AcceptedSent == \A e \in Ends : \A i \in 1..Len(accepted[e]) : pairSend[accepted[e][i]] = "sent"

\* The way from e, in order and with nothing lost unless somebody closed or the peer may be full.
Way(e) ==
  /\ InOrder(Passed(e), accepted[e])
  /\ ~end[e].closed /\ ~end[Peer(e)].closed /\ Len(accepted[e]) <= PairReceiveSize => Passed(e) = accepted[e]

PairInv == PairTyped /\ OneInHand /\ AcceptedSent /\ \A e \in Ends : Way(e)

\* There are two ends, each the other's peer.
LEMMA PeerIs ==
  ASSUME NEW e \in Ends
  PROVE  Peer(e) \in Ends /\ Peer(e) # e /\ \A f \in Ends \ {e} : f = Peer(e) /\ Peer(f) = e
<1>1. PICK a, b \in Ends : a # b /\ Ends = {a, b}
  BY InProcessAssumption
<1>2. \A f \in Ends : Peer(f) \in Ends /\ Peer(f) # f
  <2> TAKE f \in Ends
  <2>1. \E g \in Ends : g # f
    BY <1>1
  <2>2. QED
    BY <2>1 DEF Peer
<1>3. QED
  BY <1>1, <1>2

\* What is in order has growing places among what was accepted.
LEMMA InOrderPlaces ==
  ASSUME NEW q \in Seq(PairSends), NEW a \in Seq(PairSends), InOrder(q, a), NEW i \in DOMAIN q, NEW j \in DOMAIN q, i < j
  PROVE  (CHOOSE x \in DOMAIN a : a[x] = q[i]) < (CHOOSE x \in DOMAIN a : a[x] = q[j])
<1>1. i \in 1..Len(q) /\ j \in 1..Len(q) /\ DOMAIN a = 1..Len(a)
  OBVIOUS
<1>2. /\ \E x \in DOMAIN a : a[x] = q[i]
      /\ \E x \in DOMAIN a : a[x] = q[j]
  BY <1>1 DEF InOrder
<1>3. PICK x : x = CHOOSE xx \in DOMAIN a : a[xx] = q[i]
  OBVIOUS
<1>4. PICK y : y = CHOOSE yy \in DOMAIN a : a[yy] = q[j]
  OBVIOUS
<1>5. x \in DOMAIN a /\ a[x] = q[i] /\ y \in DOMAIN a /\ a[y] = q[j]
  BY <1>2, <1>3, <1>4
<1>6. x < y
  BY <1>1, <1>5 DEF InOrder
<1>7. QED
  BY <1>3, <1>4, <1>6

\* Dropping the middle of a sequence keeps the rest in order.
LEMMA InOrderDrop ==
  ASSUME NEW X \in Seq(PairSends), NEW M \in Seq(PairSends), NEW S \in Seq(PairSends), NEW a \in Seq(PairSends),
         InOrder((X \o M) \o S, a)
  PROVE  InOrder(X \o S, a)
<1> DEFINE q == (X \o M) \o S
           r == X \o S
           back(i) == IF i <= Len(X) THEN i ELSE i + Len(M)
<1>1. X \o M \in Seq(PairSends) /\ Len(X \o M) = Len(X) + Len(M)
      /\ Len(X) \in Nat /\ Len(M) \in Nat /\ Len(S) \in Nat /\ Len(a) \in Nat
  BY ConcatProperties
<1>2. \A i \in 1..(Len(X) + Len(M)) : (X \o M)[i] = IF i <= Len(X) THEN X[i] ELSE M[i - Len(X)]
  BY ConcatProperties
<1>3. Len(q) = (Len(X) + Len(M)) + Len(S) /\ Len(r) = Len(X) + Len(S)
  BY <1>1, ConcatProperties
<1>4. \A i \in 1..((Len(X) + Len(M)) + Len(S)) :
        q[i] = IF i <= Len(X) + Len(M) THEN (X \o M)[i] ELSE S[i - (Len(X) + Len(M))]
  BY <1>1, ConcatProperties
<1>5. \A i \in 1..(Len(X) + Len(S)) : r[i] = IF i <= Len(X) THEN X[i] ELSE S[i - Len(X)]
  BY ConcatProperties
<1>6. InOrder(q, a)
  OBVIOUS
<1> HIDE DEF q, r
<1>7. ASSUME NEW i \in 1..Len(r) PROVE back(i) \in 1..Len(q) /\ q[back(i)] = r[i]
  <2>1. i \in Int /\ 1 <= i /\ i <= Len(X) + Len(S)
    BY <1>1, <1>3
  <2>2. CASE i <= Len(X)
    <3>1. back(i) = i /\ i \in 1..(Len(X) + Len(M)) /\ i \in 1..((Len(X) + Len(M)) + Len(S)) /\ i <= Len(X) + Len(M)
          /\ i \in 1..(Len(X) + Len(S))
      BY <1>1, <2>1, <2>2
    <3>2. QED
      BY <1>2, <1>3, <1>4, <1>5, <2>2, <3>1
  <2>3. CASE ~(i <= Len(X))
    <3>1. /\ back(i) = i + Len(M) /\ i + Len(M) \in 1..((Len(X) + Len(M)) + Len(S)) /\ ~(i + Len(M) <= Len(X) + Len(M))
          /\ (i + Len(M)) - (Len(X) + Len(M)) = i - Len(X) /\ i \in 1..(Len(X) + Len(S))
      BY <1>1, <2>1, <2>3
    <3>2. q[i + Len(M)] = S[i - Len(X)]
      BY <1>4, <3>1
    <3>3. QED
      BY <1>3, <1>5, <2>3, <3>1, <3>2
  <2>4. QED
    BY <2>2, <2>3
<1>8. \A i, j \in 1..Len(r) : i < j => back(i) < back(j)
  BY <1>1, <1>3
<1> HIDE DEF back
<1>9. \A i \in 1..Len(r) : \E x \in 1..Len(a) : a[x] = r[i]
  BY <1>6, <1>7 DEF InOrder
<1>10. ASSUME NEW i \in 1..Len(r), NEW j \in 1..Len(r), NEW x \in 1..Len(a), NEW y \in 1..Len(a),
              i < j, a[x] = r[i], a[y] = r[j]
       PROVE  x < y
  <2>1. back(i) < back(j) /\ back(i) \in 1..Len(q) /\ back(j) \in 1..Len(q) /\ a[x] = q[back(i)] /\ a[y] = q[back(j)]
    BY <1>7, <1>8, <1>10
  <2>2. QED
    BY <1>6, <2>1 DEF InOrder
<1>11. InOrder(r, a)
  BY <1>9, <1>10 DEF InOrder
<1>12. QED
  BY <1>11 DEF r

\* What is accepted last passes last.
LEMMA InOrderAppend ==
  ASSUME NEW q \in Seq(PairSends), NEW a \in Seq(PairSends), NEW s \in PairSends, InOrder(q, a),
         \A i \in 1..Len(a) : a[i] # s
  PROVE  InOrder(Append(q, s), Append(a, s))
<1> DEFINE r == Append(q, s)
           b == Append(a, s)
<1>1. /\ Len(r) = Len(q) + 1 /\ Len(q) \in Nat /\ r[Len(q) + 1] = s
      /\ \A i \in 1..Len(q) : r[i] = q[i]
  BY AppendProperties
<1>2. /\ Len(b) = Len(a) + 1 /\ Len(a) \in Nat /\ b[Len(a) + 1] = s
      /\ \A i \in 1..Len(a) : b[i] = a[i]
  BY AppendProperties
<1> HIDE DEF r, b
<1>3. \A i \in 1..Len(r) : i \in 1..Len(q) \/ i = Len(q) + 1
  BY <1>1
<1>4. \A x \in 1..Len(b) : x \in 1..Len(a) \/ x = Len(a) + 1
  BY <1>2
<1>5. ASSUME NEW i \in 1..Len(r) PROVE \E x \in 1..Len(b) : b[x] = r[i]
  <2>1. CASE i \in 1..Len(q)
    <3>1. PICK x \in 1..Len(a) : a[x] = q[i]
      BY <2>1 DEF InOrder
    <3>2. x \in 1..Len(b) /\ b[x] = r[i]
      BY <1>1, <1>2, <2>1, <3>1
    <3>3. QED
      BY <3>2
  <2>2. CASE i = Len(q) + 1
    <3>1. Len(a) + 1 \in 1..Len(b) /\ b[Len(a) + 1] = r[i]
      BY <1>1, <1>2, <2>2
    <3>2. QED
      BY <3>1
  <2>3. QED
    BY <1>3, <2>1, <2>2
<1>6. ASSUME NEW i \in 1..Len(r), NEW j \in 1..Len(r), NEW x \in 1..Len(b), NEW y \in 1..Len(b),
              i < j, b[x] = r[i], b[y] = r[j]
       PROVE  x < y
  <2>1. i \in 1..Len(q)
    BY <1>1, <1>3, <1>6
  <2>2. PICK z \in 1..Len(a) : a[z] = q[i]
    BY <2>1 DEF InOrder
  <2>3. r[i] # s
    BY <1>1, <2>1, <2>2
  <2>4. x \in 1..Len(a) /\ a[x] = q[i]
    BY <1>1, <1>2, <1>4, <1>6, <2>1, <2>3
  <2>5. CASE j \in 1..Len(q)
    <3>1. PICK w \in 1..Len(a) : a[w] = q[j]
      BY <2>5 DEF InOrder
    <3>2. y \in 1..Len(a) /\ a[y] = q[j]
      BY <1>1, <1>2, <1>4, <1>6, <2>5, <3>1
    <3>3. QED
      BY <1>6, <2>1, <2>4, <2>5, <3>2 DEF InOrder
  <2>6. CASE j = Len(q) + 1
    <3>1. b[y] = s
      BY <1>1, <1>6, <2>6
    <3>2. y = Len(a) + 1
      BY <1>2, <1>4, <3>1
    <3>3. QED
      BY <1>2, <2>4, <3>2
  <2>7. QED
    BY <1>3, <2>5, <2>6
<1>7. QED
  BY <1>5, <1>6 DEF InOrder, r, b

\* The invariant says what the property says.
LEMMA PairInvInOrder == PairInv => PairInOrder
<1> SUFFICES ASSUME PairInv, NEW e \in Ends
             PROVE  /\ \A i, j \in DOMAIN Passed(e) : i < j =>
                         (CHOOSE x \in DOMAIN accepted[e] : accepted[e][x] = Passed(e)[i])
                           < (CHOOSE x \in DOMAIN accepted[e] : accepted[e][x] = Passed(e)[j])
                    /\ ~end[e].closed /\ ~end[Peer(e)].closed /\ Len(accepted[e]) <= PairReceiveSize
                         => Passed(e) = accepted[e]
  BY DEF PairInOrder, Passed
<1>1. Way(e) /\ accepted[e] \in Seq(PairSends)
  BY DEF PairInv, PairTyped
<1>2. Passed(e) \in Seq(PairSends)
  <2>1. Peer(e) \in Ends
    BY PeerIs
  <2>2. /\ delivered[Peer(e)] \in Seq(PairSends) /\ end[Peer(e)].receiveCh \in Seq(PairSends)
        /\ forwarder[e].message \in Seq(PairSends) /\ end[e].sendCh \in Seq(PairSends)
    BY <2>1 DEF PairInv, PairTyped
  <2>3. QED
    BY <2>2, ConcatProperties DEF Passed
<1>3. QED
  BY <1>1, <1>2, InOrderPlaces, SMTT(40) DEF Way

-----------------------------------------------------------------------------
(* How a sequence of four parts moves.                                     *)

\* The oldest message goes from one sequence to the end of the one before it ...
LEMMA HeadMoves ==
  ASSUME NEW S, NEW D \in Seq(S), NEW R \in Seq(S), R # <<>>
  PROVE  /\ Append(D, Head(R)) \o Tail(R) = D \o R
         /\ <<Head(R)>> \o Tail(R) = R
         /\ Head(R) \in S /\ Tail(R) \in Seq(S)
<1> DEFINE A == Append(D, Head(R))
<1>1. /\ Head(R) \in S /\ Tail(R) \in Seq(S) /\ Len(Tail(R)) = Len(R) - 1 /\ Len(R) \in Nat /\ Len(R) # 0
      /\ \A i \in 1..Len(Tail(R)) : Tail(R)[i] = R[i + 1]
      /\ Head(R) = R[1]
  BY HeadTailProperties
<1>2. /\ A \in Seq(S) /\ Len(A) = Len(D) + 1 /\ Len(D) \in Nat
      /\ \A i \in 1..Len(D) : A[i] = D[i]
      /\ A[Len(D) + 1] = R[1]
  BY <1>1, AppendProperties
<1> HIDE DEF A
<1>3. \A X \in Seq(S), Y \in Seq(S) :
        /\ X \o Y \in Seq(S) /\ Len(X \o Y) = Len(X) + Len(Y)
        /\ \A i \in 1..(Len(X) + Len(Y)) : (X \o Y)[i] = IF i <= Len(X) THEN X[i] ELSE Y[i - Len(X)]
  BY ConcatProperties
<1>4. A \o Tail(R) = D \o R
  <2> DEFINE P == A \o Tail(R)
             Q == D \o R
  <2>1. /\ P \in Seq(S) /\ Len(P) = Len(D) + Len(R) /\ Q \in Seq(S) /\ Len(Q) = Len(D) + Len(R)
        /\ \A i \in 1..(Len(D) + Len(R)) : P[i] = IF i <= Len(D) + 1 THEN A[i] ELSE Tail(R)[i - (Len(D) + 1)]
        /\ \A i \in 1..(Len(D) + Len(R)) : Q[i] = IF i <= Len(D) THEN D[i] ELSE R[i - Len(D)]
    <3>1. /\ P \in Seq(S) /\ Len(P) = Len(A) + Len(Tail(R))
          /\ \A i \in 1..(Len(A) + Len(Tail(R))) : P[i] = IF i <= Len(A) THEN A[i] ELSE Tail(R)[i - Len(A)]
      BY <1>1, <1>2, <1>3
    <3>2. Len(A) + Len(Tail(R)) = Len(D) + Len(R)
      BY <1>1, <1>2
    <3>3. QED
      BY <1>2, <1>3, <3>1, <3>2
  <2> HIDE DEF P, Q
  <2>2. ASSUME NEW i \in 1..(Len(D) + Len(R)) PROVE P[i] = Q[i]
    <3>0. i \in Int /\ 1 <= i /\ i <= Len(D) + Len(R)
      BY <1>1, <1>2
    <3>1. CASE i <= Len(D)
      <4>1. i \in 1..Len(D) /\ i <= Len(D) + 1
        BY <1>2, <3>0, <3>1
      <4>2. QED
        BY <1>2, <2>1, <3>1, <4>1
    <3>2. CASE i = Len(D) + 1
      <4>1. ~(i <= Len(D)) /\ i - Len(D) = 1 /\ i <= Len(D) + 1
        BY <1>2, <3>2
      <4>2. QED
        BY <1>2, <2>1, <3>2, <4>1
    <3>3. CASE i > Len(D) + 1
      <4>1. /\ ~(i <= Len(D)) /\ ~(i <= Len(D) + 1) /\ i - (Len(D) + 1) \in 1..Len(Tail(R))
            /\ (i - (Len(D) + 1)) + 1 = i - Len(D)
        BY <1>1, <1>2, <3>0, <3>3
      <4>2. P[i] = Tail(R)[i - (Len(D) + 1)] /\ Q[i] = R[i - Len(D)]
        BY <2>1, <4>1
      <4>3. Tail(R)[i - (Len(D) + 1)] = R[(i - (Len(D) + 1)) + 1]
        BY <1>1, <4>1
      <4>4. QED
        BY <4>1, <4>2, <4>3
    <3>4. QED
      BY <1>2, <3>0, <3>1, <3>2, <3>3
  <2>3. P = Q
    BY <2>1, <2>2, SeqEqual
  <2>4. QED
    BY <2>3 DEF P, Q
<1>5. <<Head(R)>> \o Tail(R) = R
  <2>1. R = SubSeq(R, 1, Len(R)) /\ Tail(R) = SubSeq(R, 2, Len(R))
    BY SubSeqFull, TailIsSubSeq
  <2>2. 1 \in 1..Len(R) /\ Len(R) \in 1..Len(R)
    BY <1>1
  <2>3. SubSeq(R, 1, Len(R)) = <<R[1]>> \o SubSeq(R, 1 + 1, Len(R))
    BY <2>2, SubSeqRecursiveFirst
  <2>4. QED
    BY <1>1, <2>1, <2>3
<1>6. QED
  BY <1>1, <1>4, <1>5 DEF A

\* ... a new one to the end of the last ...
LEMMA LastMoves ==
  ASSUME NEW S, NEW X \in Seq(S), NEW M \in Seq(S), NEW T \in Seq(S), NEW s \in S
  PROVE  (X \o M) \o Append(T, s) = Append((X \o M) \o T, s)
<1>1. X \o M \in Seq(S) /\ <<s>> \in Seq(S)
  BY ConcatProperties
<1>2. (X \o M) \o T \in Seq(S)
  BY <1>1, ConcatProperties
<1>3. Append(T, s) = T \o <<s>> /\ Append((X \o M) \o T, s) = ((X \o M) \o T) \o <<s>>
  BY <1>2, AppendIsConcat
<1>4. ((X \o M) \o T) \o <<s>> = (X \o M) \o (T \o <<s>>)
  BY <1>1, ConcatAssociative, SMTT(40)
<1>5. QED
  BY <1>3, <1>4

\* ... and the forwarder's to the end of the receive channel: what passed is the same.
LEMMA MiddleMoves ==
  ASSUME NEW S, NEW D \in Seq(S), NEW R \in Seq(S), NEW M \in Seq(S), NEW T \in Seq(S)
  PROVE  ((D \o (R \o M)) \o <<>>) \o T = ((D \o R) \o M) \o T
<1>1. D \o R \in Seq(S) /\ R \o M \in Seq(S)
  BY ConcatProperties
<1>2. (D \o R) \o M = D \o (R \o M) /\ D \o (R \o M) \in Seq(S)
  BY <1>1, ConcatAssociative, ConcatProperties
<1>3. (D \o (R \o M)) \o <<>> = D \o (R \o M)
  BY <1>2, ConcatEmptySeq
<1>4. QED
  BY <1>2, <1>3

-----------------------------------------------------------------------------
EndStates == [closed : BOOLEAN, close : {"new", "waiting", "returned"}, sendCh : Seq(PairSends), receiveCh : Seq(PairSends)]
Forwarders == [pc : {"select", "look", "put", "gone"}, message : Seq(PairSends)]

\* One end changes, and stays closed if it was.
LEMMA EndMoves ==
  ASSUME PairTyped, NEW e \in Ends, NEW f \in EndStates, end' = [end EXCEPT ![e] = f], end[e].closed => f.closed
  PROVE  /\ end' \in [Ends -> EndStates] /\ end'[e] = f
         /\ \A g \in Ends \ {e} : end'[g] = end[g]
         /\ \A g \in Ends : ~end'[g].closed => ~end[g].closed
BY DEF PairTyped, EndStates

\* One forwarder changes.
LEMMA ForwarderMoves ==
  ASSUME PairTyped, NEW e \in Ends, NEW f \in Forwarders, forwarder' = [forwarder EXCEPT ![e] = f]
  PROVE  /\ forwarder' \in [Ends -> Forwarders] /\ forwarder'[e] = f
         /\ \A g \in Ends \ {e} : forwarder'[g] = forwarder[g]
BY DEF PairTyped, Forwarders

\* What passed from an end stays as it is.
LEMMA WayKept ==
  ASSUME NEW e \in Ends, Way(e), Passed(e)' = Passed(e), accepted'[e] = accepted[e],
         \A g \in Ends : ~end'[g].closed => ~end[g].closed
  PROVE  Way(e)'
<1>1. Peer(e) \in Ends /\ Peer(e)' = Peer(e)
  BY PeerIs DEF Peer
<1>2. QED
  BY <1>1 DEF Way

\* The sequences a way is made of.
LEMMA PartsTyped ==
  ASSUME PairTyped, NEW e \in Ends
  PROVE  /\ end[e] \in EndStates /\ forwarder[e] \in Forwarders
         /\ end[e].sendCh \in Seq(PairSends) /\ end[e].receiveCh \in Seq(PairSends)
         /\ forwarder[e].message \in Seq(PairSends) /\ accepted[e] \in Seq(PairSends) /\ delivered[e] \in Seq(PairSends)
BY DEF PairTyped, EndStates, Forwarders

\* Both channels of both ends are empty.
LEMMA PairInvInit == PairInit => PairInv
<1> SUFFICES ASSUME PairInit PROVE PairInv
  OBVIOUS
<1>1. PairTyped
  BY DEF PairInit, PairTyped
<1>2. OneInHand /\ AcceptedSent
  BY DEF PairInit, OneInHand, AcceptedSent
<1>3. ASSUME NEW e \in Ends PROVE Way(e)
  <2>1. Peer(e) \in Ends
    BY PeerIs
  <2>2. Passed(e) = <<>> /\ accepted[e] = <<>>
    <3>1. Passed(e) = <<>> \o <<>> \o <<>> \o <<>>
      BY <2>1 DEF PairInit, Passed
    <3>2. <<>> \in Seq(PairSends) /\ <<>> \o <<>> = <<>>
      BY ConcatEmptySeq
    <3>3. QED
      BY <3>1, <3>2 DEF PairInit
  <2>3. InOrder(<<>>, <<>>)
    BY DEF InOrder
  <2>4. QED
    BY <2>2, <2>3 DEF Way
<1>4. QED
  BY <1>1, <1>2, <1>3 DEF PairInv

\* A call of Send begins or gives up.
LEMMA CallKeeps ==
  ASSUME PairInv, NEW s \in PairSends, NEW v \in {"new", "holding", "sent", "refused"}, pairSend[s] # "sent",
         pairSend' = [pairSend EXCEPT ![s] = v], UNCHANGED <<end, forwarder, accepted, delivered>>
  PROVE  PairInv'
<1>1. PairTyped' /\ OneInHand'
  BY DEF PairInv, PairTyped, OneInHand
<1>2. AcceptedSent'
  <2>1. ASSUME NEW e \in Ends, NEW i \in 1..Len(accepted[e]) PROVE pairSend'[accepted[e][i]] = "sent"
    <3>1. accepted[e][i] \in PairSends /\ pairSend[accepted[e][i]] = "sent"
      BY DEF PairInv, PairTyped, AcceptedSent
    <3>2. QED
      BY <3>1 DEF PairInv, PairTyped
  <2>2. QED
    BY <2>1 DEF AcceptedSent
<1>3. \A e \in Ends : Way(e)'
  <2> TAKE e \in Ends
  <2>1. Passed(e)' = Passed(e)
    BY DEF Passed, Peer
  <2>2. QED
    BY <2>1, WayKept DEF PairInv
<1>4. QED
  BY <1>1, <1>2, <1>3 DEF PairInv

\* An accepted message passes last.
LEMMA QueuesKeeps == ASSUME PairInv, NEW s \in PairSends, PairSendQueues(s) PROVE PairInv'
<1>0. PICK e \in Ends : e = EndOf[s]
  BY InProcessAssumption
<1> DEFINE f == [end[e] EXCEPT !.sendCh = Append(@, s)]
<1>1. /\ pairSend[s] = "holding" /\ pairSend' = [pairSend EXCEPT ![s] = "sent"]
      /\ end' = [end EXCEPT ![e] = f] /\ accepted' = [accepted EXCEPT ![e] = Append(@, s)]
      /\ UNCHANGED <<forwarder, delivered>>
  BY <1>0 DEF PairSendQueues
<1>2. PairTyped /\ end[e] \in EndStates /\ end[e].sendCh \in Seq(PairSends) /\ accepted[e] \in Seq(PairSends)
  BY PartsTyped DEF PairInv
<1>3. Append(end[e].sendCh, s) \in Seq(PairSends) /\ Append(accepted[e], s) \in Seq(PairSends)
  BY <1>2, AppendProperties
<1>4. /\ f \in EndStates /\ f.closed = end[e].closed /\ f.sendCh = Append(end[e].sendCh, s)
      /\ f.receiveCh = end[e].receiveCh
  BY <1>2, <1>3 DEF EndStates
<1> HIDE DEF f
<1>5. /\ end' \in [Ends -> EndStates] /\ end'[e] = f
      /\ \A g \in Ends \ {e} : end'[g] = end[g]
      /\ \A g \in Ends : ~end'[g].closed => ~end[g].closed
  BY <1>1, <1>2, <1>4, EndMoves
<1>6. /\ accepted' \in [Ends -> Seq(PairSends)] /\ accepted'[e] = Append(accepted[e], s)
      /\ \A g \in Ends \ {e} : accepted'[g] = accepted[g]
  BY <1>1, <1>2, <1>3 DEF PairTyped
<1>7. PairTyped'
  BY <1>1, <1>2, <1>5, <1>6 DEF PairTyped, EndStates
<1>8. OneInHand'
  BY <1>1 DEF PairInv, OneInHand
<1>9. \A g \in Ends : \A i \in 1..Len(accepted[g]) : accepted[g][i] # s /\ accepted[g][i] \in PairSends
  BY <1>1, <1>2 DEF PairInv, AcceptedSent, PairTyped
<1>10. AcceptedSent'
  <2>1. ASSUME NEW g \in Ends, NEW i \in 1..Len(accepted'[g]) PROVE pairSend'[accepted'[g][i]] = "sent"
    <3>1. CASE g # e
      BY <1>1, <1>2, <1>6, <1>9, <3>1 DEF PairInv, AcceptedSent, PairTyped
    <3>2. CASE g = e
      <4>1. /\ Len(accepted'[g]) = Len(accepted[g]) + 1 /\ accepted'[g][Len(accepted[g]) + 1] = s
            /\ \A j \in 1..Len(accepted[g]) : accepted'[g][j] = accepted[g][j]
        BY <1>2, <1>6, <3>2, AppendProperties
      <4>2. i \in 1..Len(accepted[g]) \/ i = Len(accepted[g]) + 1
        BY <1>2, <3>2, <4>1
      <4>3. QED
        BY <1>1, <1>2, <1>9, <4>1, <4>2 DEF PairInv, AcceptedSent, PairTyped
    <3>3. QED
      BY <3>1, <3>2
  <2>2. QED
    BY <2>1 DEF AcceptedSent
<1>11. ASSUME NEW g \in Ends PROVE Way(g)'
  <2>1. Peer(g) \in Ends /\ Peer(g) # g /\ Way(g)
    BY PeerIs DEF PairInv
  <2>2. end'[Peer(g)].receiveCh = end[Peer(g)].receiveCh
    BY <1>4, <1>5, <2>1
  <2>3. CASE g # e
    <3>1. Passed(g)' = Passed(g)
      BY <1>1, <1>5, <2>1, <2>2, <2>3 DEF Passed, Peer
    <3>2. QED
      BY <1>5, <1>6, <2>1, <2>3, <3>1, WayKept
  <2>4. CASE g = e
    <3> DEFINE X == delivered[Peer(e)] \o end[Peer(e)].receiveCh
               M == forwarder[e].message
               T == end[e].sendCh
    <3>1. delivered[Peer(e)] \in Seq(PairSends) /\ end[Peer(e)].receiveCh \in Seq(PairSends)
      BY <1>2, <2>1, <2>4, PartsTyped
    <3>2. X \in Seq(PairSends) /\ M \in Seq(PairSends) /\ T \in Seq(PairSends)
      BY <1>2, <3>1, ConcatProperties, PartsTyped
    <3>3. Passed(e) = (X \o M) \o T /\ Passed(e)' = (X \o M) \o Append(T, s)
      BY <1>1, <1>4, <1>5, <2>1, <2>2, <2>4 DEF Passed, Peer
    <3> HIDE DEF X, M, T
    <3>4. Passed(e) \in Seq(PairSends)
      <4>1. X \o M \in Seq(PairSends)
        BY <3>2, ConcatProperties
      <4>2. QED
        BY <3>2, <3>3, <4>1, ConcatProperties
    <3>10. (X \o M) \o Append(T, s) = Append((X \o M) \o T, s)
      BY <3>2, LastMoves, SMTT(40)
    <3>5. Passed(e)' = Append(Passed(e), s)
      BY <3>3, <3>10
    <3>6. InOrder(Passed(e)', accepted'[e])
      BY <1>2, <1>6, <1>9, <2>1, <2>4, <3>4, <3>5, InOrderAppend DEF Way
    <3>7. ~end'[e].closed /\ ~end'[Peer(e)].closed /\ Len(accepted'[e]) <= PairReceiveSize
            => Passed(e)' = accepted'[e]
      <4>1. Len(accepted'[e]) = Len(accepted[e]) + 1 /\ Len(accepted[e]) \in Nat /\ PairReceiveSize \in Nat
        BY <1>2, <1>6, AppendProperties, InProcessAssumption
      <4>2. Len(accepted'[e]) <= PairReceiveSize => Len(accepted[e]) <= PairReceiveSize
        BY <4>1
      <4>3. QED
        BY <4>2, <1>5, <1>6, <2>1, <2>4, <3>5 DEF Way
    <3>8. Peer(e)' = Peer(e)
      BY DEF Peer
    <3>9. QED
      BY <2>4, <3>6, <3>7, <3>8 DEF Way
  <2>5. QED
    BY <2>3, <2>4
<1>12. QED
  BY <1>7, <1>8, <1>10, <1>11 DEF PairInv

\* Receive takes the oldest message of its channel.
LEMMA ReceiveKeeps == ASSUME PairInv, NEW p \in Ends, PairReceive(p) PROVE PairInv'
<1> DEFINE R == end[p].receiveCh
           f == [end[p] EXCEPT !.receiveCh = Tail(@)]
<1>1. /\ R # <<>> /\ end' = [end EXCEPT ![p] = f]
      /\ delivered' = [delivered EXCEPT ![p] = Append(@, Head(R))]
      /\ UNCHANGED <<forwarder, pairSend, accepted>>
  BY DEF PairReceive
<1>2. PairTyped /\ end[p] \in EndStates /\ R \in Seq(PairSends) /\ delivered[p] \in Seq(PairSends)
  BY PartsTyped DEF PairInv
<1>3. /\ Head(R) \in PairSends /\ Tail(R) \in Seq(PairSends)
      /\ Append(delivered[p], Head(R)) \o Tail(R) = delivered[p] \o R
  <2> HIDE DEF R, f
  <2>1. PICK D : D = delivered[p]
    OBVIOUS
  <2>2. Append(D, Head(R)) \o Tail(R) = D \o R /\ Head(R) \in PairSends /\ Tail(R) \in Seq(PairSends)
    BY <1>1, <1>2, <2>1, HeadMoves
  <2>3. QED
    BY <2>1, <2>2
<1>4. f \in EndStates /\ f.closed = end[p].closed /\ f.sendCh = end[p].sendCh /\ f.receiveCh = Tail(R)
  BY <1>2, <1>3 DEF EndStates
<1> HIDE DEF f, R
<1>5. /\ end' \in [Ends -> EndStates] /\ end'[p] = f
      /\ \A g \in Ends \ {p} : end'[g] = end[g]
      /\ \A g \in Ends : ~end'[g].closed => ~end[g].closed
  BY <1>1, <1>2, <1>4, EndMoves
<1>6. /\ delivered' \in [Ends -> Seq(PairSends)] /\ delivered'[p] = Append(delivered[p], Head(R))
      /\ \A g \in Ends \ {p} : delivered'[g] = delivered[g]
  BY <1>1, <1>2, <1>3, AppendProperties DEF PairTyped
<1>7. PairTyped'
  BY <1>1, <1>2, <1>5, <1>6 DEF PairTyped, EndStates
<1>8. OneInHand' /\ AcceptedSent'
  BY <1>1 DEF PairInv, OneInHand, AcceptedSent
<1>9. ASSUME NEW g \in Ends PROVE Way(g)'
  <2>1. Peer(g) \in Ends /\ Peer(g)' = Peer(g) /\ Way(g)
    BY PeerIs DEF PairInv, Peer
  <2>2. end'[g].sendCh = end[g].sendCh
    BY <1>4, <1>5
  <2>3. delivered'[Peer(g)] \o end'[Peer(g)].receiveCh = delivered[Peer(g)] \o end[Peer(g)].receiveCh
    <3>1. CASE Peer(g) = p
      BY <3>1, <1>3, <1>4, <1>5, <1>6 DEF R
    <3>2. CASE Peer(g) # p
      BY <3>2, <2>1, <1>5, <1>6
    <3>3. QED
      BY <3>1, <3>2
  <2>4. Passed(g)' = Passed(g)
    BY <1>1, <2>1, <2>2, <2>3 DEF Passed
  <2>5. QED
    BY <1>1, <1>5, <2>1, <2>4, WayKept
<1>10. QED
  BY <1>7, <1>8, <1>9 DEF PairInv

\* Close, in its two steps.
LEMMA CloseKeeps ==
  ASSUME PairInv, NEW p \in Ends, PairWantsClose(p) \/ PairClose(p) PROVE PairInv'
<1>1. PairTyped /\ end[p] \in EndStates
  BY PartsTyped DEF PairInv
<1>2. PICK f \in EndStates :
        /\ end' = [end EXCEPT ![p] = f] /\ (end[p].closed => f.closed)
        /\ f.sendCh = end[p].sendCh /\ f.receiveCh = end[p].receiveCh
  <2>1. CASE PairWantsClose(p)
    <3> DEFINE f == [end[p] EXCEPT !.close = "waiting"]
    <3>1. f \in EndStates /\ f.closed = end[p].closed /\ f.sendCh = end[p].sendCh /\ f.receiveCh = end[p].receiveCh
      BY <1>1 DEF EndStates
    <3>2. end' = [end EXCEPT ![p] = f]
      BY <2>1 DEF PairWantsClose
    <3> HIDE DEF f
    <3>3. QED
      BY <3>1, <3>2
  <2>2. CASE PairClose(p)
    <3> DEFINE f == [end[p] EXCEPT !.close = "returned", !.closed = TRUE]
    <3>1. f \in EndStates /\ f.closed = TRUE /\ f.sendCh = end[p].sendCh /\ f.receiveCh = end[p].receiveCh
      BY <1>1 DEF EndStates
    <3>2. end' = [end EXCEPT ![p] = f]
      BY <2>2 DEF PairClose
    <3> HIDE DEF f
    <3>3. QED
      BY <3>1, <3>2
  <2>3. QED
    BY <2>1, <2>2
<1>3. UNCHANGED <<forwarder, pairSend, accepted, delivered>>
  BY DEF PairWantsClose, PairClose
<1>5. /\ end' \in [Ends -> EndStates] /\ end'[p] = f
      /\ \A g \in Ends \ {p} : end'[g] = end[g]
      /\ \A g \in Ends : ~end'[g].closed => ~end[g].closed
  BY <1>1, <1>2, EndMoves
<1>7. PairTyped' /\ OneInHand' /\ AcceptedSent'
  BY <1>1, <1>3, <1>5 DEF PairTyped, EndStates, PairInv, OneInHand, AcceptedSent
<1>9. ASSUME NEW g \in Ends PROVE Way(g)'
  <2>1. Peer(g) \in Ends /\ Peer(g)' = Peer(g) /\ Way(g)
    BY PeerIs DEF PairInv, Peer
  <2>2. \A h \in Ends : end'[h].sendCh = end[h].sendCh /\ end'[h].receiveCh = end[h].receiveCh
    BY <1>2, <1>5
  <2>4. Passed(g)' = Passed(g)
    BY <1>3, <2>1, <2>2 DEF Passed
  <2>5. QED
    BY <1>3, <1>5, <2>1, <2>4, WayKept
<1>10. QED
  BY <1>7, <1>9 DEF PairInv

-----------------------------------------------------------------------------
\* The forwarder takes the oldest message of the send channel.
LEMMA TakesKeeps == ASSUME PairInv, NEW e \in Ends, ForwarderTakes(e) PROVE PairInv'
<1> DEFINE T == end[e].sendCh
           f == [end[e] EXCEPT !.sendCh = Tail(@)]
           w == [pc |-> "look", message |-> <<Head(T)>>]
<1>1. /\ T # <<>> /\ end' = [end EXCEPT ![e] = f] /\ forwarder[e].pc = "select"
      /\ forwarder' = [forwarder EXCEPT ![e] = w]
      /\ UNCHANGED <<pairSend, accepted, delivered>>
  BY DEF ForwarderTakes
<1>2. PairTyped /\ end[e] \in EndStates /\ T \in Seq(PairSends) /\ forwarder[e].message = <<>>
  BY <1>1, PartsTyped DEF PairInv, OneInHand
<1>3. Head(T) \in PairSends /\ Tail(T) \in Seq(PairSends) /\ <<Head(T)>> \o Tail(T) = T /\ <<>> \o T = T
  <2> HIDE DEF T, f, w
  <2>1. T \in Seq(PairSends) /\ T # <<>>
    BY <1>1, <1>2
  <2>2. Head(T) \in PairSends /\ Tail(T) \in Seq(PairSends)
    BY <2>1, HeadTailProperties
  <2>3. <<>> \o T = T
    BY <2>1, ConcatEmptySeq
  <2>4. PICK h \in PairSends : h = Head(T)
    BY <2>2
  <2>5. PICK u \in Seq(PairSends) : u = Tail(T)
    BY <2>2
  <2>6. <<h>> \o u = T
    BY <2>1, <2>4, <2>5
  <2>7. QED
    BY <2>2, <2>3, <2>4, <2>5, <2>6
<1>4. /\ f \in EndStates /\ f.closed = end[e].closed /\ f.sendCh = Tail(T) /\ f.receiveCh = end[e].receiveCh
      /\ w \in Forwarders /\ w.pc = "look" /\ w.message = <<Head(T)>> /\ Len(w.message) = 1
  <2>1. <<Head(T)>> \in Seq(PairSends) /\ Len(<<Head(T)>>) = 1
    BY <1>3
  <2> HIDE DEF T
  <2>2. f \in EndStates /\ f.closed = end[e].closed /\ f.sendCh = Tail(T) /\ f.receiveCh = end[e].receiveCh
    <3>1. PICK u \in Seq(PairSends) : u = Tail(T)
      BY <1>3
    <3>2. f = [end[e] EXCEPT !.sendCh = u]
      BY <3>1 DEF T
    <3> HIDE DEF f
    <3>3. f \in EndStates /\ f.closed = end[e].closed /\ f.sendCh = u /\ f.receiveCh = end[e].receiveCh
      BY <1>2, <3>2 DEF EndStates
    <3>4. QED
      BY <3>1, <3>3
  <2>3. w \in Forwarders /\ w.pc = "look" /\ w.message = <<Head(T)>>
    BY <2>1 DEF Forwarders
  <2>4. QED
    BY <2>1, <2>2, <2>3
<1> HIDE DEF f, w, T
<1>5. /\ end' \in [Ends -> EndStates] /\ end'[e] = f
      /\ \A g \in Ends \ {e} : end'[g] = end[g]
      /\ \A g \in Ends : ~end'[g].closed => ~end[g].closed
  BY <1>1, <1>2, <1>4, EndMoves
<1>6. /\ forwarder' \in [Ends -> Forwarders] /\ forwarder'[e] = w
      /\ \A g \in Ends \ {e} : forwarder'[g] = forwarder[g]
  BY <1>1, <1>2, <1>4, ForwarderMoves
<1>7. PairTyped' /\ AcceptedSent'
  BY <1>1, <1>2, <1>5, <1>6 DEF PairTyped, EndStates, Forwarders, PairInv, AcceptedSent
<1>8. OneInHand'
  BY <1>4, <1>6 DEF PairInv, OneInHand
<1>9. ASSUME NEW g \in Ends PROVE Way(g)'
  <2>1. Peer(g) \in Ends /\ Peer(g)' = Peer(g) /\ Way(g)
    BY PeerIs DEF PairInv, Peer
  <2>2. end'[Peer(g)].receiveCh = end[Peer(g)].receiveCh
    BY <1>4, <1>5, <2>1
  <2>3. CASE g # e
    <3>1. Passed(g)' = Passed(g)
      BY <1>1, <1>5, <1>6, <2>1, <2>2, <2>3 DEF Passed
    <3>2. QED
      BY <1>1, <1>5, <2>1, <3>1, WayKept
  <2>4. CASE g = e
    <3> DEFINE X == delivered[Peer(e)] \o end[Peer(e)].receiveCh
    <3>1. delivered[Peer(e)] \in Seq(PairSends) /\ end[Peer(e)].receiveCh \in Seq(PairSends)
      BY <1>2, <2>1, <2>4, PartsTyped
    <3>2. X \in Seq(PairSends) /\ <<Head(T)>> \in Seq(PairSends) /\ Tail(T) \in Seq(PairSends)
      BY <1>3, <3>1, ConcatProperties
    <3>3. Passed(e) = (X \o <<>>) \o T /\ Passed(e)' = (X \o <<Head(T)>>) \o Tail(T)
      BY <1>1, <1>2, <1>4, <1>5, <1>6, <2>1, <2>2, <2>4 DEF Passed, T
    <3> HIDE DEF X
    <3>4. (X \o <<Head(T)>>) \o Tail(T) = X \o (<<Head(T)>> \o Tail(T))
      BY <3>2, ConcatAssociative
    <3>5. X \o <<>> = X
      BY <3>2, ConcatEmptySeq
    <3>6. Passed(e)' = Passed(e)
      BY <1>3, <3>3, <3>4, <3>5
    <3>7. QED
      BY <1>1, <1>5, <2>1, <2>4, <3>6, WayKept
  <2>5. QED
    BY <2>3, <2>4
<1>10. QED
  BY <1>7, <1>8, <1>9 DEF PairInv

\* The forwarder lets its message go, which loses it only if the peer is closed
\* or full.
LEMMA DropKeeps ==
  ASSUME PairInv, NEW e \in Ends, NEW w \in Forwarders, forwarder' = [forwarder EXCEPT ![e] = w],
         w.pc \in {"select", "gone"}, w.message = <<>>, UNCHANGED <<end, pairSend, accepted, delivered>>,
         \/ end[Peer(e)].closed
         \/ forwarder[e].message = <<>>
         \/ Len(forwarder[e].message) = 1 /\ ~(Len(end[Peer(e)].receiveCh) < PairReceiveSize)
  PROVE  PairInv'
<1>2. PairTyped
  BY DEF PairInv
<1>6. /\ forwarder' \in [Ends -> Forwarders] /\ forwarder'[e] = w
      /\ \A g \in Ends \ {e} : forwarder'[g] = forwarder[g]
  BY <1>2, ForwarderMoves
<1>7. PairTyped' /\ AcceptedSent'
  <2>1. PairTyped'
    BY <1>2, <1>6 DEF PairTyped, Forwarders
  <2>2. AcceptedSent'
    BY DEF PairInv, AcceptedSent
  <2>3. QED
    BY <2>1, <2>2
<1>8. OneInHand'
  BY <1>6 DEF PairInv, OneInHand
<1>9. ASSUME NEW g \in Ends PROVE Way(g)'
  <2>1. Peer(g) \in Ends /\ Peer(g)' = Peer(g) /\ Way(g)
    BY PeerIs DEF PairInv, Peer
  <2>3. CASE g # e
    <3>1. Passed(g)' = Passed(g)
      BY <1>6, <2>1, <2>3 DEF Passed
    <3>2. QED
      BY <2>1, <3>1, WayKept
  <2>4. CASE g = e
    <3> DEFINE D == delivered[Peer(e)]
               R == end[Peer(e)].receiveCh
               X == D \o R
               M == forwarder[e].message
               T == end[e].sendCh
    <3>1. D \in Seq(PairSends) /\ R \in Seq(PairSends) /\ M \in Seq(PairSends) /\ T \in Seq(PairSends)
      BY <1>2, <2>1, <2>4, PartsTyped
    <3>2. X \in Seq(PairSends) /\ Len(X) = Len(D) + Len(R)
      BY <3>1, ConcatProperties
    <3>3. Passed(e) = (X \o M) \o T /\ Passed(e)' = (X \o <<>>) \o T
      BY <1>6, <2>1, <2>4 DEF Passed
    <3>4. accepted[e] \in Seq(PairSends)
      BY <1>2, PartsTyped
    <3> HIDE DEF X, D, R, M, T
    <3>5. X \o <<>> = X
      BY <3>2, ConcatEmptySeq
    <3>6. InOrder(Passed(e)', accepted'[e])
      BY <2>1, <2>4, <3>1, <3>2, <3>3, <3>4, <3>5, InOrderDrop DEF Way
    <3>7. ASSUME ~end[e].closed, ~end[Peer(e)].closed, Len(accepted[e]) <= PairReceiveSize
          PROVE  Passed(e)' = accepted[e]
      <4>1. CASE M = <<>>
        BY <3>3, <3>5, <3>7, <4>1, <2>1, <2>4 DEF Way
      <4>2. CASE Len(M) = 1 /\ ~(Len(R) < PairReceiveSize)
        <5>1. Passed(e) = accepted[e]
          BY <2>1, <2>4, <3>7 DEF Way
        <5>2. X \o M \in Seq(PairSends) /\ Len(X \o M) = Len(X) + Len(M)
          BY <3>1, <3>2, ConcatProperties
        <5>3. Len((X \o M) \o T) = Len(X \o M) + Len(T)
          BY <3>1, <5>2, ConcatProperties
        <5>4. Len(D) \in Nat /\ Len(R) \in Nat /\ Len(T) \in Nat /\ PairReceiveSize \in Nat
          BY <3>1, InProcessAssumption
        <5>5. Len(accepted[e]) = ((Len(D) + Len(R)) + 1) + Len(T)
          BY <3>2, <3>3, <4>2, <5>1, <5>2, <5>3
        <5>6. QED
          BY <3>7, <4>2, <5>4, <5>5
      <4>3. QED
        BY <3>7, <4>1, <4>2 DEF M, R
    <3>8. QED
      BY <2>1, <2>4, <3>6, <3>7 DEF Way
  <2>5. QED
    BY <2>3, <2>4
<1>10. QED
  BY <1>7, <1>8, <1>9 DEF PairInv

\* The message goes to the end of the peer's receive channel.
LEMMA PutKeeps ==
  ASSUME PairInv, NEW e \in Ends, forwarder[e].pc = "put",
         end' = [end EXCEPT ![Peer(e)].receiveCh = @ \o forwarder[e].message],
         forwarder' = [forwarder EXCEPT ![e] = [pc |-> "select", message |-> <<>>]],
         UNCHANGED <<pairSend, accepted, delivered>>
  PROVE  PairInv'
<1>0. PICK p \in Ends : p = Peer(e) /\ p # e /\ \A g \in Ends : Peer(g) = p => g = e
  BY PeerIs
<1> DEFINE f == [end[p] EXCEPT !.receiveCh = @ \o forwarder[e].message]
           w == [pc |-> "select", message |-> <<>>]
<1>1. PairTyped /\ end[p] \in EndStates /\ end[p].receiveCh \in Seq(PairSends) /\ forwarder[e].message \in Seq(PairSends)
  BY PartsTyped DEF PairInv
<1>2. end[p].receiveCh \o forwarder[e].message \in Seq(PairSends)
  BY <1>1, ConcatProperties
<1>3. end' = [end EXCEPT ![p] = f] /\ forwarder' = [forwarder EXCEPT ![e] = w]
  BY <1>0
<1>4. /\ f \in EndStates /\ f.closed = end[p].closed /\ f.sendCh = end[p].sendCh
      /\ f.receiveCh = end[p].receiveCh \o forwarder[e].message
      /\ w \in Forwarders /\ w.pc = "select" /\ w.message = <<>>
  <2> DEFINE u == end[p].receiveCh \o forwarder[e].message
  <2>1. u \in Seq(PairSends)
    BY <1>2
  <2>2. f = [end[p] EXCEPT !.receiveCh = u]
    OBVIOUS
  <2> HIDE DEF f, u
  <2>3. f \in EndStates /\ f.closed = end[p].closed /\ f.sendCh = end[p].sendCh /\ f.receiveCh = u
    BY <1>1, <2>1, <2>2 DEF EndStates
  <2>4. w \in Forwarders /\ w.pc = "select" /\ w.message = <<>>
    BY DEF Forwarders
  <2>5. QED
    BY <2>3, <2>4 DEF u
<1> HIDE DEF f, w
<1>5. /\ end' \in [Ends -> EndStates] /\ end'[p] = f
      /\ \A g \in Ends \ {p} : end'[g] = end[g]
      /\ \A g \in Ends : ~end'[g].closed => ~end[g].closed
  <2>1. end[p].closed => f.closed
    BY <1>4
  <2>2. QED
    BY ONLY <1>1, <1>3, <1>4, <2>1, EndMoves
<1>6. /\ forwarder' \in [Ends -> Forwarders] /\ forwarder'[e] = w
      /\ \A g \in Ends \ {e} : forwarder'[g] = forwarder[g]
  BY <1>1, <1>3, <1>4, ForwarderMoves
<1>7. PairTyped' /\ AcceptedSent'
  <2>1. pairSend' = pairSend /\ accepted' = accepted /\ delivered' = delivered
    OBVIOUS
  <2>2. PairTyped'
    BY ONLY <1>1, <1>5, <1>6, <2>1 DEF PairTyped, EndStates, Forwarders
  <2>3. QED
    BY <2>1, <2>2 DEF PairInv, AcceptedSent
<1>8. OneInHand'
  BY <1>4, <1>6 DEF PairInv, OneInHand
<1>9. ASSUME NEW g \in Ends PROVE Way(g)'
  <2>1. Peer(g) \in Ends /\ Peer(g)' = Peer(g) /\ Way(g)
    BY PeerIs DEF PairInv, Peer
  <2>2. end'[g].sendCh = end[g].sendCh
    BY <1>4, <1>5
  <2>3. CASE g # e
    <3>0. Peer(g) # p
      BY <1>0, <2>3, SMTT(40)
    <3>1. Passed(g)' = Passed(g)
      BY <1>5, <1>6, <2>1, <2>2, <2>3, <3>0 DEF Passed
    <3>2. QED
      BY <1>5, <2>1, <3>1, WayKept
  <2>4. CASE g = e
    <3> DEFINE D == delivered[p]
               R == end[p].receiveCh
               M == forwarder[e].message
               T == end[e].sendCh
    <3>1. D \in Seq(PairSends) /\ R \in Seq(PairSends) /\ M \in Seq(PairSends) /\ T \in Seq(PairSends)
      BY <1>1, PartsTyped
    <3>2. Passed(e) = ((D \o R) \o M) \o T
      BY <1>0 DEF Passed
    <3>3. Passed(e)' = ((D \o (R \o M)) \o <<>>) \o T
      BY <1>0, <1>4, <1>5, <1>6, <2>1, <2>2, <2>4 DEF Passed
    <3> HIDE DEF D, R, M, T
    <3>4. ((D \o (R \o M)) \o <<>>) \o T = ((D \o R) \o M) \o T
      BY <3>1, MiddleMoves, SMTT(40)
    <3>5. Passed(e)' = Passed(e)
      BY <3>2, <3>3, <3>4
    <3>6. QED
      BY <1>5, <2>1, <2>4, <3>5, WayKept
  <2>5. QED
    BY <2>3, <2>4
<1>10. QED
  BY <1>7, <1>8, <1>9 DEF PairInv

\* The forwarder puts its message, or drops it.
LEMMA PutsKeeps == ASSUME PairInv, NEW e \in Ends, ForwarderPuts(e) PROVE PairInv'
<1>1. forwarder[e].pc = "put" /\ Len(forwarder[e].message) = 1 /\ UNCHANGED <<pairSend, accepted, delivered>>
  BY DEF ForwarderPuts, PairInv, OneInHand
<1>2. [pc |-> "select", message |-> <<>>] \in Forwarders /\ [pc |-> "gone", message |-> <<>>] \in Forwarders
  BY DEF Forwarders
<1>3. CASE /\ end' = [end EXCEPT ![Peer(e)].receiveCh = @ \o forwarder[e].message]
           /\ forwarder' = [forwarder EXCEPT ![e] = [pc |-> "select", message |-> <<>>]]
  BY <1>1, <1>3, PutKeeps
<1>4. CASE /\ end[Peer(e)].closed
           /\ forwarder' = [forwarder EXCEPT ![e] = [pc |-> "gone", message |-> <<>>]]
           /\ UNCHANGED end
  <2> DEFINE w == [pc |-> "gone", message |-> <<>>]
  <2>1. w \in Forwarders /\ w.pc = "gone" /\ w.message = <<>> /\ forwarder' = [forwarder EXCEPT ![e] = w]
    BY <1>2, <1>4
  <2> HIDE DEF w
  <2>2. QED
    BY <1>1, <1>4, <2>1, DropKeeps
<1>5. CASE /\ ~(Len(end[Peer(e)].receiveCh) < PairReceiveSize)
           /\ forwarder' = [forwarder EXCEPT ![e] = [pc |-> "select", message |-> <<>>]]
           /\ UNCHANGED end
  <2> DEFINE w == [pc |-> "select", message |-> <<>>]
  <2>1. w \in Forwarders /\ w.pc = "select" /\ w.message = <<>> /\ forwarder' = [forwarder EXCEPT ![e] = w]
    BY <1>2, <1>5
  <2> HIDE DEF w
  <2>2. QED
    BY <1>1, <1>5, <2>1, DropKeeps
<1>6. QED
  BY <1>3, <1>4, <1>5 DEF ForwarderPuts

\* The forwarder sees that its end was closed.
LEMMA StopsKeeps == ASSUME PairInv, NEW e \in Ends, ForwarderStops(e) PROVE PairInv'
<1> DEFINE w == [forwarder[e] EXCEPT !.pc = "gone"]
<1>1. forwarder[e] \in Forwarders /\ forwarder[e].message = <<>>
  BY PartsTyped DEF ForwarderStops, PairInv, OneInHand
<1>2. w \in Forwarders /\ w.pc = "gone" /\ w.message = <<>>
  BY <1>1 DEF Forwarders
<1>3. forwarder' = [forwarder EXCEPT ![e] = w] /\ UNCHANGED <<end, pairSend, accepted, delivered>>
  BY DEF ForwarderStops
<1> HIDE DEF w
<1>4. QED
  BY <1>1, <1>2, <1>3, DropKeeps

\* The forwarder looks whether the peer is closed.
LEMMA LooksKeeps == ASSUME PairInv, NEW e \in Ends, ForwarderLooks(e) PROVE PairInv'
<1>1. forwarder[e] \in Forwarders /\ Len(forwarder[e].message) = 1 /\ PairTyped
      /\ UNCHANGED <<end, pairSend, accepted, delivered>>
  BY PartsTyped DEF ForwarderLooks, PairInv, OneInHand
<1>2. CASE end[Peer(e)].closed
  <2> DEFINE w == [pc |-> "select", message |-> <<>>]
  <2>1. w \in Forwarders /\ w.pc = "select" /\ w.message = <<>> /\ forwarder' = [forwarder EXCEPT ![e] = w]
    BY <1>2 DEF ForwarderLooks, Forwarders
  <2> HIDE DEF w
  <2>2. QED
    BY <1>1, <1>2, <2>1, DropKeeps
<1>3. CASE ~end[Peer(e)].closed
  <2> DEFINE w == [forwarder[e] EXCEPT !.pc = "put"]
  <2>1. w \in Forwarders /\ w.pc = "put" /\ w.message = forwarder[e].message
    BY <1>1 DEF Forwarders
  <2>2. forwarder' = [forwarder EXCEPT ![e] = w]
    BY <1>3 DEF ForwarderLooks
  <2> HIDE DEF w
  <2>3. /\ forwarder' \in [Ends -> Forwarders] /\ forwarder'[e] = w
        /\ \A g \in Ends \ {e} : forwarder'[g] = forwarder[g]
    BY <1>1, <2>1, <2>2, ForwarderMoves
  <2>4. PairTyped' /\ AcceptedSent'
    BY <1>1, <2>3 DEF PairTyped, Forwarders, PairInv, AcceptedSent
  <2>5. OneInHand'
    BY <1>1, <2>1, <2>3 DEF PairInv, OneInHand
  <2>6. ASSUME NEW g \in Ends PROVE Way(g)'
    <3>1. Peer(g) \in Ends /\ Peer(g)' = Peer(g) /\ Way(g) /\ forwarder'[g].message = forwarder[g].message
      BY PeerIs, <2>1, <2>3 DEF PairInv, Peer
    <3>2. Passed(g)' = Passed(g)
      BY <1>1, <3>1 DEF Passed
    <3>3. QED
      BY <1>1, <3>1, <3>2, WayKept
  <2>7. QED
    BY <2>4, <2>5, <2>6 DEF PairInv
<1>4. QED
  BY <1>2, <1>3

\* Every step keeps the invariant.
LEMMA PairInvNext == PairInv /\ [PairNext]_pairVars => PairInv'
<1> SUFFICES ASSUME PairInv, [PairNext]_pairVars PROVE PairInv'
  OBVIOUS
<1>1. ASSUME NEW s \in PairSends, PairSendBegins(s) \/ PairSendGivesUp(s) PROVE PairInv'
  <2>1. CASE PairSendBegins(s)
    <3>1. PICK v \in {"refused", "holding"} : pairSend' = [pairSend EXCEPT ![s] = v]
      BY <2>1 DEF PairSendBegins
    <3>2. QED
      BY <2>1, <3>1, CallKeeps DEF PairSendBegins
  <2>2. CASE PairSendGivesUp(s)
    BY <2>2, CallKeeps DEF PairSendGivesUp
  <2>3. QED
    BY <1>1, <2>1, <2>2
<1>2. ASSUME NEW s \in PairSends, PairSendQueues(s) PROVE PairInv'
  BY <1>2, QueuesKeeps
<1>3. ASSUME NEW e \in Ends, PairReceive(e) \/ PairWantsClose(e) \/ PairClose(e) PROVE PairInv'
  BY <1>3, ReceiveKeeps, CloseKeeps
<1>4. ASSUME NEW e \in Ends, ForwarderStep(e) PROVE PairInv'
  BY <1>4, TakesKeeps, StopsKeeps, LooksKeeps, PutsKeeps DEF ForwarderStep
<1>5. CASE UNCHANGED pairVars
  <2>1. UNCHANGED <<end, forwarder, pairSend, accepted, delivered>>
    BY <1>5 DEF pairVars
  <2>2. \A e \in Ends : Passed(e)' = Passed(e)
    BY <2>1 DEF Passed, Peer
  <2>3. \A e \in Ends : Way(e)'
    BY <2>1, <2>2, WayKept DEF PairInv
  <2>4. QED
    BY <2>1, <2>3 DEF PairInv, PairTyped, OneInHand, AcceptedSent
<1>6. QED
  BY <1>1, <1>2, <1>3, <1>4, <1>5 DEF PairNext

\* Messages reach the other end in the order Send took them, and all of them
\* while nobody closes and the receive channel has room for them
\* (custom_transports.go:564-600, 618-635).
THEOREM PairKeepsOrder == PairSpec => []PairInOrder
<1>1. PairSpec => []PairInv
  BY PairInvInit, PairInvNext, PTL DEF PairSpec
<1>2. QED
  BY <1>1, PairInvInOrder, PTL
==============================================================================
