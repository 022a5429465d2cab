------------------------- MODULE ConnectionLoopProofs -------------------------
(***************************************************************************)
(* Proofs about ConnectionLoop, for every bound on its connections.        *)
(***************************************************************************)
EXTENDS ConnectionLoop, FiniteSetTheorems, TLAPS

\* Before a connection has become ready there are no goroutines, and connect
\* has deferred nothing but closing the socket.
Offline ==
    /\ conn = 0 /\ stops = {} /\ forwarders = {} /\ heartbeats = {}
    /\ pc # "read"
    /\ defers = IF pc \in {"auth", "return"} THEN <<"close connection">>
                                             ELSE <<>>
    /\ wire \subseteq {"device.authenticate"}

\* After that it is served, or waits for ever for its forwarder.
Served ==
    /\ conn = 1 /\ stops = {} /\ forwarders = {1} /\ heartbeats = {1}
    /\ pc \in {"read", "return"}
    /\ defers = ConnectDefers
    /\ ready = TRUE

\* The inductive invariant.
ConnInv == TypeOK /\ (Offline \/ Served)

\* connect never returns once a connection was ready: its first deferred call
\* waits for a forwarder that ends when the second one closes stop.  All that
\* Run does after connect, the next dial included, belongs to connections that
\* never became ready.
NeverReturns == conn # 0 => pc \in {"read", "return"} /\ defers = ConnectDefers

-----------------------------------------------------------------------------
(* The stack of deferred calls.                                            *)

LEMMA OneDeferred ==
  /\ Last(<<"close connection">>) = "close connection"
  /\ Front(<<"close connection">>) = <<>>
  /\ Len(<<"close connection">>) = 1
BY DEF Last, Front

LEMMA LastDeferred == Last(ConnectDefers) = "wait for updates"
BY DEF Last, ConnectDefers

-----------------------------------------------------------------------------
(* The invariant.                                                          *)

LEMMA InitInv == Init => ConnInv
<1> SUFFICES ASSUME Init PROVE ConnInv
  OBVIOUS
<1>1. TypeOK
  <2>1. conn \in 0 .. MaxConns /\ backoff \in {1, 2, 4, 8, 16, 32}
    BY MaxConnsAssumption DEF Init
  <2>2. defers = <<>>
    BY DEF Init
  <2> QED
    BY <2>1, <2>2, Zenon DEF Init, TypeOK
<1>2. Offline
  BY DEF Init, Offline
<1> QED
  BY <1>1, <1>2 DEF ConnInv

\* The first connection becomes ready.
LEMMA ReadyStep ==
  ASSUME TypeOK, Offline, SessionReady
  PROVE  ConnInv'
<1>1. conn = 0 /\ conn' = 1 /\ 0 < MaxConns
  <2>1. conn = 0 /\ conn' = conn + 1 /\ conn < MaxConns
    BY DEF SessionReady, Offline
  <2> QED
    BY <2>1, MaxConnsAssumption
<1>2. /\ stops' = {} /\ pc' = "read" /\ defers' = ConnectDefers
      /\ ready' = TRUE
  BY DEF SessionReady, Offline, goVars
<1>3. forwarders' = {1} /\ heartbeats' = {1}
  <2>1. forwarders' = {conn + 1} /\ heartbeats' = {conn + 1}
    BY DEF SessionReady, Offline
  <2> QED
    BY <1>1, <2>1
<1>4. UNCHANGED <<backoff, socket, stopping, subscribed, revoked, wire>>
  BY DEF SessionReady
<1>5. Served'
  BY <1>1, <1>2, <1>3 DEF Served
<1>6. conn' \in 0 .. MaxConns /\ {1} \subseteq Conns
  BY <1>1, MaxConnsAssumption DEF Conns
<1>7. TypeOK'
  BY <1>2, <1>3, <1>4, <1>6, Zenon DEF TypeOK
<1> QED
  BY <1>5, <1>7 DEF ConnInv

\* Steps of a Connector that has not been connected.
LEMMA OfflineStep ==
  ASSUME TypeOK, Offline, Next
  PROVE  ConnInv'
<1> USE MaxConnsAssumption
        DEF ConnInv, TypeOK, Offline, Conns, runVars, goVars
<1>1. CASE Scan
  BY <1>1 DEF Scan, LoopHead
<1>9. CASE BackOff
  <2>1. backoff' \in {1, 2, 4, 8, 16, 32}
    BY <1>9 DEF BackOff, NextBackoff
  <2>2. pc' \in {"dial", "exited"}
    BY <1>9 DEF BackOff, LoopHead
  <2> QED
    BY <1>9, <2>1, <2>2 DEF BackOff
<1>2. CASE Dial
  BY <1>2 DEF Dial
<1>3. CASE AnswerChallenge \/ FailAuth
  BY <1>3 DEF AnswerChallenge, FailAuth
<1>4. CASE SessionReady
  BY <1>4, ReadyStep
<1>5. CASE ReadMessage \/ ReadError
  BY <1>5 DEF ReadMessage, ReadError
<1>6. CASE RunDeferred
  <2>1. defers = <<"close connection">>
    BY <1>6 DEF RunDeferred
  <2> QED
    BY <1>6, <2>1, OneDeferred DEF RunDeferred
<1>7. ~ \E k \in Conns : Forward(k) \/ Heartbeat(k)
  BY DEF Forward, Heartbeat
<1>8. CASE LosePeer
  BY <1>8 DEF LosePeer
<1>10. CASE Signal
  BY <1>10 DEF Signal
<1>11. CASE ServiceRestarts
  BY <1>11 DEF ServiceRestarts
<1> QED
  BY <1>1, <1>2, <1>3, <1>4, <1>5, <1>6, <1>7, <1>8, <1>9, <1>10, <1>11
     DEF Next

\* Steps of one that has: none of them ends connect.
LEMMA ServedStep ==
  ASSUME TypeOK, Served, Next
  PROVE  ConnInv'
<1> USE MaxConnsAssumption
        DEF ConnInv, TypeOK, Served, Conns, runVars, goVars
<1>1. ~ (\/ Scan \/ Dial \/ BackOff \/ AnswerChallenge \/ SessionReady
         \/ FailAuth \/ ServiceRestarts)
  BY DEF Scan, Dial, BackOff, AnswerChallenge, SessionReady, FailAuth,
         ServiceRestarts
<1>2. CASE ReadMessage
  BY <1>2 DEF ReadMessage
<1>3. CASE ReadError \/ LosePeer \/ Signal
  BY <1>3 DEF ReadError, LosePeer, Signal
<1>4. ~RunDeferred
  BY LastDeferred DEF RunDeferred
<1>5. ASSUME NEW k \in Conns, Forward(k) \/ Heartbeat(k) PROVE ConnInv'
  BY <1>5 DEF Forward, Heartbeat, AfterSelect, Written
<1> QED
  BY <1>1, <1>2, <1>3, <1>4, <1>5 DEF Next

LEMMA NextInv == ConnInv /\ [Next]_vars => ConnInv'
<1>1. ASSUME ConnInv, UNCHANGED vars PROVE ConnInv'
  <2>1. TypeOK' = TypeOK
    BY <1>1 DEF TypeOK, vars, runVars, goVars
  <2>2. Offline' = Offline
    BY <1>1 DEF Offline, vars, runVars, goVars
  <2>3. Served' = Served
    BY <1>1 DEF Served, vars, runVars, goVars
  <2> QED
    BY <1>1, <2>1, <2>2, <2>3 DEF ConnInv
<1> QED
  BY <1>1, OfflineStep, ServedStep DEF ConnInv

THEOREM Connections == Spec => []ConnInv
BY InitInv, NextInv, PTL DEF Spec

\* Every variable of the connection keeps its type.
THEOREM TypeCorrect == Spec => []TypeOK
<1>1. ConnInv => TypeOK
  BY DEF ConnInv
<1> QED
  BY <1>1, Connections, PTL

\* Nothing but the answer to the challenge is written before the server has
\* accepted the connection.
THEOREM SilentBeforeReady == Spec => []AuthenticatedFirst
<1>1. ConnInv => AuthenticatedFirst
  BY DEF ConnInv, Offline, Served, AuthenticatedFirst
<1> QED
  BY <1>1, Connections, PTL

\* Two forwarders never compete for the observer's updates.
THEOREM OneForwarder == Spec => []SingleForwarder
<1>1. ConnInv => SingleForwarder
  <2> SUFFICES ASSUME ConnInv PROVE SingleForwarder
    OBVIOUS
  <2>1. forwarders = {} \/ forwarders = {1}
    BY DEF ConnInv, Offline, Served
  <2>2. Cardinality({}) = 0 /\ Cardinality({1}) = 1
    BY FS_EmptySet, FS_Singleton
  <2> QED
    BY <2>1, <2>2 DEF SingleForwarder
<1> QED
  BY <1>1, Connections, PTL

\* A connection that was once ready is the last one: connect never returns,
\* whether the peer is lost, the device revoked or the process told to stop.
THEOREM ConnectStaysForever == Spec => []NeverReturns
<1>1. ConnInv => NeverReturns
  BY DEF ConnInv, Offline, Served, NeverReturns
<1> QED
  BY <1>1, Connections, PTL
=============================================================================
