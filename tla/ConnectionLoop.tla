--------------------------- MODULE ConnectionLoop ---------------------------
(***************************************************************************)
(* The life of the outbound connection (internal/observerrelay/relay.go,   *)
(* Run to readLoop, and cmd/ai-connector/main.go observe): the first scan, *)
(* the dial / authenticate / serve / back off loop, the heartbeat and      *)
(* forwarder goroutines of each connection, the deferred calls connect     *)
(* runs when it returns, SIGTERM, and the service manager's restart.       *)
(*                                                                         *)
(* pc is the position of the goroutine that runs Run.  Deferred calls are  *)
(* kept as the stack Go keeps them on, so that their order is the code's.  *)
(***************************************************************************)
EXTENDS Integers, FiniteSets, SequencesExt

CONSTANT MaxConns    \* bound: connections that reach session_ready

ASSUME MaxConnsAssumption == MaxConns \in Nat \ {0}

VARIABLES
    pc,          \* "scan", "dial", "auth", "read", "return", "backoff", ...
    defers,      \* connect's deferred calls, the latest one last
    socket,      \* "none", "open", or "lost": the peer is gone
    ready,       \* the server has sent session_ready on this socket
    conn,        \* number of the latest connection that became ready
    backoff,     \* Run's backoff in seconds
    stopping,    \* SIGTERM or an interrupt has cancelled ctx
    stops,       \* connections whose stop channel is closed
    forwarders,  \* connections whose forwardObservation is running
    heartbeats,  \* connections whose heartbeat is running
    subscribed,  \* relay.subscribed
    revoked,     \* readLoop has read device.revoke
    wire         \* history: message types written to this socket

runVars == <<pc, defers, backoff>>
goVars == <<stops, forwarders, heartbeats>>
vars == <<runVars, socket, ready, conn, stopping, goVars, subscribed, revoked,
          wire>>

Conns == 1 .. MaxConns

Init ==
    /\ pc = "scan" /\ defers = <<>> /\ backoff = 1
    /\ socket = "none" /\ ready = FALSE /\ conn = 0
    /\ stopping = FALSE
    /\ stops = {} /\ forwarders = {} /\ heartbeats = {}
    /\ subscribed = FALSE /\ revoked = FALSE /\ wire = {}

-----------------------------------------------------------------------------
(* Run.                                                                    *)

LoopHeadDials == "dial"                       \* mutant of LoopHead

\* `for ctx.Err() == nil`.
LoopHead == IF stopping THEN "exited" ELSE "dial"

\* New and the first Scan, before anything is announced; failing ends Run.
Scan ==
    /\ pc = "scan"
    /\ pc' \in {LoopHead, "failed"}
    /\ UNCHANGED <<defers, backoff, socket, ready, conn, stopping, goVars,
                   subscribed, revoked, wire>>

DialEager ==                                  \* mutant of Dial
    /\ pc = "dial" /\ ~stopping /\ conn < MaxConns
    /\ pc' = "auth" /\ socket' = "open" /\ ready' = FALSE /\ wire' = {}
    /\ defers' = <<"close connection">>
    /\ conn' = conn + 1 /\ heartbeats' = heartbeats \cup {conn + 1}
    /\ UNCHANGED <<backoff, stopping, stops, forwarders, subscribed, revoked>>

\* DialContext fails once ctx is cancelled; connect then defers the close.
Dial ==
    /\ pc = "dial"
    /\ \/ /\ pc' = "backoff"
          /\ UNCHANGED <<defers, socket, ready, wire>>
       \/ /\ ~stopping
          /\ pc' = "auth" /\ socket' = "open" /\ ready' = FALSE /\ wire' = {}
          /\ defers' = <<"close connection">>
    /\ UNCHANGED <<backoff, conn, stopping, goVars, subscribed, revoked>>

NextBackoffUncapped(b) == b * 2               \* mutant of NextBackoff
NextBackoff(b) == IF b < 30 THEN b * 2 ELSE b

\* The select: the timer, or ctx.Done, whose break only leaves the select.
BackOff ==
    /\ pc = "backoff"
    /\ backoff' = NextBackoff(backoff)
    /\ pc' = LoopHead
    /\ UNCHANGED <<defers, socket, ready, conn, stopping, goVars, subscribed,
                   revoked, wire>>

-----------------------------------------------------------------------------
(* connect after the dial.                                                 *)

AnswerChallenge ==
    /\ pc = "auth" /\ socket = "open"
    /\ wire' = wire \cup {"device.authenticate"}
    /\ UNCHANGED <<runVars, socket, ready, conn, stopping, goVars, subscribed,
                   revoked>>

ConnectDefersNoWait == <<"close connection", "close stop">>
                                              \* mutant of ConnectDefers
\* The calls connect has deferred once readLoop runs.
ConnectDefers == <<"close connection", "close stop", "wait for updates">>

\* device.session_ready: the goroutines start and connect enters readLoop.
SessionReady ==
    /\ pc = "auth" /\ socket = "open" /\ conn < MaxConns
    /\ pc' = "read" /\ ready' = TRUE /\ conn' = conn + 1
    /\ defers' = ConnectDefers
    /\ forwarders' = forwarders \cup {conn + 1}
    /\ heartbeats' = heartbeats \cup {conn + 1}
    /\ UNCHANGED <<backoff, socket, stopping, stops, subscribed, revoked,
                   wire>>

FailAuthNoDeadline ==                         \* mutant of FailAuth
    /\ pc = "auth" /\ socket = "lost"
    /\ pc' = "return"
    /\ UNCHANGED <<defers, backoff, socket, ready, conn, stopping, goVars,
                   subscribed, revoked, wire>>

\* protocol.error, an unexpected message, a read error, or the 30 s deadline
\* of the whole exchange.
FailAuth ==
    /\ pc = "auth"
    /\ pc' = "return"
    /\ UNCHANGED <<defers, backoff, socket, ready, conn, stopping, goVars,
                   subscribed, revoked, wire>>

\* One message of readLoop.  A subscription is answered with a snapshot; the
\* answers of the other handlers are module ManagedRelay's.
ReadMessage ==
    /\ pc = "read" /\ socket = "open"
    /\ \/ /\ subscribed' = TRUE
          /\ wire' = wire \cup {"observe.snapshot"}
          /\ UNCHANGED <<pc, revoked>>
       \/ /\ subscribed' = FALSE
          /\ UNCHANGED <<pc, revoked, wire>>
       \/ /\ revoked' = TRUE /\ pc' = "return"
          /\ UNCHANGED <<subscribed, wire>>
    /\ UNCHANGED <<defers, backoff, socket, ready, conn, stopping, goVars>>

ReadError ==
    /\ pc = "read" /\ socket = "lost"
    /\ pc' = "return"
    /\ UNCHANGED <<defers, backoff, socket, ready, conn, stopping, goVars,
                   subscribed, revoked, wire>>

\* connect returns: its deferred calls run, the last one first; `<-updatesDone`
\* waits for the forwarder of this connection.
RunDeferred ==
    /\ pc = "return" /\ defers # <<>>
    /\ LET call == Last(defers) IN
       /\ call = "wait for updates" => conn \notin forwarders
       /\ stops' = IF call = "close stop" THEN stops \cup {conn} ELSE stops
       /\ socket' = IF call = "close connection" THEN "none" ELSE socket
       /\ defers' = Front(defers)
       /\ pc' = IF Len(defers) = 1 THEN "backoff" ELSE pc
    /\ UNCHANGED <<backoff, ready, conn, stopping, forwarders, heartbeats,
                   subscribed, revoked, wire>>

-----------------------------------------------------------------------------
(* The goroutines of connection k.                                         *)

\* Once stop is closed the select of either goroutine may still take another
\* case first.
AfterSelect(running, k) ==
    IF k \in stops THEN {running, running \ {k}} ELSE {running}

Written(k, type) == IF k = conn /\ socket = "open" THEN wire \cup {type}
                                                   ELSE wire

Forward(k) ==
    /\ k \in forwarders
    /\ forwarders' \in AfterSelect(forwarders, k)
    /\ wire' = IF subscribed THEN Written(k, "observe.delta") ELSE wire
    /\ UNCHANGED <<runVars, socket, ready, conn, stopping, stops, heartbeats,
                   subscribed, revoked>>

Heartbeat(k) ==
    /\ k \in heartbeats
    /\ heartbeats' \in AfterSelect(heartbeats, k)
    /\ wire' = Written(k, "device.heartbeat")
    /\ UNCHANGED <<runVars, socket, ready, conn, stopping, stops, forwarders,
                   subscribed, revoked>>

-----------------------------------------------------------------------------
(* The environment.                                                        *)

LosePeer ==
    /\ socket = "open"
    /\ socket' = "lost"
    /\ UNCHANGED <<runVars, ready, conn, stopping, goVars, subscribed, revoked,
                   wire>>

\* SIGTERM, or an interrupt at the terminal: NotifyContext cancels ctx.
Signal ==
    /\ ~stopping /\ pc \notin {"exited", "failed"}
    /\ stopping' = TRUE
    /\ UNCHANGED <<runVars, socket, ready, conn, goVars, subscribed, revoked,
                   wire>>

\* systemd's Restart=on-failure.
ServiceRestarts ==
    /\ pc = "failed" /\ ~stopping
    /\ pc' = "scan" /\ backoff' = 1
    /\ UNCHANGED <<defers, socket, ready, conn, stopping, goVars, subscribed,
                   revoked, wire>>

Next ==
    \/ Scan \/ Dial \/ BackOff
    \/ AnswerChallenge \/ SessionReady \/ FailAuth
    \/ ReadMessage \/ ReadError \/ RunDeferred
    \/ \E k \in Conns : Forward(k) \/ Heartbeat(k)
    \/ LosePeer \/ Signal \/ ServiceRestarts

Spec == Init /\ [][Next]_vars

\* Goroutines run, and the calls with a timeout return: the dial (45 s in the
\* dialer), the authentication deadline, the backoff timer.  The server and
\* the browser need never say anything.
Fairness ==
    /\ WF_vars(Scan) /\ WF_vars(Dial) /\ WF_vars(BackOff)
    /\ WF_vars(FailAuth) /\ WF_vars(ReadError) /\ WF_vars(RunDeferred)
    /\ \A k \in Conns : WF_vars(Forward(k)) /\ WF_vars(Heartbeat(k))
    /\ WF_vars(ServiceRestarts)

FairSpec == Spec /\ Fairness
-----------------------------------------------------------------------------
(* Properties.                                                             *)

\* Every variable keeps its type; the backoff doubles to 32 s and no further.
TypeOK ==
    /\ pc \in {"scan", "dial", "auth", "read", "return", "backoff", "exited",
               "failed"}
    /\ defers \in {<<>>, <<"close connection">>,
                   <<"close connection", "close stop">>, ConnectDefers}
    /\ socket \in {"none", "open", "lost"}
    /\ ready \in BOOLEAN /\ conn \in 0 .. MaxConns
    /\ backoff \in {1, 2, 4, 8, 16, 32}
    /\ stopping \in BOOLEAN
    /\ stops \subseteq Conns /\ forwarders \subseteq Conns
    /\ heartbeats \subseteq Conns
    /\ subscribed \in BOOLEAN /\ revoked \in BOOLEAN
    /\ wire \subseteq {"device.authenticate", "device.heartbeat",
                       "observe.snapshot", "observe.delta"}

\* Nothing but the answer to the challenge is written to a connection that the
\* server has not accepted yet: the goroutines of connect start after it.
AuthenticatedFirst == wire \subseteq {"device.authenticate"} \/ ready

\* connect waits for its forwarder, so that two forwarders never compete for
\* the observer's updates (one of them writing to a dead socket).
SingleForwarder == Cardinality(forwarders) <= 1

\* A Connector that has not been connected yet keeps dialling, whatever the
\* network and the server do.
RedialsWhileOffline ==
    []<>(pc \in {"dial", "failed"} \/ conn # 0 \/ stopping)

\* Stopping a Connector that is not connected ends the process.
StopEndsOffline ==
    stopping ~> pc \in {"exited", "failed"} \/ conn # 0

\* README: "unbinding immediately invalidates its credentials and disconnects
\* it": connect returns on device.revoke and its deferred Close ends the socket.
RevokedDisconnects == revoked ~> socket # "open"

\* The guide: "Stop or remove it with: ai-connector service stop": SIGTERM
\* cancels ctx, and Run returns.
StopEnds == stopping ~> pc \in {"exited", "failed"}
=============================================================================
