------------------------------ MODULE ProxyServer ------------------------------
(***************************************************************************)
(* The processes that serve CONNECT-IP: the proxy (src/src/main.rs and     *)
(* server.rs) from its start to the end of its graceful shutdown, and the  *)
(* listening peer of strawcat's VPN (p2p/vpn.rs), which serves a single    *)
(* connection.  They drive the handlers of SessionLifecycle and the NAT    *)
(* rules of NatRules.                                                      *)
(*                                                                         *)
(* Whatever a process holds goes when it ends, by itself or by a crash;    *)
(* only the kernel's NAT rules stay, and the process may be started again. *)
(***************************************************************************)
EXTENDS SessionLifecycle, NatRules

CONSTANTS
    Conn,           \* connections, one per client
    BindSession,    \* CONNECT-UDP bind requests
    StreamOf,       \* the connection of each request stream
    MaxLives        \* bound: how often the process is started

ASSUME ServerAssumption == StreamOf \in [Session \cup BindSession -> Conn] /\ MaxLives \in Nat

VARIABLES
    host,       \* which program this is: "proxy" or "peer"
    main,       \* where its main task is
    lives,      \* how often it has been started
    shutdown,   \* the version of the shutdown watch: 1 once it has been sent
    accepting,  \* run_server's accept loop is running
    loopRx,     \* the version of the watch that the loop's receiver has seen
    graceOver,  \* the grace period has expired
    conn,       \* conn[c]: where the task of connection c is
    up,         \* the QUIC connections that are not closed
    demux,      \* the connections whose datagram demultiplexer runs
    rx,         \* rx[c]: the version that the receiver of connection c has seen
    goaway,     \* the connections that were sent a GOAWAY
    asked,      \* the request streams that were accepted
    bind        \* bind[b]: the handler of bind request b

process == <<shutdown, accepting, loopRx, graceOver, conn, up, demux, rx, goaway, asked, bind>>
server == <<host, main, lives, process>>
allVars == <<vars, nat, server>>

Dead == {"exit", "failed", "crashed"}
StreamsOf(c) == {s \in Session : StreamOf[s] = c}

ProcessInit ==
    /\ shutdown = 0 /\ accepting = FALSE /\ loopRx = 0 /\ graceOver = FALSE
    /\ conn = [c \in Conn |-> "none"] /\ rx = [c \in Conn |-> 0]
    /\ up = {} /\ demux = {} /\ goaway = {} /\ asked = {}
    /\ bind = [b \in BindSession |-> "new"]

ServerInit ==
    /\ Init /\ NatInit /\ ProcessInit
    /\ host \in {"proxy", "peer"}
    /\ main = "tun"
    /\ lives = 1

\* Bound: requests come to the first process, and before a fault: the tables
\* of the sessions and the NAT rules have nothing in common.
Undisturbed == lives = 1 /\ faults = 0

Main(from, to) == main = from /\ main' = to

\* The process ends and takes everything with it that is not the kernel's.
Ends(how) ==
    /\ main' = how
    /\ pc' = [s \in Session |-> "new"]
    /\ left' = [s \in Session |-> Pools]
    /\ mine' = [s \in Session |-> {}]
    /\ owner' = [a \in Addr |-> None]
    /\ snapshot' = [s \in Session |-> None]
    /\ clientAddrs' = [a \in Addr |-> None]
    /\ sessions' = {} /\ routes' = {} /\ sinks' = {} /\ notify' = {} /\ woken' = {} /\ idle' = {}
    /\ reap' = {} /\ reaping' = None
    /\ ended' = {}
    /\ chunks' = [s \in Session |-> 0]
    /\ shutdown' = 0 /\ accepting' = FALSE /\ loopRx' = 0 /\ graceOver' = FALSE
    /\ conn' = [c \in Conn |-> "none"] /\ rx' = [c \in Conn |-> 0]
    /\ up' = {} /\ demux' = {} /\ goaway' = {} /\ asked' = {}
    /\ bind' = [b \in BindSession |-> "new"]
    /\ UNCHANGED <<host, lives>>

-------------------------------------------------------------------------------
(***************************************************************************)
(* The main task of the proxy: run in main.rs.                             *)
(***************************************************************************)

\* The TUN device is up; NAT comes next ...
SpawnTun ==
    /\ host = "proxy"
    /\ Main("tun", "nat")
    /\ StartSetup
    /\ UNCHANGED <<vars, host, lives, process>>

\* ... command by command.
SetupNat ==
    /\ main = "nat"
    /\ Sysctl \/ Masquerade \/ MasqueradeUnchecked
    /\ UNCHANGED <<vars, server>>

\* A bad configuration, a device or a NAT command that fails: run returns.
StartFails ==
    \/ main = "tun" /\ Fault /\ Ends("failed") /\ UNCHANGED <<natRules, setup, guard, unchecked>>
    \/ main = "nat" /\ SetupFails /\ Ends("failed")

\* The endpoint, the bind state, the metrics listener and the reaper are up.
Listen ==
    /\ setup = <<>>
    /\ Main("nat", "serve")
    /\ accepting' = TRUE
    /\ UNCHANGED <<vars, nat, host, lives, shutdown, loopRx, graceOver, conn, up, demux, rx, goaway,
                   asked, bind>>

\* One of them fails: run returns, and the guard is dropped on the way.
ListenFails ==
    /\ setup = <<>>
    /\ Main("nat", "unwind")
    /\ Fault
    /\ UNCHANGED <<vars, natRules, setup, guard, unchecked, host, lives, process>>

\* SIGINT or SIGTERM: the watch is set and the drain begins.
Terminate ==
    /\ host = "proxy"
    /\ Main("serve", "drain")
    /\ shutdown' = 1
    /\ UNCHANGED <<vars, nat, host, lives, accepting, loopRx, graceOver, conn, up, demux, rx, goaway,
                   asked, bind>>

\* Mutant of Drained: the engine's registry is polled instead of the table.
Drained_Engine ==
    /\ Main("drain", "close")
    /\ sinks = {}
    /\ UNCHANGED <<vars, nat, host, lives, process>>

\* A poll of the session table finds it empty ...
Drained ==
    /\ Main("drain", "close")
    /\ sessions = {}
    /\ UNCHANGED <<vars, nat, host, lives, process>>

\* ... or the grace period is over.
GraceExpires ==
    /\ Main("drain", "close")
    /\ graceOver' = TRUE
    /\ UNCHANGED <<vars, nat, host, lives, shutdown, accepting, loopRx, conn, up, demux, rx, goaway,
                   asked, bind>>

\* Closing the endpoint closes every connection and fails every stream.
CloseEndpoint ==
    /\ Main("close", "idle")
    /\ up' = {}
    /\ ended' = ended \cup asked
    /\ UNCHANGED <<handler, tables, engine, idle, reaper, chunks, nat, host, lives, shutdown,
                   accepting, loopRx, graceOver, conn, demux, rx, goaway, asked, bind>>

\* wait_idle returns and the accept loop is aborted.
Idled ==
    /\ Main("idle", "unwind")
    /\ accepting' = FALSE
    /\ UNCHANGED <<vars, nat, host, lives, shutdown, loopRx, graceOver, conn, up, demux, rx, goaway,
                   asked, bind>>

Unwind ==
    /\ main = "unwind"
    /\ DropRule \/ DropFails
    /\ UNCHANGED <<vars, server>>

Exit ==
    /\ main = "unwind" /\ guard = <<>>
    /\ Ends("exit")
    /\ UNCHANGED nat

\* The process is killed.  A signal that arrives before wait_for_termination
\* listens for it does the same.
Crash ==
    /\ main \notin Dead
    /\ Fault
    /\ Ends("crashed")
    /\ setup' = <<>> /\ guard' = <<>>
    /\ UNCHANGED <<natRules, unchecked>>

Restart ==
    /\ main \in Dead /\ lives < MaxLives
    /\ main' = "tun"
    /\ lives' = lives + 1
    /\ UNCHANGED <<vars, nat, host, process>>

-------------------------------------------------------------------------------
(***************************************************************************)
(* The accept loop and the connections: run_server and handle_connection   *)
(* in server.rs, run_server in p2p/vpn.rs.                                 *)
(***************************************************************************)

\* The peer's process builds its context around a TUN device ...
BuildContext ==
    /\ host = "peer"
    /\ Main("tun", "context")
    /\ UNCHANGED <<vars, nat, host, lives, process>>

\* ... and serves the connection it has.
ServePeer(c) ==
    /\ Main("context", "serve")
    /\ conn' = [conn EXCEPT ![c] = "build"]
    /\ up' = {c} /\ demux' = {c}
    /\ UNCHANGED <<vars, nat, host, lives, shutdown, accepting, loopRx, graceOver, rx, goaway, asked, bind>>

\* Mutant of Incoming: the connection subscribes to the watch anew.
Incoming_Current(c) ==
    /\ accepting /\ main \in {"serve", "drain", "close"}
    /\ conn[c] = "none"
    /\ conn' = [conn EXCEPT ![c] = "handshake"]
    /\ up' = up \cup {c}
    /\ rx' = [rx EXCEPT ![c] = shutdown]
    /\ UNCHANGED <<vars, nat, host, main, lives, shutdown, accepting, loopRx, graceOver, demux, goaway,
                   asked, bind>>

\* A connection is taken and its task spawned, with a clone of the loop's
\* receiver: the clone has seen what that one has.
Incoming(c) ==
    /\ accepting /\ main \in {"serve", "drain", "close"}
    /\ conn[c] = "none"
    /\ conn' = [conn EXCEPT ![c] = "handshake"]
    /\ up' = up \cup {c}
    /\ rx' = [rx EXCEPT ![c] = loopRx]
    /\ UNCHANGED <<vars, nat, host, main, lives, shutdown, accepting, loopRx, graceOver, demux, goaway,
                   asked, bind>>

\* The loop ends on the shutdown, or when the endpoint is closed.
StopAccepting ==
    /\ accepting
    /\ loopRx # shutdown \/ main = "idle"
    /\ accepting' = FALSE
    /\ loopRx' = shutdown
    /\ UNCHANGED <<vars, nat, host, main, lives, shutdown, graceOver, conn, up, demux, rx, goaway,
                   asked, bind>>

TaskMoves(c, from, to) ==
    /\ main \notin Dead
    /\ conn[c] = from
    /\ conn' = [conn EXCEPT ![c] = to]
    /\ UNCHANGED <<nat, host, main, lives, shutdown, accepting, loopRx, graceOver, asked, bind>>

Connection(c, from, to) == TaskMoves(c, from, to) /\ UNCHANGED vars

\* A closed connection fails its streams.
Close(c) ==
    /\ up' = up \ {c}
    /\ ended' = ended \cup (asked \cap StreamsOf(c))
    /\ UNCHANGED <<handler, tables, engine, idle, reaper, chunks>>

\* The demultiplexer is spawned before HTTP/3 is set up ...
Handshake(c) ==
    /\ Connection(c, "handshake", "build")
    /\ demux' = demux \cup {c}
    /\ UNCHANGED <<up, rx, goaway>>

HandshakeFails(c) ==
    /\ Connection(c, "handshake", "ended")
    /\ up' = up \ {c}
    /\ UNCHANGED <<demux, rx, goaway>>

BuildH3(c) ==
    /\ Connection(c, "build", "open")
    /\ UNCHANGED <<up, demux, rx, goaway>>

\* ... and is not aborted if that fails.
BuildFails(c) ==
    /\ Connection(c, "build", "ended")
    /\ UNCHANGED <<up, demux, rx, goaway>>

\* The shutdown branch of the loop: changed() returns ...
SeeShutdown(c) ==
    /\ rx[c] # shutdown
    /\ Connection(c, "open", "announce")
    /\ rx' = [rx EXCEPT ![c] = shutdown]
    /\ UNCHANGED <<up, demux, goaway>>

\* ... and the GOAWAY is sent; no request is accepted meanwhile.
SendGoaway(c) ==
    /\ c \in up
    /\ Connection(c, "announce", "open")
    /\ goaway' = goaway \cup {c}
    /\ UNCHANGED <<up, demux, rx>>

\* The ways out of the loop: the GOAWAY cannot be sent, the connection is closed,
\* or (Finishes) h3 has no more requests.  All abort the demultiplexer, and h3
\* closes the connection when it is dropped.
LoopEnds(c) ==
    /\ \/ TaskMoves(c, "announce", "ended")
       \/ TaskMoves(c, "open", "ended") /\ c \notin up
    /\ Close(c)
    /\ demux' = demux \ {c}
    /\ UNCHANGED <<rx, goaway>>

RequestsOf(c) == {s \in asked : StreamOf[s] = c} \cup {b \in BindSession : StreamOf[b] = c /\ bind[b] # "new"}

\* Every request is done, and the client said that it has no others, or tried one
\* after the GOAWAY.
Finishes(c) ==
    /\ TaskMoves(c, "open", "ended")
    /\ \A r \in RequestsOf(c) : IF r \in Session THEN pc[r] \in {"done", "refused"} ELSE bind[r] = "done"
    /\ Close(c)
    /\ demux' = demux \ {c}
    /\ UNCHANGED <<rx, goaway>>

\* h3 takes a request on an open connection.  After a GOAWAY it takes those up to
\* the last it took before, or the first one of all.
Takes(c) == conn[c] = "open" /\ c \in up /\ (c \in goaway => RequestsOf(c) = {})

\* A request stream is accepted and its handler spawned.  The proxy tells bind
\* requests by their :protocol.
AcceptRequest(s) ==
    /\ Takes(StreamOf[s])
    /\ s \notin asked /\ Undisturbed
    /\ asked' = asked \cup {s}
    /\ UNCHANGED <<vars, nat, host, main, lives, shutdown, accepting, loopRx, graceOver, conn, up, demux,
                   rx, goaway, bind>>

Bind(b, from, to) ==
    /\ bind[b] = from
    /\ bind' = [bind EXCEPT ![b] = to]
    /\ UNCHANGED <<vars, nat, host, main, lives, shutdown, accepting, loopRx, graceOver, conn, up, demux,
                   rx, goaway, asked>>

AcceptBind(b) ==
    /\ host = "proxy"
    /\ Takes(StreamOf[b])
    /\ Undisturbed
    /\ Bind(b, "new", "asked")

\* The bind handler up to its capsule loop, and its teardown.
BindServes(b) == Bind(b, "asked", "served")
BindEnds(b) == Bind(b, "asked", "done") \/ Bind(b, "served", "done")

\* The client closes its connection, or it times out.
ClientCloses(c) ==
    /\ c \in up
    /\ Close(c)
    /\ UNCHANGED <<nat, host, main, lives, shutdown, accepting, loopRx, graceOver, conn, demux, rx,
                   goaway, asked, bind>>

\* read_datagram fails when the connection is closed.
DemuxEnds(c) ==
    /\ c \in demux \ up
    /\ demux' = demux \ {c}
    /\ UNCHANGED <<vars, nat, host, main, lives, shutdown, accepting, loopRx, graceOver, conn, up, rx,
                   goaway, asked, bind>>

\* The peer's process returns with its connection.
PeerReturns(c) ==
    /\ host = "peer"
    /\ conn[c] = "ended"
    /\ Main("serve", "unwind")
    /\ UNCHANGED <<vars, nat, host, lives, process>>

-------------------------------------------------------------------------------
(***************************************************************************)
(* The sessions, while the process runs.  There is no idle reaper: the     *)
(* peer has none, and neither has a proxy with an idle timeout of zero.    *)
(***************************************************************************)
HandlerStep(s) == s \in asked /\ Handler(s) /\ UNCHANGED <<nat, server>>

SessionStep(s) ==
    /\ s \in asked
    /\ \/ Refuse(s) \/ Admit(s) \/ MtuTick(s)
       \/ ReceiveAddressRequest(s) \/ ReceiveRoutes(s) \/ ReceiveMalformed(s)
       \/ EndStream(s)
    /\ UNCHANGED <<nat, server>>

MainStep ==
    \/ SpawnTun \/ SetupNat \/ Listen \/ GraceExpires \/ Drained
    \/ CloseEndpoint \/ Idled \/ Unwind \/ Exit
    \/ BuildContext \/ \E c \in Conn : ServePeer(c) \/ PeerReturns(c)

ConnStep(c) ==
    \/ Handshake(c) \/ HandshakeFails(c) \/ BuildH3(c) \/ BuildFails(c)
    \/ SeeShutdown(c) \/ SendGoaway(c) \/ LoopEnds(c)

ServerNext ==
    \/ MainStep
    \/ StartFails \/ ListenFails \/ Terminate \/ Crash \/ Restart
    \/ StopAccepting
    \/ \E c \in Conn : Incoming(c) \/ ConnStep(c) \/ Finishes(c) \/ DemuxEnds(c) \/ ClientCloses(c)
    \/ \E s \in Session : AcceptRequest(s) \/ HandlerStep(s) \/ SessionStep(s)
    \/ \E b \in BindSession : AcceptBind(b) \/ BindServes(b) \/ BindEnds(b)

\* Every task that can run runs; the grace period passes.  Clients owe nothing.
ServerFairness ==
    /\ WF_allVars(MainStep)
    /\ WF_allVars(StopAccepting)
    /\ \A c \in Conn : WF_allVars(ConnStep(c)) /\ WF_allVars(DemuxEnds(c))
    /\ \A s \in Session : WF_allVars(HandlerStep(s))

ServerSpec == ServerInit /\ [][ServerNext]_allVars /\ ServerFairness

-------------------------------------------------------------------------------
(***************************************************************************)
(* Properties.                                                             *)
(***************************************************************************)

\* The tables of the sessions keep their types and a dead process holds nothing.
ServerTypeOK ==
    /\ TypeOK
    /\ main \in {"tun", "context", "nat", "serve", "drain", "close", "idle", "unwind"} \cup Dead
    /\ conn \in [Conn -> {"none", "handshake", "build", "open", "announce", "ended"}]
    /\ shutdown \in {0, 1} /\ rx \in [Conn -> {0, 1}]
    /\ up \cup demux \cup goaway \subseteq Conn
    /\ bind \in [BindSession -> {"new", "asked", "served", "done"}]
    /\ main \in Dead => sessions = {} /\ guard = <<>>

\* "The guard removes the rules again on shutdown" (main.rs): once a run of the
\* proxy that got its guard has returned, by a shutdown or by a listener that
\* fails, the chain holds no rule of the pools, not even one that an earlier,
\* crashed process left there, except as many as commands of iptables failed on
\* the way.  And "Idempotence" (nat.rs): however often processes crash or fail in
\* setup_nat, they never pile up more than one rule besides these.
RulesAreRemoved ==
    \A f \in Family : /\ host = "proxy" /\ main = "exit" => natRules[f] <= unchecked
                      /\ natRules[f] <= unchecked + 1

\* The same of a run that fails in setup_nat or before it: refuted, for a `?` in
\* there returns without a guard for the rules that are already in the chain.
FailedStartLeavesNothing == main = "failed" => \A f \in Family : natRules[f] <= unchecked

\* A graceful shutdown that ends before its grace period closes the endpoint
\* only when no tunnel is left to cut: at that poll every address is back in
\* the pool and no packet of the network can be on its way to a client.
DrainedIsReleased ==
    [][main = "drain" /\ main' = "close" /\ ~graceOver' =>
         /\ \A a \in Addr : owner[a] = None /\ clientAddrs[a] = None
         /\ sinks = {} /\ routes = {}]_allVars

\* "Established connections receive an HTTP/3 GOAWAY" (server.rs): none misses
\* the shutdown, whether it was taken before or after the watch was set, was in its
\* handshake or served a request then: until its GOAWAY is sent, or about to be,
\* its receiver has yet to see the change, so that changed() returns.
GoawayIsNotMissed ==
    \A c \in Conn : shutdown = 1 /\ conn[c] \in {"handshake", "build", "open"} /\ c \notin goaway
                    => rx[c] # shutdown

\* When a client ends its stream or its connection, or the proxy closes it, the
\* handler runs its teardown to the end, unless the process ends first.
EndedIsTornDownOrGone ==
    \A s \in Session : s \in ended /\ s \in sessions ~> pc[s] = "done" \/ main \in Dead

\* "Existing tunnels continue until the grace period closes the endpoint"
\* (server.rs), for bind sessions: refuted, for the drain polls the table of
\* CONNECT-IP sessions alone.
BindTunnelsContinue ==
    [][main = "drain" /\ main' = "close" /\ ~graceOver' =>
         \A b \in BindSession : bind[b] # "served"]_allVars
===============================================================================
