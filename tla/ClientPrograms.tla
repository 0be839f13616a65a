---------------------------- MODULE ClientPrograms ----------------------------
(***************************************************************************)
(* The programs that run a CONNECT-IP tunnel: strawc (src/src/bin/         *)
(* strawc.rs), the VPN client of strawcat (src/src/p2p/vpn.rs:             *)
(* run_client), the echo client (src/src/bin/test_client.rs), and a caller *)
(* of the library that asks for one more address.  Each is one task that   *)
(* composes the tunnel of TunnelClient with the kernel of InterfaceSetup,  *)
(* while the proxy writes, the network delivers, packets are dispatched    *)
(* and the process may be killed and started again.                        *)
(***************************************************************************)
EXTENDS TunnelClient, InterfaceSetup

CONSTANTS
    Option,         \* how a program was started: [program, pin, installRoutes]
    Mtu, MtuStep,   \* what the path may carry, and MTU_STEP
    Pings,          \* the --count of the echo client
    MaxStrays       \* bound: echoes that reach it and are of none of its pings

ASSUME ProgramAssumption ==
    /\ Option \subseteq [program : {"strawc", "vpn", "ping", "library"}, pin : BOOLEAN, installRoutes : BOOLEAN]
    /\ \A c \in Capsule : c.type = "assign" => c.value \in Seq(Assignable)
    /\ \A c \in Capsule : c.type = "routes" => c.value \in Seq([lo : Addr, hi : Addr, protocol : Nat])
    /\ Pings \in Nat /\ MaxStrays \in Nat

VARIABLES
    option,     \* how this program was started
    pc,         \* where it is
    after,      \* where it goes when the guard is dropped
    mtu,        \* the MTU of the device, and ...
    currentMtu, \* ... what the program takes it for
    signal,     \* a termination signal is pending with the `select!`
    before,     \* the routes of the kernel when this process started
    seq,        \* the last ping sent
    unanswered, \* pings that nothing has come back for
    echoed,     \* history: pings whose echo reached the client
    strays,     \* history: how many other echoes did
    received    \* the pings counted as received

program == <<option, pc, after>>
device == <<mtu, currentMtu>>
process == <<signal, before>>
ping == <<seq, unanswered, echoed, strays, received>>
vars == <<stream, tunnel, inbound, setup, program, device, process, ping>>

Init ==
    /\ ClientInit /\ SetupInit
    /\ option \in Option /\ pc = "connect" /\ after = "exit"
    /\ mtu = 0 /\ currentMtu = 0
    /\ signal = FALSE /\ before = kernelRoutes
    /\ seq = 0 /\ unanswered = {} /\ echoed = {} /\ strays = 0 /\ received = 0

Is(name) == option.program = name
Reads == pc \in {"await", "select", "reply"}
Tunnels == option.program \in {"strawc", "vpn"}
Goto(label) == pc' = label /\ UNCHANGED <<option, after>>
DropGuard(label) == pc' = "undo" /\ after' = label /\ UNCHANGED option

-------------------------------------------------------------------------------
(***************************************************************************)
(* Setting up.                                                             *)
(***************************************************************************)

\* The QUIC connection and HTTP/3 on it; the demux task runs from here on, with
\* no entry in its table.
Connect ==
    /\ pc = "connect" /\ Goto("request")
    /\ UNCHANGED <<stream, tunnel, inbound, setup, device, process, ping>>

\* The proxy answers 200 ...
Establish ==
    /\ pc = "request" /\ Goto("await")
    /\ DemuxInsert
    /\ UNCHANGED <<stream, tunnel, setup, device, process, ping>>

\* ... or something else, or there is no connection.
Rejected ==
    /\ pc \in {"connect", "request"} /\ Goto("exit")
    /\ UNCHANGED <<stream, tunnel, inbound, setup, device, process, ping>>

Assigned == assigned' # <<>> /\ routes' # <<>>

\* wait_for_assignment.
Await(n) ==
    /\ pc = "await"
    /\ ReadChunk(n)
    /\ Goto(IF DecodeFails(n) THEN "exit" ELSE IF Assigned THEN "ready" ELSE "await")
    /\ UNCHANGED <<stream, inbound, setup, device, process, ping>>

\* tunnel_mtu, which is small before the path MTU is discovered, and a bare TUN
\* device.
DeviceUp ==
    /\ pc = "ready" /\ Tunnels /\ Goto("plan")
    /\ mtu' = Min(Mtu) /\ currentMtu' = mtu'
    /\ UNCHANGED <<stream, tunnel, inbound, setup, process, ping>>

\* No datagrams, so no MTU; no device; no path; no IPv4 address to ping from.
SetupFails ==
    /\ pc \in {"ready", "plan"} /\ Goto("exit")
    /\ Fault("add")
    /\ UNCHANGED <<stream, tunnel, inbound, kernel, todo, undo, device, process, ping>>

\* apply: decide, look the path up, ...
Apply ==
    /\ pc = "plan" /\ Goto("run")
    /\ Realize(Plan(assigned, routes, option.pin, option.installRoutes))
    /\ UNCHANGED <<stream, tunnel, inbound, device, process, ping>>

\* ... and run the commands, each of which may fail.
Run ==
    /\ pc = "run"
    /\ \/ RunNext /\ UNCHANGED program
       \/ RunFails /\ DropGuard("exit")
    /\ UNCHANGED <<stream, tunnel, inbound, device, process, ping>>

\* Once configured for the first time, packets go to the TUN device.
Configured ==
    /\ pc = "run" /\ todo = <<>> /\ Goto("select")
    /\ IF demux = "queue" THEN SetPacketSink ELSE UNCHANGED inbound
    /\ UNCHANGED <<stream, tunnel, setup, device, process, ping>>

-------------------------------------------------------------------------------
(***************************************************************************)
(* The loop.  A branch that is taken drops the futures of the others, and  *)
(* with them a signal that was pending: the next `wait_for_termination`    *)
(* sees only later ones.                                                   *)
(***************************************************************************)

\* Mutant of Reconfigures: new addresses alone are not taken for a change.
Reconfigures_Routes(types) == "routes" \in types

Reconfigures(types) == types \cap {"assign", "routes"} # {}

Stopped == IF Is("strawc") THEN "close" ELSE "exit"

Capsules(n) ==
    /\ pc = "select"
    /\ ReadChunk(n)
    /\ IF DecodeFails(n) THEN DropGuard(Stopped)
       ELSE IF Reconfigures(Seen(n)) THEN DropGuard("plan")
       ELSE UNCHANGED program
    /\ signal' = (signal /\ Seen(n) = {} /\ ~DecodeFails(n))
    /\ UNCHANGED <<stream, inbound, setup, device, before, ping>>

\* The end of the stream ends the program wherever it reads.
StreamEnds ==
    /\ Reads
    /\ ReadEnd
    /\ IF pc = "select" THEN DropGuard(Stopped) ELSE Goto("exit")
    /\ signal' = FALSE
    /\ UNCHANGED <<stream, inbound, setup, device, before, ping>>

\* If the path carries more, the device is widened, unless the command fails.
MtuTick(sampled) ==
    /\ pc = "select" /\ Is("strawc")
    /\ \/ sampled >= currentMtu + MtuStep /\ mtu' = sampled /\ currentMtu' = sampled
       \/ UNCHANGED device
    /\ signal' = FALSE
    /\ UNCHANGED <<stream, tunnel, inbound, setup, program, before, ping>>

Signal ==
    /\ pc = "select" /\ Is("strawc") /\ ~signal
    /\ signal' = TRUE
    /\ UNCHANGED <<stream, tunnel, inbound, setup, program, device, before, ping>>

Terminate ==
    /\ pc = "select" /\ signal
    /\ DropGuard("close")
    /\ signal' = FALSE
    /\ UNCHANGED <<stream, tunnel, inbound, setup, device, before, ping>>

Undo ==
    /\ pc = "undo"
    /\ \/ UndoLast /\ UNCHANGED program
       \/ undo = <<>> /\ pc' = after /\ after' = "exit" /\ UNCHANGED <<option, setup>>
    /\ UNCHANGED <<stream, tunnel, inbound, device, process, ping>>

CloseClient ==
    /\ pc = "close" /\ Goto("exit")
    /\ Close
    /\ UNCHANGED <<stream, tunnel, setup, device, process, ping>>

Exit ==
    /\ pc = "exit" /\ Goto("done")
    /\ DeviceGone
    /\ UNCHANGED <<stream, tunnel, inbound, faults, device, process, ping>>

\* SIGKILL, or a signal that comes before the first `select!` has installed a
\* handler for it: nothing is undone.
Crash ==
    /\ pc # "done" /\ Tunnels /\ Goto("dead")
    /\ Fault("crash")
    /\ DeviceGone
    /\ UNCHANGED <<stream, tunnel, inbound, device, process, ping>>

\* Started again, on the kernel as it is.
Restart ==
    /\ pc = "dead" /\ Goto("connect")
    /\ before' = kernelRoutes
    /\ wire' = <<>> /\ fin' = FALSE /\ arrived' = 0
    /\ taken' = 0 /\ parsed' = 0
    /\ assigned' = <<>> /\ routes' = <<>>
    /\ demux' = "none" /\ queue' = <<>>
    /\ mtu' = 0 /\ currentMtu' = 0 /\ signal' = FALSE
    /\ seq' = 0 /\ unanswered' = {} /\ echoed' = {} /\ strays' = 0 /\ received' = 0
    /\ UNCHANGED setup

-------------------------------------------------------------------------------
(***************************************************************************)
(* The echo client, and a request for an address.                          *)
(***************************************************************************)
SendPing ==
    /\ Is("ping") /\ pc \in {"ready", "ping"} /\ seq < Pings
    /\ seq' = seq + 1
    /\ unanswered' = unanswered \cup {seq'}
    /\ Goto("wait")
    /\ UNCHANGED <<stream, tunnel, inbound, setup, device, process, echoed, strays, received>>

\* The packet does not fit a datagram, or the connection is gone.
SendFails ==
    /\ Is("ping") /\ pc \in {"ready", "ping"} /\ seq < Pings /\ Goto("exit")
    /\ UNCHANGED <<stream, tunnel, inbound, setup, device, process, ping>>

\* A ping comes back, or an ICMP error about it, at some time or never.
Answer(n, kind) ==
    /\ n \in unanswered /\ pc \notin {"dead", "done"}
    /\ unanswered' = unanswered \ {n}
    /\ echoed' = IF kind = "echo" THEN echoed \cup {n} ELSE echoed
    /\ Dispatch(kind)
    /\ UNCHANGED <<stream, tunnel, setup, program, device, process, seq, strays, received>>

\* An echo reaches the client that is of none of its pings, or of one for the
\* second time: another client's request comes by hairpin, the network repeats a
\* packet.  To the client it looks like its own.  (While it waits: one that comes
\* earlier is, to the client, as if it came when it waits.)
Stray ==
    /\ pc = "wait" /\ strays < MaxStrays
    /\ strays' = strays + 1
    /\ Dispatch("echo")
    /\ UNCHANGED <<stream, tunnel, setup, program, device, process, seq, unanswered, echoed, received>>

\* A payload that is no IP packet.
Garbage ==
    /\ pc = "wait"
    /\ Dispatch("garbage")
    /\ UNCHANGED <<stream, tunnel, setup, program, device, process, ping>>

\* Mutant of IsEcho: whatever comes back counts.
IsEcho_Any(packet) == packet \in {"echo", "error"}

\* An ICMP echo by its type, request or reply; nothing else of it is looked at.
IsEcho(packet) == packet = "echo"

\* Packets are taken from the queue until an echo or the deadline, whichever
\* ping they belong to; one that cannot be parsed ends the run.
RecvEcho ==
    /\ pc = "wait"
    /\ RecvPacket
    /\ IF IsEcho(Head(queue)) THEN received' = received + 1 /\ Goto("ping")
       ELSE /\ UNCHANGED received
            /\ IF Head(queue) = "garbage" THEN Goto("exit") ELSE UNCHANGED program
    /\ UNCHANGED <<stream, tunnel, setup, device, process, seq, unanswered, echoed, strays>>

\* So does the end of the connection, once the queue is empty.
RecvFails ==
    /\ pc = "wait" /\ queue = <<>> /\ Goto("exit")
    /\ UNCHANGED <<stream, tunnel, inbound, setup, device, process, ping>>

Deadline ==
    /\ pc = "wait" /\ Goto("ping")
    /\ UNCHANGED <<stream, tunnel, inbound, setup, device, process, ping>>

PingDone ==
    /\ pc = "ping" /\ seq = Pings /\ Goto("close")
    /\ UNCHANGED <<stream, tunnel, inbound, setup, device, process, ping>>

\* request_address writes an ADDRESS_REQUEST ...
RequestAddress ==
    /\ Is("library") /\ pc = "ready" /\ Goto("reply")
    /\ UNCHANGED <<stream, tunnel, inbound, setup, device, process, ping>>

\* ... and returns at the next ADDRESS_ASSIGN.
Reply(n) ==
    /\ pc = "reply"
    /\ ReadChunk(n)
    /\ Goto(IF DecodeFails(n) THEN "exit" ELSE IF "assign" \in Seen(n) THEN "close" ELSE "reply")
    /\ UNCHANGED <<stream, inbound, setup, device, process, ping>>

-------------------------------------------------------------------------------
\* The proxy writes from the 200 on, and what it writes arrives.  Only where the
\* program reads: what comes while it does something else is, to the program, as
\* if it came when it is back.
Proxying ==
    /\ Reads
    /\ \/ \E c \in Capsule : ProxyWrites(c)
       \/ ProxyEnds
    /\ UNCHANGED <<tunnel, inbound, setup, program, device, process, ping>>

Deliver ==
    /\ Reads
    /\ Arrive
    /\ UNCHANGED <<tunnel, inbound, setup, program, device, process, ping>>

Task ==
    \/ DeviceUp \/ Apply \/ Run \/ Configured \/ StreamEnds
    \/ \E n \in 1 .. arrived : Await(n) \/ Capsules(n) \/ Reply(n)
    \/ Terminate \/ Undo \/ CloseClient \/ Exit
    \/ SendPing \/ RecvEcho \/ Deadline \/ PingDone \/ RequestAddress

Next ==
    \/ Task \/ Proxying \/ Deliver
    \/ Connect \/ Establish \/ Rejected \/ SetupFails \/ SendFails \/ RecvFails
    \/ \E m \in Mtu : MtuTick(m)
    \/ Signal \/ Crash \/ Restart
    \/ \E n \in 1 .. Pings, kind \in {"echo", "error"} : Answer(n, kind)
    \/ Stray \/ Garbage

Spec == Init /\ [][Next]_vars

\* The task runs when it can, and what was written arrives.
FairSpec == Spec /\ WF_vars(Task) /\ WF_vars(Deliver)

-------------------------------------------------------------------------------
(***************************************************************************)
(* Properties.                                                             *)
(***************************************************************************)
Ended == pc \in {"done", "dead"}

\* The last capsule of a type among the first n of the stream.
Told(type, n) ==
    LET of == {i \in 1 .. n : wire[i].type = type}
    IN  IF of = {} THEN <<>> ELSE wire[Max(of)].value

\* Every variable has its type, and the stream is read in order: nothing is
\* decoded that was not taken, and nothing taken that has not arrived.
TypeOK ==
    /\ kernelRoutes \in [Prefix -> {"none", "uplink", "tunnel"}]
    /\ kernelAddrs \subseteq Assignable
    /\ pc \in {"connect", "request", "await", "ready", "plan", "run", "select", "undo", "close", "exit", "done",
               "dead", "ping", "wait", "reply"}
    /\ after \in {"plan", "close", "exit"}
    /\ demux \in {"none", "queue", "sink"} /\ Len(queue) <= QueueDepth
    /\ Pieces * parsed <= taken /\ taken <= arrived /\ arrived <= Pieces * Len(wire)
    /\ signal \in BOOLEAN

\* "There is never a moment where a default-route half captures the QUIC
\* connection" (realize): as long as no command of an undo list fails, a pinned
\* proxy is reached outside the tunnel, between any two commands, in every
\* reconfiguration, while tearing down, and after a crash and a restart.
TransportOffTunnel ==
    option.pin /\ "undo" \notin faults => PathTo(Proxy) # "tunnel"

\* "A fresh capsule replaces the installed state whole" (strawc.rs): when the
\* program waits, every capsule that was wholly read is in effect.  The device
\* has the addresses of the last ADDRESS_ASSIGN, a destination is routed to the
\* tunnel exactly when a range of the last ROUTE_ADVERTISEMENT for all protocols
\* holds it (the pinned proxy excepted), and the MTU is the one recorded.
KernelIsTold ==
    pc = "select" /\ "undo" \notin faults =>
        LET n == taken \div Pieces
            ranges == Told("routes", n)
            inRange(a) == \E i \in DOMAIN ranges :
                            ranges[i].protocol = 0 /\ a \in ranges[i].lo .. ranges[i].hi
        IN  /\ kernelAddrs = {Told("assign", n)[i] : i \in DOMAIN Told("assign", n)}
            /\ \A a \in Addr : PathTo(a) = "tunnel" <=>
                 option.installRoutes /\ inRange(a) /\ ~(option.pin /\ a = Proxy)
            /\ mtu = currentMtu

\* "Everything installed is removed again" (strawc.rs): a process that ends by
\* itself, on whatever error and however far it had come, leaves the kernel as
\* it found it, as long as no command of an undo list fails.
NothingLeft ==
    pc = "done" /\ "undo" \notin faults => kernelRoutes = before /\ kernelAddrs = {}

\* The echo client counts "never an ICMP error" (test_client.rs), and no echo
\* twice: however late the answers come, whichever ping they are taken for and
\* whatever the full queue drops, each ping that it counts stands for an echo of
\* its own that reached the client.
CountedHasCome == received <= Cardinality(echoed) + strays

\* "Count only a genuine echo back (a real reply, or the sender's own request
\* looped by a hairpin)" (test_client.rs): when every ping is counted, every ping
\* was echoed.  Refuted: is_echo asks for the ICMP type alone, so that an echo of
\* somebody else, or the second of one ping, counts for a ping that was lost.
AllReceivedAllEchoed == received = Pings => echoed = 1 .. Pings

\* A capsule that the proxy has written takes effect, or the program ends: the
\* `select!` may drop the read at any time and nothing of it is lost.
CapsulesTakeEffect ==
    Tunnels /\ parsed < Len(wire) ~> Ended \/ parsed = Len(wire)
===============================================================================
