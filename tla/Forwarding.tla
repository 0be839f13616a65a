------------------------------ MODULE Forwarding ------------------------------
(***************************************************************************)
(* The forwarding engine (src/src/forwarding/mod.rs): one packet on its    *)
(* way through the tables, while sessions come and go.                     *)
(*                                                                         *)
(* Packets are processed by the datagram demultiplexers of the connections *)
(* and by the reader of the TUN device.  These tasks write none of the     *)
(* tables, so the model follows one packet at a time; each step of it is   *)
(* one access to a table.  Sessions are set up and torn down by their      *)
(* handlers (session/handler.rs), here with the accesses to the tables of  *)
(* the engine; SessionLifecycle has the rest.                              *)
(***************************************************************************)
EXTENDS RouteTable

CONSTANTS
    Deployment, \* the deployments considered: the address the pool leases to each
                \* session, and whether there is a TUN device, [home, tun]
    Idler,      \* bound: the sessions that fall idle
    Scope,      \* Scope[s]: the ranges advertised to s, [addrs, protocol]
    Mtu,        \* the configured MTU
    PathSize,   \* PathSize[s]: the IP packet sizes that the path of s may carry
    Packet,     \* the packets that occur: [src, dst, protocol, length, ttl, error],
                \* where error marks ICMP errors; None is a packet that does not parse
    Unroutable, \* loopback, link-local, unspecified and broadcast addresses
    Outside     \* the sender of what comes from the TUN device

ASSUME EngineAssumption ==
    /\ Deployment \subseteq [home : [Session -> UNION Pools], tun : BOOLEAN]
    /\ Mtu \in Nat /\ PathSize \in [Session -> SUBSET Nat] /\ Idler \subseteq Session
    /\ Packet \subseteq [src : Addr, dst : Addr, protocol : Protocol, length : Nat, ttl : Nat, error : BOOLEAN]
    /\ Outside \notin Session \cup {None}

VARIABLES
    deployment, \* the deployment at hand
    stage,      \* stage[s]: where the handler of s is
    next,       \* next[s]: which of the engine's tables it registers or leaves next
    registry,   \* registry[s]: the engine's tables that have an entry for s
    mtu,        \* mtu[s]: the session's tunnel MTU
    snapshot,   \* the sessions whose assigned addresses are published
    reaper,     \* the session the reaper unregisters, and the table it is at
    walk,       \* the packet under way
    out         \* the packet or ICMP error that the last step sent

engine == <<deployment, stage, next, registry, mtu, snapshot, reaper>>
vars == <<table, engine, walk, out>>

home == deployment.home

\* The order in which register_session inserts (the limiter, which only refuses
\* packets, and the wake-up of the handler, in SessionLifecycle, follow) ...
Tables == <<"sink", "policy", "mtu">>

\* Mutant of Removal: what was inserted first goes last.
Removal_Reversed == <<"mtu", "policy", "sink">>

\* ... and unregister_session removes.
Removal == <<"sink", "policy", "mtu">>

Idle == [at |-> "idle"]

Init ==
    /\ TableInit
    /\ deployment \in Deployment
    /\ stage = [s \in Session |-> "new"]
    /\ next = [s \in Session |-> 1]
    /\ registry = [s \in Session |-> {}]
    /\ mtu = [s \in Session |-> Mtu]
    /\ snapshot = {}
    /\ reaper = None
    /\ walk = Idle
    /\ out = None

-------------------------------------------------------------------------------
(***************************************************************************)
(* The handlers.                                                           *)
(***************************************************************************)
Move(s, from, to) == stage[s] = from /\ stage' = [stage EXCEPT ![s] = to]

\* The sessions that hold the lease of an address.
Leasing(a) ==
    {s \in Session : home[s] = a /\ stage[s] \notin {"new", "withdraw", "purge", "unregister", "forget", "done"}}

Allocate(s) ==
    /\ Leasing(home[s]) = {}
    /\ Move(s, "new", "install")
    /\ UNCHANGED <<deployment, table, next, registry, mtu, snapshot, reaper, walk>>
    /\ out' = None

\* effective_mtu: what a datagram on the path carries now, capped.
EffectiveMtu(s) == {IF n < Mtu THEN n ELSE Mtu : n \in PathSize[s]}
SampleMtu(s) == \E n \in EffectiveMtu(s) : mtu' = [mtu EXCEPT ![s] = n]

\* The address is routed, and the MTU is sampled before it is registered.
Install(s) ==
    /\ Move(s, "install", "register")
    /\ InsertClientAddr(home[s], s)
    /\ SampleMtu(s)
    /\ UNCHANGED <<deployment, next, registry, snapshot, reaper, walk>>
    /\ out' = None

\* One table after the other, from the first to the last.
Through(s, from, to) ==
    /\ stage[s] = from
    /\ next' = [next EXCEPT ![s] = (@ % Len(Tables)) + 1]
    /\ stage' = [stage EXCEPT ![s] = IF next[s] = Len(Tables) THEN to ELSE @]

Register(s) ==
    /\ Through(s, "register", "publish")
    /\ registry' = [registry EXCEPT ![s] = @ \cup {Tables[next[s]]}]
    /\ UNCHANGED <<deployment, table, mtu, snapshot, reaper, walk>>
    /\ out' = None

\* set_assigned: from now on the demultiplexer knows the session.
Publish(s) ==
    /\ Move(s, "publish", "serving")
    /\ snapshot' = snapshot \cup {s}
    /\ UNCHANGED <<deployment, table, next, registry, mtu, reaper, walk>>
    /\ out' = None

\* A ROUTE_ADVERTISEMENT of the client, with --accept-client-routes.
Advertise(s) ==
    /\ stage[s] = "serving"
    /\ \E ranges \in Advertisement : ReplaceSessionRoutes(s, ranges)
    /\ UNCHANGED <<engine, walk>>
    /\ out' = None

RefreshMtu(s) ==
    /\ stage[s] = "serving"
    /\ SampleMtu(s)
    /\ UNCHANGED <<deployment, table, stage, next, registry, snapshot, reaper, walk>>
    /\ out' = None

\* The tunnel ends, or the capsules before it could not be sent; the address goes
\* back to the pool.
Release(s) ==
    /\ Move(s, "serving", "withdraw") \/ Move(s, "install", "withdraw")
    /\ UNCHANGED <<deployment, table, next, registry, mtu, snapshot, reaper, walk>>
    /\ out' = None

Withdraw(s) ==
    /\ Move(s, "withdraw", "purge")
    /\ RemoveAddrs(s)
    /\ UNCHANGED <<deployment, next, registry, mtu, snapshot, reaper, walk>>
    /\ out' = None

Purge(s) ==
    /\ Move(s, "purge", "unregister")
    /\ RemoveRoutes(s)
    /\ UNCHANGED <<deployment, next, registry, mtu, snapshot, reaper, walk>>
    /\ out' = None

Unregister(s) ==
    /\ Through(s, "unregister", "forget")
    /\ registry' = [registry EXCEPT ![s] = @ \ {Removal[next[s]]}]
    /\ UNCHANGED <<deployment, table, mtu, snapshot, reaper, walk>>
    /\ out' = None

\* sessions.remove drops the published addresses.
Forget(s) ==
    /\ Move(s, "forget", "done")
    /\ snapshot' = snapshot \ {s}
    /\ UNCHANGED <<deployment, table, next, registry, mtu, reaper, walk>>
    /\ out' = None

\* The reaper takes an idle session from the session table, and unregisters it.
Reap(s) ==
    /\ reaper = None /\ s \in Idler
    /\ stage[s] \notin {"new", "done"}
    /\ reaper' = [session |-> s, at |-> 1]
    /\ UNCHANGED <<deployment, table, stage, next, registry, mtu, snapshot, walk>>
    /\ out' = None

ReaperUnregister ==
    /\ reaper # None
    /\ registry' = [registry EXCEPT ![reaper.session] = @ \ {Removal[reaper.at]}]
    /\ reaper' = IF reaper.at = Len(Removal) THEN None ELSE [reaper EXCEPT !.at = @ + 1]
    /\ UNCHANGED <<deployment, table, stage, next, mtu, snapshot, walk>>
    /\ out' = None

Handler(s) ==
    \/ Allocate(s) \/ Install(s) \/ Register(s) \/ Publish(s)
    \/ Advertise(s) \/ RefreshMtu(s)
    \/ Release(s) \/ Withdraw(s) \/ Purge(s) \/ Unregister(s) \/ Forget(s) \/ Reap(s)

-------------------------------------------------------------------------------
(***************************************************************************)
(* A packet: run_datagram_demux, forward_from_client, forward_validated and *)
(* dispatch_from_network.                                                   *)
(***************************************************************************)
\* The sessions that are set up, and that nobody takes down.
Serving ==
    {s \in Session : /\ stage[s] = "serving"
                     /\ registry[s] = {"sink", "policy", "mtu"}
                     /\ reaper = None \/ reaper.session # s}

Allows(s, a, proto) == \E r \in Scope[s] : a \in r.addrs /\ Covers(r.protocol, proto)

At(label) == walk.at = label
Proceed(label) == walk' = [walk EXCEPT !.at = label] /\ out' = None
Drop == walk' = Idle /\ out' = None
Fail(why, size) == walk' = [walk EXCEPT !.at = "error", !.why = why, !.size = size] /\ out' = None

Begin(label, from, p) ==
    [at |-> label, from |-> from, packet |-> p, target |-> None,
     live |-> Serving, why |-> None, size |-> 0]

\* What forward_validated looks at before the tables: malformed and spoofed packets
\* earn no error, packets above the configured MTU do.
Validate(s, p) ==
    IF p = None \/ p.src # home[s] THEN Idle
    ELSE IF p.length > Mtu THEN [Begin("error", s, p) EXCEPT !.why = "too big", !.size = Mtu]
    ELSE IF p.dst \in Unroutable THEN Idle
    ELSE Begin("policy", s, p)

\* A datagram of a session the demultiplexer knows, unless the limiter refuses it.
FromClient ==
    /\ At("idle")
    /\ \E s \in snapshot, p \in Packet \cup {None} : walk' = Validate(s, p)
    /\ out' = None

\* A packet from the TUN device; one that does not parse is dropped.
FromNetwork ==
    /\ At("idle")
    /\ deployment.tun
    /\ \E p \in Packet : walk' = Begin("lookup", Outside, p)
    /\ out' = None

\* The sender's egress policy, and its hop.
Policy ==
    /\ At("policy")
    /\ IF ~("policy" \in registry[walk.from] /\ Allows(walk.from, walk.packet.dst, walk.packet.protocol))
       THEN Fail("prohibited", 0)
       ELSE IF walk.packet.ttl <= 1 THEN Fail("expired", 0)
       ELSE Proceed("lookup")

Found(s) == walk' = [walk EXCEPT !.at = "accept", !.target = s] /\ out' = None

Lookup ==
    /\ At("lookup")
    /\ LET s == clientAddrs[walk.packet.dst]
       IN  IF s # None THEN Found(s) ELSE Proceed("routes")

\* No session: a client's packet goes to the TUN device, unless its queue is full.
Routes ==
    /\ At("routes")
    /\ LET s == LookupRoute(walk.packet.dst, walk.packet.protocol)
       IN  IF s # None THEN Found(s)
           ELSE IF walk.from = Outside THEN Drop
           ELSE IF deployment.tun THEN Drop \/ (walk' = Idle /\ out' = [walk EXCEPT !.at = "tun"])
           ELSE Fail("no route", 0)

\* Mutant of Accept: the receiver's scope is not looked at.
Accept_Any ==
    /\ At("accept")
    /\ Proceed("mtu")

\* The receiver's scope.
Accept ==
    /\ At("accept")
    /\ IF "policy" \in registry[walk.target] /\ Allows(walk.target, walk.packet.src, walk.packet.protocol)
       THEN Proceed("mtu")
       ELSE IF walk.from = Outside THEN Drop ELSE Fail("prohibited", 0)

SessionMtu(s) == IF "mtu" \in registry[s] THEN mtu[s] ELSE Mtu

\* Mutant of PeerMtu: the configured MTU is reported instead of the session's.
PeerMtu_Configured ==
    /\ At("mtu")
    /\ IF walk.packet.length <= SessionMtu(walk.target)
       THEN IF walk.from = Outside /\ walk.packet.ttl <= 1 THEN Drop ELSE Proceed("deliver")
       ELSE IF walk.from = Outside THEN Drop ELSE Fail("too big", Mtu)

PeerMtu ==
    /\ At("mtu")
    /\ IF walk.packet.length <= SessionMtu(walk.target)
       THEN IF walk.from = Outside /\ walk.packet.ttl <= 1 THEN Drop ELSE Proceed("deliver")
       ELSE IF walk.from = Outside THEN Drop ELSE Fail("too big", SessionMtu(walk.target))

\* deliver_to_session: without a sink, on a path that narrowed under the packet, and
\* when the connection does not take the datagram, the packet is dropped.
Deliver ==
    /\ At("deliver")
    /\ \/ Drop
       \/ /\ "sink" \in registry[walk.target]
          /\ walk' = Idle /\ out' = walk

\* send_icmp_error: none about an ICMP error, and only if the sender can be reached.
SendError ==
    /\ At("error")
    /\ \/ Drop
       \/ /\ ~walk.packet.error
          /\ "sink" \in registry[walk.from]
          /\ walk' = Idle /\ out' = walk

Data ==
    /\ \/ FromClient \/ FromNetwork \/ Policy \/ Lookup \/ Routes
       \/ Accept \/ PeerMtu \/ Deliver \/ SendError
    /\ UNCHANGED <<table, engine>>

Next == Data \/ ReaperUnregister \/ \E s \in Session : Handler(s)

Spec == Init /\ [][Next]_vars

-------------------------------------------------------------------------------
Label == {"policy", "lookup", "routes", "accept", "mtu", "deliver", "error", "tun"}

Walk ==
    [at : Label, from : Session \cup {Outside}, packet : Packet,
     target : Session \cup {None}, live : SUBSET Session,
     why : {"too big", "prohibited", "expired", "no route", None}, size : Nat]

TypeOK ==
    /\ clientAddrs \in [Addr -> Session \cup {None}]
    /\ \A x \in routes : /\ x.prefix \in Prefix /\ x.protocol \in Protocol /\ x.session \in Session
                         /\ stage[x.session] \in {"serving", "withdraw", "purge"}
    /\ stage \in [Session -> {"new", "install", "register", "publish", "serving", "withdraw",
                              "purge", "unregister", "forget", "done"}]
    /\ deployment \in Deployment
    /\ next \in [Session -> DOMAIN Tables]
    /\ registry \in [Session -> SUBSET {"sink", "policy", "mtu"}]
    /\ reaper = None \/ reaper \in [session : Session, at : DOMAIN Removal]
    /\ mtu \in [Session -> Nat] /\ \A s \in Session : mtu[s] <= Mtu
    /\ snapshot \subseteq Session
    /\ \A s \in snapshot : stage[s] \in {"serving", "withdraw", "purge", "unregister", "forget"}
    /\ walk = Idle \/ walk \in Walk
    /\ out = None \/ out \in Walk

Sent(label) == out # None /\ out.at = label

\* The pool leases an address again as soon as the tunnel is over, before its
\* routes and sinks are gone.  Still, a packet for a session that serves from the
\* moment the packet is read until it is sent goes to that session: never to the
\* one that had the address before, nor to one that advertised it, nor out of the
\* TUN device (route_table.lookup, remove_session).
ServingReceives ==
    \A v \in Serving :
        out # None /\ out.at # "error" /\ v \in out.live /\ out.packet.dst = home[v] =>
            Sent("deliver") /\ out.target = v

\* "A flow-scoped session only accepts packets from within its scope"
\* (forward_validated): what a client receives came from an address that was
\* advertised to it, and what was sent by a client went to an address that was
\* advertised to the sender, whoever held the addresses in between.
DeliveredInScope ==
    Sent("deliver") \/ Sent("tun") =>
        LET p == out.packet
        IN  /\ Sent("deliver") => Allows(out.target, p.src, p.protocol)
            /\ out.from # Outside => Allows(out.from, p.dst, p.protocol) /\ p.src = home[out.from]

\* "Destination outside the advertised routes" (IcmpErrorKind::AdminProhibited): a
\* client is told so only about a destination outside its own routes, or about a
\* receiver that is out of scope or going away, and never because its own policy
\* was removed under it.  unregister_session removes the sink before the policy.
NoFalseProhibition ==
    Sent("error") /\ out.why = "prohibited" /\ out.from \in out.live =>
        LET p == out.packet
        IN  Allows(out.from, p.dst, p.protocol) =>
                /\ out.target # None
                /\ ~(Allows(out.target, p.src, p.protocol) /\ out.target \in out.live \cap Serving)

\* "No ICMP for senders we cannot trust" (forward_validated), "never answer an
\* ICMP error with another" (build_icmp_error): an error is sent only to the
\* session that holds the source address of the packet it is about.
ErrorsTrusted ==
    Sent("error") => out.packet.src = home[out.from] /\ ~out.packet.error

\* A sender that follows a PacketTooBig makes progress: the size it reports is
\* smaller than the packet, although the path and the session's MTU change while
\* the packet is under way, and although the session may be gone (session_mtu).
TooBigHelps ==
    Sent("error") /\ out.why = "too big" => out.size < out.packet.length
================================================================================
