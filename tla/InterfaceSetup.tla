---------------------------- MODULE InterfaceSetup ----------------------------
(***************************************************************************)
(* What a client does to the kernel (src/src/iface): the addresses of the  *)
(* TUN device and the routes through it, put there one command at a time   *)
(* and taken away again in reverse order, and the host route that pins the *)
(* proxy to the path it had before the tunnel.                             *)
(*                                                                         *)
(* The kernel is external.  It has one route for a prefix, refuses to add  *)
(* a second and to delete one that is not there, and sends a packet along  *)
(* the most specific prefix.  A command is [kind, key, dev]; that its      *)
(* `add` and its `del` spell the same key on a platform is what addr_cmd,  *)
(* route_cmd and pin_cmd are for.                                          *)
(***************************************************************************)
EXTENDS Prefixes, Sequences

CONSTANTS
    Proxy,          \* the address of the proxy
    Assignable,     \* the addresses that are given to clients
    MaxFaults       \* bound: how many kinds of fault a behaviour may have

ASSUME SetupAssumption ==
    /\ Addr \subseteq Nat /\ IsFiniteSet(Addr) /\ Proxy \in Addr /\ Addr # {Proxy} /\ Assignable \subseteq Addr
    /\ Prefix \subseteq SUBSET Addr /\ Addr \in Prefix /\ \A a \in Addr : {a} \in Prefix
    /\ \A p, q \in Prefix : p \cap q = {} \/ p \subseteq q \/ q \subseteq p
    /\ MaxFaults \in Nat

VARIABLES
    kernelRoutes,   \* prefix -> the device it is routed to, or "none"
    kernelAddrs,    \* the addresses of the TUN device
    todo,           \* the commands that `realize` has still to run
    undo,           \* the undo list of the guard
    faults          \* the kinds of fault that have happened: a command that fails
                    \* without a reason of the kernel's, "add" or "undo", and "crash"

kernel == <<kernelRoutes, kernelAddrs>>
setup == <<kernel, todo, undo, faults>>

\* Before the tunnel there is the default route, and nothing else.
SetupInit ==
    /\ kernelRoutes = [p \in Prefix |-> IF p = Addr THEN "uplink" ELSE "none"]
    /\ kernelAddrs = {}
    /\ todo = <<>> /\ undo = <<>>
    /\ faults = {}

Fault(kind) ==
    /\ kind \notin faults /\ Cardinality(faults) < MaxFaults
    /\ faults' = faults \cup {kind}

\* The kernel's answer to `ip route get`, parsed by parse_route_get.
PathTo(dst) ==
    LET via == {p \in Prefix : dst \in p /\ kernelRoutes[p] # "none"}
        best == {p \in via : \A q \in via : p \subseteq q}
    IN  IF best = {} THEN "none" ELSE kernelRoutes[CHOOSE p \in best : TRUE]

-------------------------------------------------------------------------------
(***************************************************************************)
(* The plan.                                                               *)
(***************************************************************************)

\* A default route is two halves, so that the one before the tunnel stays.
SplitDefault(p) ==
    IF p # Addr THEN {p}
    ELSE {q \in Prefix \ {Addr} : \A r \in Prefix \ {Addr} : q \subseteq r => q = r}

\* A routing table cannot express a protocol, and a range may be malformed.
PrefixesFromRanges(ranges) ==
    UNION {UNION {SplitDefault(p) : p \in Subnets(ranges[i])} :
             i \in {j \in DOMAIN ranges : ranges[j].protocol = 0 /\ ranges[j].lo <= ranges[j].hi}}

Plan(assigned, routes, pin, installRoutes) ==
    [addresses |-> assigned,
     routes |-> IF installRoutes THEN PrefixesFromRanges(routes) ELSE {},
     keepOffTunnel |-> installRoutes /\ pin]

AddrCmd(a) == [kind |-> "addr", key |-> {a}, dev |-> "tunnel"]
RouteCmd(p) == [kind |-> "route", key |-> p, dev |-> "tunnel"]
PinCmd(dev) == [kind |-> "route", key |-> {Proxy}, dev |-> dev]

\* The prefixes are sorted by address, and then the shorter prefix first.
NetOrder(p, q) == Network(p) < Network(q) \/ (Network(p) = Network(q) /\ q \subseteq p /\ p # q)

\* `sort` and `dedup`: each prefix once, in that order.
Sorted(prefixes) ==
    {s \in [1 .. Cardinality(prefixes) -> prefixes] :
        /\ \A p \in prefixes : \E i \in DOMAIN s : s[i] = p
        /\ \A i, j \in DOMAIN s : i < j => NetOrder(s[i], s[j])}

AddrCmds(addresses) == [i \in DOMAIN addresses |-> AddrCmd(addresses[i])]
RouteCmds(sorted) == [i \in DOMAIN sorted |-> RouteCmd(sorted[i])]

\* Mutant of Commands: the pin comes after the routes.
Commands_PinLast(want, path, sorted) ==
    AddrCmds(want.addresses) \o RouteCmds(sorted)
        \o (IF want.keepOffTunnel THEN <<PinCmd(path)>> ELSE <<>>)

Commands(want, path, sorted) ==
    (IF want.keepOffTunnel THEN <<PinCmd(path)>> ELSE <<>>)
        \o AddrCmds(want.addresses) \o RouteCmds(sorted)

-------------------------------------------------------------------------------
(***************************************************************************)
(* Realizing it, and the guard.                                            *)
(***************************************************************************)
Exists(cmd) == IF cmd.kind = "addr" THEN cmd.key \subseteq kernelAddrs
               ELSE kernelRoutes[cmd.key] # "none"

\* A `del` names the device (or the gateway) too.
Deletable(cmd) == IF cmd.kind = "addr" THEN cmd.key \subseteq kernelAddrs
                  ELSE kernelRoutes[cmd.key] = cmd.dev

Put(cmd, dev) ==
    IF cmd.kind = "addr"
    THEN /\ kernelAddrs' = IF dev = "none" THEN kernelAddrs \ cmd.key ELSE kernelAddrs \cup cmd.key
         /\ UNCHANGED kernelRoutes
    ELSE /\ kernelRoutes' = [kernelRoutes EXCEPT ![cmd.key] = dev]
         /\ UNCHANGED kernelAddrs

\* The path is asked for before anything is installed; without one, nothing is.
Realize(want) ==
    /\ want.keepOffTunnel => PathTo(Proxy) # "none"
    /\ \E sorted \in Sorted(want.routes) : todo' = Commands(want, PathTo(Proxy), sorted)
    /\ UNCHANGED <<kernel, undo, faults>>

\* Mutant of RunNext: the undo is kept only once everything is installed.
RunNext_UndoAtEnd ==
    /\ todo # <<>> /\ ~Exists(Head(todo))
    /\ Put(Head(todo), Head(todo).dev)
    /\ undo' = IF Len(todo) = 1 THEN Append(undo, Head(todo)) ELSE undo
    /\ todo' = Tail(todo)
    /\ UNCHANGED faults

RunNext ==
    /\ todo # <<>> /\ ~Exists(Head(todo))
    /\ Put(Head(todo), Head(todo).dev)
    /\ undo' = Append(undo, Head(todo))
    /\ todo' = Tail(todo)
    /\ UNCHANGED faults

\* An error leaves `realize` at once, and its guard is dropped.
RunFails ==
    /\ todo # <<>>
    /\ \/ Exists(Head(todo)) /\ UNCHANGED faults
       \/ Fault("add")
    /\ todo' = <<>>
    /\ UNCHANGED <<kernel, undo>>

\* Drop of the guard, from the end of its list; a failure is only logged.
UndoLast ==
    /\ undo # <<>>
    /\ undo' = SubSeq(undo, 1, Len(undo) - 1)
    /\ \/ /\ Deletable(undo[Len(undo)])
          /\ Put(undo[Len(undo)], "none")
          /\ UNCHANGED faults
       \/ Fault("undo") /\ UNCHANGED kernel
    /\ UNCHANGED todo

\* The device goes away with its process, its addresses and routes with it.
DeviceGone ==
    /\ kernelRoutes' = [p \in Prefix |-> IF kernelRoutes[p] = "tunnel" THEN "none" ELSE kernelRoutes[p]]
    /\ kernelAddrs' = {}
    /\ todo' = <<>> /\ undo' = <<>>
===============================================================================
