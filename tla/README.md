# TLA+ verification of straw

`straw` is a proxy for CONNECT-IP (RFC 9484) over HTTP/3, with a VPN client
(`strawc`) and a peer-to-peer program (`strawcat`).  This directory holds TLA+
modules that model its parts and how they work together, TLC configurations that check them on
small instances, and TLAPS proofs that extend the most important results to
every size.  Source paths below are relative to the repository's Rust crate
(`src/src/` in `PROJECT.json`).

`PROJECT.json` lists the components, the runs, the map from definitions to
source lines, the hazards found in the code and the properties that cover them,
the mutants that show each property can fail, and the theorems.

## 1. The system and its parts

A tokio runtime runs everything below on several threads, and the tasks share
`DashMap`s, atomics and mutexes.  A task can be preempted between any two
accesses to shared state, which is the granularity of the models.

- **Address pool** (`address_pool.rs`): one IPv4 and an optional IPv6 network,
  each with a cursor and a free list under a mutex, and a reverse index and a
  list per session outside it.
- **Session** (`session/mod.rs`, `session/handler.rs`): one handler task per
  CONNECT-IP request; it admits, allocates, registers with the forwarding
  engine, answers, serves capsules in a select loop and tears everything down.
- **Server** (`server.rs`): accepts connections, demultiplexes their datagrams
  to sessions and bind sockets, and runs the reaper of idle sessions.  `main.rs`
  starts it and, on a signal, drains the sessions within a grace period.
- **Forwarding engine** (`forwarding/`): the tables from addresses and prefixes
  to sessions (`router.rs`), scopes, path MTUs and rate limits per session, the
  way of a packet through them (`mod.rs`), ICMP errors (`icmp.rs`), the packet
  parser (`packet.rs`), the TUN device (`tun/`, `vnet.rs`) and NAT rules.
- **UDP bind relay** (`udp_bind/`): a request gets a public address and port
  from an allocator, a socket and two tasks; compression contexts shorten the
  framing of datagrams of known peers.
- **Client** (`client.rs`): the CONNECT-IP tunnel and the bind client.
- **Peer to peer** (`p2p/`): two peers meet over the relay (`peer.rs`,
  `relay_socket.rs`), punch a direct path with noq's NAT traversal
  (`native_punch.rs`), and a manager on each side moves the traffic between the
  relay and direct paths (`session.rs`).  Once a session needs the relay only as
  a fallback to one peer, it *locks down* its bind session to that peer
  (`RelayLockdown` in `relay_socket.rs`).  `stun.rs`, `portmap.rs` and
  `predict.rs` find candidates; `token.rs`, `identity.rs` and `inner_tls.rs`
  authenticate; `vpn.rs` runs the proxy's session code between peers.
- **Host setup** (`iface/`, `forwarding/nat.rs`): commands and their undo.
- **Codecs** (`capsule/`, `datagram/`, `uri_template.rs`), configuration, TLS,
  metrics and the programs in `bin/`.

How they interact: a session handler takes addresses from the pool and installs
them in the engine; the demultiplexer hands packets to the engine, which looks
up the session that serves the destination; the reaper unregisters a session at
the engine, and the handler is expected to notice and tear down.  The client
reads the handler's capsules and turns them into addresses and routes of its
kernel.  A bind session is used by the peers' relay path; the path manager
engages the lockdown of that bind session after a direct path is promoted.

## 2. Modules

| Module | Models | Notes |
|---|---|---|
| `AddressLease` | what a pool promises | abstract specification |
| `AddressPool` | `address_pool.rs` | implements `AddressLease` |
| `SessionLifecycle` | `session/`, reaper and touch in `server.rs`, registration in `forwarding/mod.rs` | pool reduced to its leases |
| `NatRules` | `forwarding/nat.rs` | over a chain that outlives the process |
| `ProxyServer` | `main.rs`, `server.rs`, the serving side of `p2p/vpn.rs` | composes `SessionLifecycle` and `NatRules` |
| `RouteTable` | `forwarding/router.rs` | component of `Forwarding` |
| `Forwarding` | `forwarding/mod.rs`, with `RouteTable`, the decisions of `packet.rs` and `icmp.rs`, the handlers and the reaper | composition |
| `RateLimiter` | `forwarding/limiter.rs` | |
| `UdpBind` | `udp_bind/handler.rs`, `alloc.rs`, life of `socket.rs` | |
| `RelayLockdown` | `udp_bind/context.rs`, context capsules in `handler.rs`, bind client in `client.rs`, `RelayLockdown` in `relay_socket.rs` | both ends and the stream between them |
| `RelayPath` | datagrams in `udp_bind/socket.rs`, the pump in `client.rs`, the multiplexer in `p2p/relay_socket.rs` | implements `RelayLockdown` |
| `PathManager` | `p2p/session.rs`, `p2p/native_punch.rs` | over a model of noq's path events |
| `NatProbe` | `p2p/stun.rs`, `p2p/portmap.rs` | over a lossy network, a NAT and a gateway |
| `Strawcat` | `bin/strawcat.rs`, `p2p/peer.rs`, the pin of `p2p/token.rs` and `inner_tls.rs`, candidates in `p2p/session.rs` | composes `NatProbe` |
| `Prefixes`, `InterfaceSetup` | `iface/mod.rs`, `iface/linux.rs` | over a model of the kernel's tables |
| `TunnelClient` | the tunnel in `client.rs`, the capsule buffer | |
| `ClientPrograms` | `bin/strawc.rs`, `bin/test_client.rs`, the client of `p2p/vpn.rs` | composes `TunnelClient` and `InterfaceSetup` |
| `Capsules` | `capsule/`, `datagram/mod.rs` | operators |
| `Settings` | `config.rs`, the authenticator of `session/auth.rs` | operators |
| `Requests` | `uri_template.rs`, `session/auth.rs`, request checks and routes in the handlers | operators |
| `Segments` | `forwarding/vnet.rs`, reading frames in `tun/linux.rs` | operators |
| `TunnelWire` | one session through the four modules above | composition |
| `MC*` | definitions for TLC where a configuration cannot express them: packets, symmetry, address plans, alphabets | |
| `PoolProofs` | | theorems about `AddressPool` and `UdpBind` |
| `ProxyServerProofs` | | theorems about `SessionLifecycle`, `NatRules` and `ProxyServer` |
| `ForwardingProofs` | | theorems about packets in `Forwarding` |
| `RouteProofs` | | theorems about routes in `RouteTable` and `Forwarding`, and about `RateLimiter` |
| `RelayPathProofs` | | theorems about `RelayLockdown` and `RelayPath` |
| `PeerProofs` | | theorems about `PathManager`, `NatProbe` and `Strawcat` |
| `ClientStreamProofs`, `ClientKernelProofs` | | theorems about `TunnelClient`, `InterfaceSetup` and `ClientPrograms` |

### AddressPool
`cursor`, `free` and `lock` are the state of each family's mutex-protected
pool, `allocated` the reverse index, `allocations` the lists per session.  A
handler (`pc`, `fam`, `cand`) locks, considers one candidate after another,
records it after the mutex was released, requests an address by name, and
releases in two steps per address: out of the index, back to the free list.
Addresses are pairs of family and offset.  `Named` is the set of addresses
clients may ask for by name; a named address can be handed out twice (see
section 7), so the exclusion properties are about the others.  `V6Reach` is the
number of addresses that the IPv6 cursor counts, 2^64 in the code: a larger
network is used up to there.

### SessionLifecycle
One process per session, from the admission check to the last line of the
teardown, one step per access to shared state, with every early return; each
capsule handler is an action.  The reaper walks over a snapshot of the sessions
and unregisters those that are idle.  The tables are those of the session
registry, the router, the engine's sink, policy and wake-up tables, and the pool's leases.
A wake-up follows tokio's `Notify`: `notify_waiters` wakes only a handler that
is waiting at that moment.

### UdpBind
The allocator's two cursors and its set of used tuples (one mutex), tuples that other
requests took before and keep (`others`), the retry loop of
the handler, the sockets, the demultiplexer's entry, and the two tasks with
their abort.  Every place where `?` returns early is an action.

### RelayLockdown
The client's and the relay's context tables, the client's proposals, the command
queue to the pump, and the two directions of the capsule stream.  `engage`
proposes the peer's context, waits for the acknowledgement or the timeout, then
closes the uncompressed context.  The futures are modelled by when they are
created and when they are awaited, which is where an early answer could be missed.

### PathManager
Two managers, one per peer, over an abstract noq connection: which paths exist,
which are promoted, the relay path's status, and a broadcast channel of path
events of bounded capacity that drops the oldest event and reports `Lagged` to a
slow receiver.  Candidate gathering and the punch itself succeed or fail
nondeterministically; backoff, promotion, loss and fallback are the code's.  Each
of the calls by which `promote` and `demote` change the status of a path is a step,
as are the record of the direct path and the report of the state.

### RateLimiter
Both token buckets with the integer arithmetic of `limiter.rs`: elapsed time is
truncated to microseconds, the product with the rate is divided by a second, and
`lastRefill` moves with every call, whether or not a token was added.  `Second` and `Micro` scale the clock down.
`log` and `bytes` are history.

### RouteTable and Forwarding
A prefix is the set of its addresses; two prefixes are nested or disjoint.
`RouteTable` translates `entries_from_client_ranges`, `replace_session_routes`,
`remove_session` and `lookup`, including the tie rule of `max_by_key`.
`Forwarding` adds the per-session tables of the engine, the handlers' accesses to
them, the reaper, and the way of one packet: source check, sender's policy,
address lookup, prefix lookup, receiver's policy, path MTU, delivery, or an ICMP
error, one table access per step.  The tasks that carry packets write no table,
so one packet at a time loses nothing.  `walk.live` is history: the sessions that
served without a break since the packet was read.

### NatRules and ProxyServer
`ProxyServer` is the proxy's process from its start to the end of its shutdown,
or the listening peer of `strawcat`'s VPN: its main task, the accept loop, one
task and one demultiplexer per connection, the request handlers (those of
`SessionLifecycle`, whose actions it uses as they are) and the bind handlers.
The shutdown is a tokio watch with a version: `loopRx` and `rx` are the versions that
the receivers have seen, and the receiver of a connection is a clone of the accept
loop's.  A connection sees the change and sends its GOAWAY in two steps; after it h3
still takes the first request of a connection that had none.
`NatRules` runs `setup_nat`'s commands one by one; each may fail, the process may
be killed between any two, and the chain of the kernel is what a restart finds.

### RelayPath
The datagrams of a bind session in both directions while its contexts change:
framing, the relay's egress with its destination policy, ingress from the peer
and from strangers, the client's pump with its bounded channel, and the
multiplexing socket that learns its relay remote from the first packet.  Each end
has its own table of what the compressed context is bound to (`bound`): the client's is
filled by `engage` from the remote the socket has learned, the relay's by the address in
the ASSIGN, which travels with the capsule (`queueTo`, `upTo`).  The module
extends `RelayLockdown` and is shown to implement it.  A packet carries the
address it really came from or was meant for as history.

### NatProbe and Strawcat
Every transaction of `NatProbe` is a request that is repeated after a timeout and
takes the first datagram as its answer.  The network keeps what it was given
until it delivers or loses it, so a second answer can meet a later transaction.
The NAT and the gateway are external, modelled by RFC 5780's mapping behaviours
and by which ports they forward.  `Strawcat` runs the probes inside the life of a
peer: detection, token, bind, dial or accept with the pinned key, candidates, the
decision to skip a punch, and the two halves of the pipe.  Either copy can fail at any
moment, and `pipe_stdio` drops the error (`bin/strawcat.rs:292`, `:298`).

### TunnelClient, InterfaceSetup and ClientPrograms
`TunnelClient` reads the request stream in chunks of any size; a position in it
is a number of pieces, and the capsule buffer yields whole capsules.
`InterfaceSetup` plans the commands of a tunnel's state and runs them one by one
against a kernel that refuses a second route for a prefix and picks the most
specific one; the guard undoes them in reverse.  The routes are
installed sorted by network address, the shorter prefix first (`Sorted`).  `ClientPrograms` composes both
for `strawc`, the VPN client, the echo client and a library user, with signals,
MTU ticks, failing commands, a crash and a restart.  The echo client may also be sent
echoes of others, repeated ones and payloads that are no packets.

### Capsules, Settings, Requests, Segments and TunnelWire
The pure algorithms, as operators over bytes of `ByteBits` bits and addresses of
one or two of them: varints, capsules and their buffer, datagram framing;
defaults, file and command line; the checks of a request, its routes and its answer,
which depends on the sessions and tuples it finds; the
segmentation of a TCP aggregate.  `TunnelWire` feeds each into the next, from the
operator's files to the datagrams of a packet, and its properties compare the
results with definitions that say what they are for.

## 3. Runs

Every run finishes in minutes; each one answers a different question.

| Run | Module, bounds | Checks |
|---|---|---|
| `pool_lease` | `MCAddressPool`: 2 sessions, networks of 5 IPv4 and 4 IPv6 addresses, the cursor counting 3 of the latter, 2 named | `NothingLost`, `ReservedV4`, refinement `Leases` |
| `session_tables` | `MCSessionLifecycle`: 2 sessions, 2 addresses, 1 capsule chunk, symmetry | `ServedAddressesAreRouted`, `SnapshotIsLeased`, `NoResidue` |
| `proxy_drain` | `MCProxyServer`: 1 tunnel and 1 bind session on a connection, two families of rules, 1 fault, 2 lives, fair | `RulesAreRemoved`, `GoawayIsNotMissed`, `DrainedIsReleased`, `EndedIsTornDownOrGone` |
| `engine_packets` | `MCForwarding`: 2 sessions, 8 addresses, a pool of 2, 6 packets, two deployments | `ServingReceives`, `DeliveredInScope`, `NoFalseProhibition`, `TooBigHelps` |
| `engine_routes` | `MCForwarding`: 5 advertisements, cap of 3 prefixes, 2 processed | `PoolNotHijacked`, `RoutesAreAdvertised` |
| `limiter_window` | `RateLimiter`: 3 packets and 4 bytes per second, second of 3 microseconds of 2 ticks, sizes 1 and 2, calls 0 to 3 ticks apart, 9 ticks | `WindowBound` |
| `bind_tuples` | `UdpBind`: 2 sessions, 2 IPs with 2 ports, any of the tuples taken by others, any cursors, 2 attempts | `TupleExclusive`, `ScanCoversPool` |
| `bind_relay` | `RelayPath`: 2 lockdowns, command queue and packet channel of 1, 1 packet out, 2 in, a peer, a stranger and a direct candidate, fair | `FallbackCarried`, `AddressesKept`, `UplinkIsKnown`, `StrangersStopped`, `AckNoticed` |
| `path_paths` | `PathManager`: 2 direct paths, event channel of 1, fair | `MakeBeforeBreak`, `LossIsNoticed`, `ClosedEnds`, `WatchedLossFallsBack` |
| `peer_bringup` | `Strawcat`: 2 attempts, 2 chunks of stdin, all NATs, servers and options | `VerdictIsRight`, `MappingIsForwarded`, `NothingCutOff` |
| `client_told` | `MCClientPrograms`: 4 addresses, up to 3 capsules in 2 pieces, a queue of 1, 2 MTUs, 1 kind of fault, 2 pings and 1 stray echo, 5 ways to start a program, fair | `TransportOffTunnel`, `KernelIsTold`, `NothingLeft`, `CountedHasCome`, `CapsulesTakeEffect` |
| `algorithms` | `MCTunnelWire`: bytes of 4 bits, addresses of 4 and 8 bits, 21 command lines, 5 files, 3 loads of the proxy, segment sizes 0, 2 and 3 | `AnswerIsRight`, `RoutesAreTheScope`, `CapsulesArriveIntact`, `FrameArrivesIntact` |

The runs spend their properties on what relates several pieces of state.  The
type invariants, and the properties that are proved and that a run's own ones
come close to (`ExclusiveLease`, `TableCoversState`, `SinksAreServed`,
`LockedDown`, `EgressPermitted`, `QueuedBeforeBroken`, `OneRelayRemote`,
`ContextsAsSpecified`, `RelayAlone`, `ErrorsTrusted`), are in the
modules and in section 5.  TLC confirms each of them when its name is added to the
configuration of the run; the type invariant of `TunnelWire`, which is not proved,
was checked that way.

What they show:

- **Pool.**  A released or skipped address
  is never lost.  Network, gateway and broadcast are never given out.  The pool
  implements the abstract lease: an address that no client may name is held by
  one session at a time, also between choosing and recording it.
- **Sessions.**  An address a serving session was told about is leased to it and
  routed, a demultiplexer's snapshot is leased, and a finished session leaves
  nothing in any table, whatever the reaper does in between.
- **Server.**  A session whose stream or connection ends is torn down.  A
  drain that ends early has released every address and
  route.  No connection misses the GOAWAY.  A process that got its NAT guard and
  returns has removed the rules, also the ones that a killed predecessor left, and
  they never pile up.
- **Engine.**  A packet for a session that serves all the while reaches that
  session even if the address belonged to another a moment ago; scopes hold in
  both directions; ICMP errors never falsely say "prohibited", and never ask for a size that does not help; client
  routes keep clear of the pools and follow the last advertisement.
- **Limiter.**  In every window the admitted packets and bytes are within one
  burst plus what the window earns.  That is the upper side only; section 7 has the
  other one.
- **Bind.**  One holder per public tuple, and the scan covers the whole pool from
  any cursor position.
- **Relay path.**  At every moment a packet to the peer can be framed by the client
  and is understood by the relay; no acknowledgement is missed.  No packet
  changes its address on the way, although each end looks it up in a table of its own,
  and no compressed one of the client meets a relay that does not know its context,
  whatever overtakes what (of the relay's, see section 7); after a lockdown nobody but
  the peer gets through.
- **Paths.**  Between any two calls of a move there is an Available path as long as the
  direct one is open.  A loss while a manager listens is noticed even when events are
  dropped, and ends in a report of the relay with the relay path Available.  A closed
  connection ends both managers.
- **Peers.**  However answers are lost, late or mixed up, a verdict about the NAT
  is right up to `Open`, which the code cannot tell from a cone (section 7), and an
  offered port mapping was forwarded; and a half of the pipe whose own copy met no error
  is not cut off by the other, not even when the other fails.
- **Clients.**  When a program waits, its kernel has the addresses and routes of
  the last capsules it read; the connection to the proxy never goes through its
  own tunnel; what was installed is removed; every capsule takes
  effect; and the echo client counts no error, and no echo twice.
- **Algorithms.**  Requests are answered as file and command line together ask
  for, with 503 exactly where the limit or the tuples are all that is in the way, and
  no layering of the two opens bind mode to clients that prove nothing;
  the advertised routes are the scope and no more, capsules survive any
  cutting of the stream, segments carry the aggregate's bytes with right
  checksums, and a datagram is sent when it fits.

### Why the bounds are enough

Two sessions are the least that can contend for an address, a route or a table
entry, and no code path looks at more than two at once; the tuples of others in
`bind_tuples` fill the pool to any degree.  Two
lockdowns leave room for one that times out and a repetition that meets its late
acknowledgement, and queues of one are full after one entry.  One packet out and two in let
a stranger's packet race the peer's and a datagram overtake a capsule.  Two direct paths with
an event channel of one make the channel overflow.  The limiter's scaled clock
keeps both truncations, and nine ticks are a second and a half, so windows
shorter and longer than a second occur.  The address plan of `MCForwarding` has
prefixes inside, around and beside the pool, and one deployment in which both
sessions get the same address one after the other.  Three capsules are two
reconfigurations after the first, each of which may be read in any pieces.  One
fault and two lives are a failing command or a crash at any place, and what the
next process makes of it.  Two attempts are the least that make an answer arrive
twice.  Four bits are the shortest byte that holds the version number 6, and
make all four lengths of a varint, carries in a checksum and wrapping sequence
numbers occur within short inputs.
`MaxChunks`, `MaxEngage`, `MaxOut`, `MaxIn`, `MaxCapsules`, `MaxStrays`, `MaxFaults`, `MaxLives`, `Chunks`,
`PipeConfigs`, `Horizon`, `MaxPaths`, `MaxAdvertisements` and `Idler` are bounds of
the model and not of the code; those of the modules with proofs are arbitrary there.

Deadlock is checked for the pool only: elsewhere each session, call, process or
horizon is used once, so the system stops when all are used up.

Each property of a run has a mutant in `PROJECT.json`: an operator `X_Something` next to
`X` that changes it as a plausible mistake would, under which TLC finds the
property violated.

## 4. Fairness

- `ProxyServer`: weak fairness of the main task, of the accept loop's end, of each
  connection's task, of each demultiplexer's end and of each handler: tokio polls
  every task that is ready, and the timer of the grace period fires.  Clients,
  signals, faults and the reaper are not fair.
- `SessionLifecycle`: weak fairness of each handler and of the reaper.  They are
  tokio tasks; the runtime polls every task that is ready.  Clients and the idle
  clock are not fair.
- `RelayLockdown` and `RelayPath`: weak fairness of the relay, of the client's
  connect, of the pump and of `engage`; none of datagrams.  The timer is not
  assumed to fire.
- `PathManager`: weak fairness of each manager and its timer, strong fairness of
  ending: `conn.closed()` stays ready once it is, and each retry waits for
  the backoff timer next to it, so the select that sees it is reached again and
  again with nothing else ready.
- `ClientPrograms`: weak fairness of the program's task and of the delivery of the
  request stream, which QUIC guarantees as long as the connection lives.

## 5. Proofs

Eight modules hold theorems, each checked by TLAPS to the last leaf.  They hold for
every value of the constants that satisfies the named assumptions: any number of
sessions, connections and bind requests, any pool sizes, any rates and clock steps, any
address plan and packets, any capsules, any queue lengths and any number of
repetitions, faults and restarts.  Where a module has the proofs of two specifications,
each theorem names its own: `BindSpec`, `LimiterSpec` and `CatSpec` stand beside a
`Spec` with which they share no state, while `ServerSpec` and `PathSpec` compose the
`Spec` of their module and take its properties over.

The assumptions say little.  Of prefixes: there are finitely many addresses, each is a
prefix of its own, and two prefixes are nested or disjoint, as with CIDR.  Of sizes:
counts and bounds are naturals, and positive where the code has a constant that is (the
depth of a queue, the attempts of a probe).  Of names: "nobody" is none of the sessions,
addresses or tuples.  Of inputs: packets, capsules and options have the fields that the
code reads.  TLC evaluates each of them in every run of the modules they belong to.

**PoolProofs**, the pool (`PoolAssumption`).  `ExclusiveLease` is not inductive: it
says nothing of an address that was chosen and not yet recorded.  `LeaseInv`
places each unnamed address: on the free list, not reached by the cursor, or in
the hands of one handler, and no two of these.  `LeaseInvariant` proves it, one step
per action; `LeaseExclusive` follows.  `PoolLeases` proves that the pool
implements `AddressLease` under the mapping `Holder`, from an address to whoever
has it in hands: initial states map to initial states and each action to a grant,
a return or a stutter.  `NoAddressLost` adds `IndexInv`: whoever the reverse index
names has the address in hands and will put it back, so skipping it in the
allocation loop loses nothing.  `ReservedKept` adds `UsableInv`: the free list
holds only usable offsets, which matters as it is handed out without a test.

**PoolProofs**, the tuples (`BindAssumption`, `TupleAssumption`).
`TuplesExclusive`: the candidate at any step of the scan is a tuple of the pool
(arithmetic of the two cursors), `allocate` takes only an unused one, and a tuple in
a handler's hands is in use; exclusion is then inductive together with the types.
`SinksServed` is inductive with the types.  `ScanIsComplete`: for each tuple there is
a step of the scan that reaches it, by division with remainder of its distance from
the cursors, and no two steps reach the same one, as neither cursor goes round twice.

**ProxyServerProofs**, the sessions (`LifecycleAssumption`).  `NoResidue` speaks of the end
of a handler and `ServedAddressesAreRouted` of its middle; neither says what the
steps between them have still to undo.  `Held` does: for each place of the handler,
which leases, routes and entries of the engine's tables a session may have and
which it must have.  It is inductive together with the types, because no step of
another session or of the reaper gives a session anything, and takes only what
`Held` allows to be gone: the reaper unregisters, and an address that is leased
again is overwritten in the route table by its new holder before the old one
withdraws, who then leaves it alone.  `ServedAreRouted`, `SnapshotsAreLeased`,
`TableCovers` and `NothingRemains` follow from it place by place.

**ProxyServerProofs**, the process (`NatAssumption`, `ServerAssumption` as well).
The steps of `ProxyServer` are those of the sessions and its own: connections that
close under their streams, the drain, the end of the endpoint, a crash that empties
every table.  `Inv` above survives them all, so what is proved of the sessions holds
in the whole process (`SessionsInherited`).  `GuardRemovesRules` needs `Rules`: a
family has at most one rule more than iptables commands failed, since a rule is
appended only where the check found none, and from the moment `setup_nat` has returned
a family with that one rule more is on the guard's list.  `ShutdownIsAnnounced` needs
`Connections`: a process that does not serve has none, and one whose receiver saw the
shutdown was sent a GOAWAY, is about to be, or has ended; and that the accept loop, whose
receiver each connection clones, takes none once it has seen the shutdown itself.  `DrainCutsNothing` is an action property: at
the step that ends the drain early the session table is empty, and by `Held` a session
outside the table has nothing in any other.

**RelayPathProofs**, the contexts (`LockdownAssumption`).  `AlwaysCarried` and
`LockdownHolds` rest on `Inv`, which relates both context tables with what is in
flight: the client believes in the peer's context only when the relay has it, and
the uncompressed context goes, at either end, only under an active peer's context.
While `engage` waits, the uncompressed context has not begun to go.

**RelayPathProofs**, the datagrams (`ChannelAssumption` as well).
`ImplementsLockdown`: a step of the data plane leaves the context protocol alone and
any other step is one of its steps, so the bind session implements `RelayLockdown`
and `LockdownInherited` takes over what is proved there.  `AddressesKept` is not
inductive: that a compressed datagram decodes to the right address needs
`Labelled` (whatever is under way in the peer's context is the peer's) and
`Bindings` (either table, and each ASSIGN on its way between them, binds that context to
the remote that was learned, which no later proposal changes).  `UplinkStaysKnown`, that
the relay knows the context, needs the invariant of the lockdown.  `BrokenComesLast`, `RemoteIsKept` and `StrangersAreStopped` follow with
`Ended` and `Handed`, which relate the channel with the pump and the remote.

**PeerProofs**, the path manager (`PathAssumption`).  `Control` says for each place of a manager
whether it is subscribed and what it reports and names; `Statuses`, which paths are
Available there: the relay path outside the stretch between the call that takes it out
and the one that puts it back, and on that stretch the direct path as long as it is open;
`Known`, that a path a manager has heard of is not validated anew.  Together they are
inductive, and give `MovesMakeBeforeBreak` and `RelayIsAlone` (a peer that reports
`Relay` has the relay path Available and no other).
`LossesAreNoticed` is inductive with the types: an event leaves a subscription only by being
read, or by an overflow that marks the subscription as lagged.

**PeerProofs**, strawcat (`ProbeAssumption`, `CatAssumption`).  `CatInv` has three
parts.  `ProbeInv`: any answer under way, of this transaction or an earlier one, says
the truth about its own test or names a forwarded port; what Test I learned is kept for
the tests after it; and Test III runs only where the second mapping differs from the
first.  This gives `NatIsJudgedRight` and `MappedPortIsForwarded` for any number of
repetitions, losses and delays.  `PeerInv`: only a listener accepts, and one function
probes at a time.  `PipeInv`: a half that is done had all it waited for, and the process
leaves the pipe when neither half copies any more, which gives `PipeIsWhole`.

**RouteProofs**, the routes (`RouteAssumption`).  `NeverHijacked`: comparing network
addresses decides whether two prefixes meet, as prefixes are nested or disjoint; so
what passes the check is clear of the pools.  `LastAdvertisementRules` rests on
`Current`: the routes of a session are the entries of its last advertisement.  What
these reach is a matter of finite sets: the largest prefixes inside a range make it up,
the order in which they are offered ranks them, and exactly the first `MaxPrefixes` in
that order are kept.

**RouteProofs**, the rate limiter (`LimiterAssumption`).  `WindowBounded`: in every window,
admitted packets (and bytes) times a second are at most the rate times the
window plus a burst.  The strengthening `Credit` says of each window that is still
open that what was admitted in it *and what is left in the bucket* were earned
together.  The steps are non-linear arithmetic, so they rest on lemmas about
truncating division, products and regrouping.

**ForwardingProofs** (`RouteAssumption`, `EngineAssumption`).  The five
properties of packets follow from `Inv`:
a session between registration and serving is the one the route table names for its
address, although the address is leased again before the old routes are gone
(`HandlersOK`); a session that served since the packet was read lost its tables, if
at all, in the order of removal (`Ordered`); a packet for such a session is never
in the prefix lookup and never has another target (`Reaching`); what passed a
policy was admitted by that session's scope (`Scoped`); a reported size is smaller
than the packet (`Sized`); and a prohibition has its reason (`Justified`).

**ClientStreamProofs** (`ClientAssumption`, `ProgramAssumption`, `SetupAssumption`).
`CountedCame` needs a count: `PingInv` says that the echoes counted and those that
wait in the queue are no more than those that came.  `StreamInv`, for the next module,
says that the tunnel's state is what the capsules decoded so far have told, and that as
long as the program reads, these are all that were read in full, however the stream was
cut into chunks.  The module also proves what nested prefixes are like: among those
that hold an address there is a smallest, which the kernel routes by, and inside a
range a largest, which `prefixes_from_ranges` returns (`RangesCovered`); and that the
list of commands is the pin first and exactly what the plan asks for (`CommandsAre`).

**ClientKernelProofs** (the same assumptions) is about the kernel between any two
commands.  `KernelInv` holds as long as no command of an undo list fails.  `Effects`:
the undo list tells, entry by entry, how the kernel differs from the one before.
`PinFirst`: the pin is the first command to be run and the last to be undone.
`Pristine`: the kernel before had no tunnel, only its default route and a pin that a
killed process may have left.  `Complying`: what was run and what is still to be run
are the commands of the plan for the tunnel's state.  `TransportStaysOff` follows from
`PinFirst` and `Effects`, as the host route is the most specific there is;
`KernelIsRestored` from `Effects` with an empty list; and `LastCapsuleInEffect` from
`StreamInv` and `Complying` with nothing left to run: the prefixes of the plan make up
the ranges that were told, and the default route's two halves make up the default
route.

Type correctness is proved for every specification but that of `TunnelWire`.

### What stays with TLC

- Liveness under fairness and properties with `ENABLED` are out of the prover's
  reach: `EndedIsTornDownOrGone`, `AckNoticed`, `ClosedEnds`, `WatchedLossFallsBack`,
  `CapsulesTakeEffect`.
- Induction over data is out of reach too, so nothing is proved of what recursive
  definitions and folds compute.  This leaves the four properties of `TunnelWire`
  (`AnswerIsRight`, `RoutesAreTheScope`, `CapsulesArriveIntact`,
  `FrameArrivesIntact`), which read capsules item by item, merge ranges, drain a
  buffer and sum a checksum; they are checked over the alphabet of `MCTunnelWire`.

Every other property that a run checks is a theorem.

## 6. Abstractions to know of

- `Forwarding`: one IP address per session (several, and requests for more, are in
  `SessionLifecycle`); the rate limiter only refuses packets and is a module of its
  own; an exhausted pool ends a session before it touches the engine.  The
  properties are about sessions with all their tables: the reaper can race a
  registration and leave a session half registered until its next tick.  A scope is that
  of its session for good, and the engine looks its target up once, as the code does;
  `DeliveredInScope` is about the way of that one target.  The code loads an MTU once
  too, and compares and reports it: `TooBigHelps` holds of an outdated MTU as well, and
  says nothing of how recent it is.
- `SessionLifecycle`: the pool is `AddressLease`, which the real pool implements for
  addresses nobody names; chunks of capsules stand for what a read returns.
- `ProxyServer`: requests come to the first process and before a fault, as the NAT
  rules and the sessions share nothing.  A bind handler is asked, serves and ends;
  what it does meanwhile is in `UdpBind`.
- `RelayLockdown`: QUIC delivers the capsule stream in order and without loss.
- `PathManager`: noq is external, modelled from how the code uses it.
- `NatProbe`: transaction ids are the names of the transactions; a NAT keeps its
  mappings for the time of a detection, and a gateway what it forwards.
- `Strawcat`: the pipe is followed for the default options only, as it shares
  nothing with the choice of candidates.
- `TunnelClient`: the poll that takes bytes from the transport returns them, so that a
  read which a `select!` drops has taken nothing; dropping it is no step of the model.
- `InterfaceSetup`: a route has no metric, and nobody else changes the tables.
- `Segments`: TCP over IPv4 and IPv6 without options in the way.  A UDP checksum
  that a kernel leaves to the reader is filled in by the same sum.
- `Settings`: the settings that decide whether the proxy starts and what it
  answers; the others are copied from layer to layer in the same way.

## 7. Where code and documentation disagree

These configurations keep disagreements reproducible (`tlc -config X.cfg M`); TLC
refutes the property of each, under the fairness of section 4 where it is one of
liveness.  Where a configuration has several, all but one are commented out:

| Configuration | Property | What happens |
|---|---|---|
| `AddressPool_refuted` | `ExclusiveNamedLease` | check and insert of a named address are separate (`address_pool.rs:238`) |
| `AddressPool_refuted` | `GatewayKept` | a request by name may get the IPv6 gateway (`address_pool.rs:235`) |
| `SessionLifecycle_refuted` | `SessionLimit` | the limit is checked before the insert (`session/mod.rs:105`) |
| `SessionLifecycle_refuted` | `RoutedToLessee` | an address is leased again before its old route is gone (`session/handler.rs:130`) |
| `SessionLifecycle_reaped` | `ReapedIsTornDown` | `notify_waiters` (`forwarding/mod.rs:167`) stores nothing, so a handler that is not waiting at that moment serves on without a sink; `server.rs:96` says it wakes |
| `ProxyServer_refuted` | `BindTunnelsContinue` | the drain polls the CONNECT-IP sessions alone (`main.rs:211`), so bind tunnels are cut as soon as none of these is left; `server.rs:141` says existing tunnels continue until the grace period closes the endpoint |
| `ProxyServer_refuted` | `FailedStartLeavesNothing` | a `?` in `setup_nat` returns before there is a guard (`forwarding/nat.rs:91`), and the rules it has appended stay until another run removes them |
| `UdpBind_refuted` | `ReleasedByAllocator` | the `?` after the response (`udp_bind/handler.rs:125`) returns without releasing the tuple; `udp_bind/alloc.rs:7` says it is released |
| `UdpBind_refuted` | `ReleasedBySocket` | aborting the socket task detaches its inbound task, which keeps the socket of a released tuple open (`udp_bind/handler.rs:164`) |
| `RelayLockdown_refuted` | `TimeoutLeavesSession` | the timeout closes the context at the client only; after a late answer the relay frames with a context the client forgot (`relay_socket.rs:404`) |
| `RelayLockdown_refuted` | `EngagedIsNarrow` | a repetition returns Ok as "already engaged" although the CLOSE was never queued (`relay_socket.rs:370`) |
| `RelayPath_datagrams` (last line) | `DownlinkIsKnown` | the relay frames with the context from the ASSIGN on, and the client drops what comes in it before the ACK or after a timeout (`client.rs:999`) |
| `PathManager_refuted` | `ValidatedIsPromoted` | a path established while the peer is not subscribed is promoted on one side only (`native_punch.rs:140`) |
| `PathManager_refuted` | `LossFallsBack` | `await_path_lost` subscribes after promotion and lockdown (`p2p/session.rs:337`) and does not ask whether the path is still there; `p2p/session.rs:311` says such a loss just leads to another punch |
| `Strawcat_refuted` | `WrittenHasArrived` | the pipe returns after `finish` without waiting for the peer (`strawcat.rs:294`), and the process exits; the comment says all buffered bytes are delivered |
| `Strawcat_refuted` | `UploadReachesEof` | an error of the upload's copy is dropped and ends that half (`strawcat.rs:292`); the comment says the upload always reaches the end of stdin |
| `Strawcat_refuted` | `OpenIsReported` | the probe's socket is bound to the unspecified address, which no reflexive address equals (`p2p/stun.rs:77`), so a host without a NAT is reported as a cone and never as `Open` (`p2p/stun.rs:37`) |
| `ClientPrograms_told` (last line) | `AllReceivedAllEchoed` | `is_echo` looks at the ICMP type alone, so an echo of somebody else, or a repeated one, counts for a ping that was lost (`bin/test_client.rs:205`) |
| `RateLimiter_refuted` | `RefillProportional` | frequent calls at low rates add nothing (`limiter.rs:68`) |

`RoutedToLessee` and `ServingReceives` belong together: during the hand-over of an
address a packet can reach the session that is leaving, and once the new session
serves it no longer can.

What the models say besides, and a reader of the properties should know:

- `TransportOffTunnel`, `KernelIsTold` and `NothingLeft` assume that no command of
  an undo list fails: a tunnel route that stays makes the next plan pin the proxy
  through the tunnel.  A pin that a crash left behind makes the next process's
  `add` fail.
- `strawc`'s `wait_for_termination()` is created anew in every round of its
  `select!` (`bin/strawc.rs:183`), so a signal that arrives between two rounds is lost.
- `RulesAreRemoved` is about runs that got their guard, and allows one rule for each iptables command that failed.  A check
  (`-C`) that fails to run counts as "not there", and a second copy is appended;
  `nat.rs:4` promises removal without that exception.
- A request that was accepted and has not yet inserted its session is invisible to
  the drain; it holds no address then (`TableCoversState`), so `DrainedIsReleased`
  is still true.
- A repeated first STUN request makes its late second answer fail the second test:
  detection then gives no verdict, never a wrong one.  In the same way a late PCP
  answer makes the NAT-PMP fallback fail although the gateway forwards a port.
- Neighbouring ranges of a ROUTE_ADVERTISEMENT are accepted in the derived order *or*
  in that of the comment (`capsule/route_advertisement.rs:21`); `WellFormed` in
  `TunnelWire` says exactly which lists pass.

## 8. Not modelled

- `p2p/predict.rs`: a guess of ports from samples.  No property of the code depends
  on how good it is; in `Strawcat` a prediction may or may not be offered.
- Cryptography and its encodings (`p2p/token.rs`, `p2p/identity.rs`,
  `p2p/inner_tls.rs`, `tls.rs`), beyond which key a peer is pinned to and what a
  certificate decides about a request.
- `p2p/h3_noq.rs`, beyond how it hands out received data: an adapter between the
  stream interfaces of two libraries, whose wakers and buffers are theirs.
- `forwarding/packet.rs` and `icmp.rs`: header layouts and the chain of IPv6
  extension headers.  `Forwarding` has what the engine decides by.
- `tun/` and `iface/macos.rs`: device I/O and another system's spelling of the same
  commands.
- `datagram/context.rs`: no other code uses the registry.
- `metrics.rs`, `error.rs`, `codepoints.rs`: counters that nothing reads back,
  conversions and constants.

`PROJECT.json` lists the hazards.  Three have a note and no property, because the code
does not prevent them: the session limit (`session/mod.rs:105`), the reaper's wake-up
(`forwarding/mod.rs:167`) and the tuple of a bind request whose response fails
(`udp_bind/handler.rs:125`); section 7 has the configuration that shows each.  Three
others are covered by a theorem and no run (`SinksServed`, `BrokenComesLast`,
`AlwaysTrusted`), and a token whose address has gone to somebody else
(`p2p/peer.rs:229`) is a matter of the pin, which `Dial` takes as one guard.

## 9. Running it

    tlc -workers 2 -config Forwarding_packets.cfg MCForwarding
    tlapm ForwardingProofs.tla

The configuration of a run starts with the name of its component; the module is
the `MC` module where there is one and the component's own otherwise.
