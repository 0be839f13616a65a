--------------------------- MODULE SessionLifecycle ---------------------------
(***************************************************************************)
(* The life of CONNECT-IP sessions on the proxy.  One handler task per     *)
(* request stream (src/src/session/handler.rs) drives four shared tables:  *)
(* the session table (session/mod.rs), the address pool (here the abstract *)
(* AddressLease), the route table (forwarding/router.rs) and the engine's  *)
(* per-session registry (forwarding/mod.rs).  Beside the handlers run the  *)
(* idle reaper and the datagram demultiplexer (server.rs).                 *)
(*                                                                         *)
(* Every table is a concurrent map of its own, so a step here is one       *)
(* access to one of them, or one await of a handler.                       *)
(***************************************************************************)
EXTENDS Naturals, FiniteSets

CONSTANTS
    Session,        \* session identifiers, each used for one request stream
    Pools,          \* the address sets of the configured families
    MaxSessions,    \* the session limit, 0 for no limit
    MaxChunks,      \* bound: chunks of capsules a client sends on a stream
    None            \* not a session, not an address

Addr == UNION Pools

ASSUME LifecycleAssumption ==
    /\ MaxSessions \in Nat
    /\ MaxChunks \in Nat
    /\ None \notin Session

VARIABLES
    pc,         \* pc[s]: where the handler of s is
    left,       \* left[s]: the families it has still to allocate from
    mine,       \* mine[s]: its own list of assigned addresses
    owner,      \* the pool: who leases an address
    sessions,   \* the session table
    snapshot,   \* snapshot[s]: the demultiplexer's copy of the assigned addresses
    clientAddrs,\* the route table's fast path: address -> session
    routes,     \* the sessions with prefix routes in the route table
    sinks,      \* the sessions with a sink and an egress policy in the engine
    notify,     \* the sessions with a teardown signal in the engine
    woken,      \* the sessions whose pending `notified()` has been signalled
    idle,       \* the sessions whose last activity is past the idle timeout
    reap,       \* the reaper's list of sessions still to unregister
    reaping,    \* the session it has removed from the sinks and has yet to signal
    ended,      \* the sessions whose client closed or reset the stream
    chunks      \* chunks[s]: how many chunks the client has sent

handler == <<pc, left, mine>>
tables == <<owner, sessions, snapshot, clientAddrs, routes>>
engine == <<sinks, notify, woken>>
reaper == <<reap, reaping>>
client == <<ended, chunks>>
vars == <<handler, tables, engine, idle, reaper, client>>

Pool == INSTANCE AddressLease WITH Leasable <- Addr

Leased(s) == {a \in Addr : owner[a] = s}

Init ==
    /\ pc = [s \in Session |-> "new"]
    /\ left = [s \in Session |-> Pools]
    /\ mine = [s \in Session |-> {}]
    /\ Pool!Init
    /\ sessions = {}
    /\ snapshot = [s \in Session |-> None]
    /\ clientAddrs = [a \in Addr |-> None]
    /\ routes = {} /\ sinks = {} /\ notify = {} /\ woken = {} /\ idle = {}
    /\ reap = {} /\ reaping = None
    /\ ended = {}
    /\ chunks = [s \in Session |-> 0]

Goto(s, label) == pc' = [pc EXCEPT ![s] = label]
Move(s, from, to) == pc[s] = from /\ Goto(s, to)

-------------------------------------------------------------------------------
(***************************************************************************)
(* Setting a tunnel up: handle_connect_ip_stream and run_tunnel.           *)
(***************************************************************************)

\* An invalid, unauthenticated or unresolvable request is answered and ends.
Refuse(s) ==
    /\ Move(s, "new", "refused")
    /\ UNCHANGED <<left, mine, tables, engine, idle, reaper, client>>

\* SessionManager::insert first compares the length of the table ...
Admit(s) ==
    /\ pc[s] = "new"
    /\ IF MaxSessions > 0 /\ Cardinality(sessions) >= MaxSessions
       THEN Goto(s, "refused")
       ELSE Goto(s, "insert")
    /\ UNCHANGED <<left, mine, tables, engine, idle, reaper, client>>

\* ... and then inserts, with an empty snapshot.
Insert(s) ==
    /\ Move(s, "insert", "accept")
    /\ sessions' = sessions \cup {s}
    /\ snapshot' = [snapshot EXCEPT ![s] = {}]
    /\ UNCHANGED <<left, mine, owner, clientAddrs, routes, engine, idle, reaper, client>>

\* The 200 response is sent.
Accept(s) ==
    /\ Move(s, "accept", "allocate")
    /\ UNCHANGED <<left, mine, tables, engine, idle, reaper, client>>

\* One address from each configured family, if it has one left.
AllocateFrom(s, pool) ==
    /\ pc[s] = "allocate"
    /\ pool \in left[s]
    /\ left' = [left EXCEPT ![s] = @ \ {pool}]
    /\ \/ \E a \in pool : /\ Pool!Grant(s, a)
                          /\ mine' = [mine EXCEPT ![s] = @ \cup {a}]
       \/ /\ \A a \in pool : owner[a] # None
          /\ UNCHANGED <<owner, mine>>
    /\ UNCHANGED <<pc, sessions, snapshot, clientAddrs, routes, engine, idle, reaper, client>>

Allocated(s) ==
    /\ pc[s] = "allocate"
    /\ left[s] = {}
    /\ Goto(s, IF mine[s] = {} THEN "release" ELSE "announce")
    /\ UNCHANGED <<left, mine, tables, engine, idle, reaper, client>>

\* ADDRESS_ASSIGN and ROUTE_ADVERTISEMENT are sent.
Announce(s) ==
    /\ Move(s, "announce", "install")
    /\ UNCHANGED <<left, mine, tables, engine, idle, reaper, client>>

\* Mutant of SendFails: the error is returned to the caller without teardown.
SendFails_Return(s) ==
    /\ pc[s] \in {"accept", "announce", "reply"}
    /\ Goto(s, "done")
    /\ UNCHANGED <<left, mine, tables, engine, idle, reaper, client>>

\* A send of the handler fails; everything after the insertion is torn down.
SendFails(s) ==
    /\ pc[s] \in {"accept", "announce", "reply"}
    /\ Goto(s, "release")
    /\ UNCHANGED <<left, mine, tables, engine, idle, reaper, client>>

Install(s) ==
    /\ Move(s, "install", "register")
    /\ clientAddrs' = [a \in Addr |-> IF a \in mine[s] THEN s ELSE clientAddrs[a]]
    /\ UNCHANGED <<left, mine, owner, sessions, snapshot, routes, engine, idle, reaper, client>>

\* register_session inserts sink, policy, MTU and limiter, then the signal.
RegisterSink(s) ==
    /\ Move(s, "register", "signal")
    /\ sinks' = sinks \cup {s}
    /\ UNCHANGED <<left, mine, tables, notify, woken, idle, reaper, client>>

RegisterSignal(s) ==
    /\ Move(s, "signal", "publish")
    /\ notify' = notify \cup {s}
    /\ UNCHANGED <<left, mine, tables, sinks, woken, idle, reaper, client>>

\* Mutant of Publish: the snapshot is filled from the whole pool.
Publish_Everyone(s) ==
    /\ \/ Move(s, "publish", "select")
       \/ Move(s, "republish", "reply")
    /\ snapshot' = [snapshot EXCEPT ![s] = {a \in Addr : owner[a] # None}]
    /\ UNCHANGED <<left, mine, owner, sessions, clientAddrs, routes, engine, idle, reaper, client>>

\* set_assigned, at the end of the setup and while serving an ADDRESS_REQUEST.
Publish(s) ==
    /\ \/ Move(s, "publish", "select")
       \/ Move(s, "republish", "reply")
    /\ snapshot' = [snapshot EXCEPT ![s] = mine[s]]
    /\ UNCHANGED <<left, mine, owner, sessions, clientAddrs, routes, engine, idle, reaper, client>>

-------------------------------------------------------------------------------
(***************************************************************************)
(* Serving: the select loop of run_tunnel.  At "select" the handler waits  *)
(* on three futures, one of them a fresh `notified()`.  Whichever branch   *)
(* is taken drops the other two, and a signal that was pending with them.  *)
(***************************************************************************)
Branch(s) ==
    /\ pc[s] = "select"
    /\ woken' = woken \ {s}

\* The MTU refresh changes nothing that this module keeps.
MtuTick(s) ==
    /\ Branch(s)
    /\ UNCHANGED <<handler, tables, sinks, notify, idle, reaper, client>>

Receive(s) ==
    /\ Branch(s)
    /\ s \notin ended
    /\ chunks[s] < MaxChunks
    /\ chunks' = [chunks EXCEPT ![s] = @ + 1]
    /\ UNCHANGED ended

\* An ADDRESS_REQUEST ...
ReceiveAddressRequest(s) ==
    /\ Receive(s)
    /\ Goto(s, "grant")
    /\ UNCHANGED <<left, mine, tables, sinks, notify, idle, reaper>>

\* ... is served from the pool, when it has an address ...
GrantRequest(s) ==
    /\ pc[s] = "grant"
    /\ \/ /\ \E a \in Addr : /\ Pool!Grant(s, a)
                             /\ mine' = [mine EXCEPT ![s] = @ \cup {a}]
          /\ Goto(s, "reroute")
       \/ /\ \E pool \in Pools : \A a \in pool : owner[a] # None
          /\ Goto(s, "republish")
          /\ UNCHANGED <<owner, mine>>
    /\ UNCHANGED <<left, sessions, snapshot, clientAddrs, routes, engine, idle, reaper, client>>

\* ... the new address, the one of the list that is not yet routed here, is
\* routed, the new list published, ...
Reroute(s) ==
    LET new == {a \in mine[s] : clientAddrs[a] # s} IN
    /\ Move(s, "reroute", "republish")
    /\ clientAddrs' = [a \in Addr |-> IF a \in new THEN s ELSE clientAddrs[a]]
    /\ UNCHANGED <<left, mine, owner, sessions, snapshot, routes, engine, idle, reaper, client>>

\* ... and the reply sent, after which the session counts as active.
Reply(s) ==
    /\ Move(s, "reply", "select")
    /\ idle' = idle \ {s}
    /\ UNCHANGED <<left, mine, tables, engine, reaper, client>>

\* A ROUTE_ADVERTISEMENT replaces the session's prefix routes; any other
\* well-formed capsule only counts as activity.
ReceiveRoutes(s) ==
    /\ Receive(s)
    /\ routes' \in {routes, routes \cup {s}, routes \ {s}}
    /\ idle' = idle \ {s}
    /\ UNCHANGED <<handler, owner, sessions, snapshot, clientAddrs, sinks, notify, reaper>>

ReceiveMalformed(s) ==
    /\ Receive(s)
    /\ Goto(s, "release")
    /\ UNCHANGED <<left, mine, tables, sinks, notify, idle, reaper>>

\* Mutant of StreamEnds: the end of the stream is taken for an empty chunk.
StreamEnds_Ignored(s) ==
    /\ Branch(s)
    /\ s \in ended
    /\ UNCHANGED <<handler, tables, sinks, notify, idle, reaper, client>>

\* The stream ended (FIN) or failed.
StreamEnds(s) ==
    /\ Branch(s)
    /\ s \in ended
    /\ Goto(s, "release")
    /\ UNCHANGED <<left, mine, tables, sinks, notify, idle, reaper, client>>

\* The reaper's signal arrived.
Closed(s) ==
    /\ Branch(s)
    /\ s \in woken
    /\ Goto(s, "release")
    /\ UNCHANGED <<left, mine, tables, sinks, notify, idle, reaper, client>>

-------------------------------------------------------------------------------
(***************************************************************************)
(* Teardown: the end of handle_connect_ip_stream.                          *)
(***************************************************************************)
ReleaseOne(s) ==
    /\ pc[s] = "release"
    /\ \E a \in Addr : Pool!Return(s, a)
    /\ UNCHANGED <<handler, sessions, snapshot, clientAddrs, routes, engine, idle, reaper, client>>

Released(s) ==
    /\ Leased(s) = {}
    /\ Move(s, "release", "withdraw")
    /\ UNCHANGED <<left, mine, tables, engine, idle, reaper, client>>

\* Mutant of Withdraw: the addresses are removed by key, whoever has them now.
Withdraw_ByAddress(s) ==
    /\ Move(s, "withdraw", "unregister")
    /\ clientAddrs' = [a \in Addr |-> IF a \in mine[s] THEN None ELSE clientAddrs[a]]
    /\ routes' = routes \ {s}
    /\ UNCHANGED <<left, mine, owner, sessions, snapshot, engine, idle, reaper, client>>

\* remove_session drops what points at this session, whatever the address.
Withdraw(s) ==
    /\ Move(s, "withdraw", "unregister")
    /\ clientAddrs' = [a \in Addr |-> IF clientAddrs[a] = s THEN None ELSE clientAddrs[a]]
    /\ routes' = routes \ {s}
    /\ UNCHANGED <<left, mine, owner, sessions, snapshot, engine, idle, reaper, client>>

UnregisterSink(s) ==
    /\ Move(s, "unregister", "unsignal")
    /\ sinks' = sinks \ {s}
    /\ UNCHANGED <<left, mine, tables, notify, woken, idle, reaper, client>>

UnregisterSignal(s) ==
    /\ Move(s, "unsignal", "remove")
    /\ notify' = notify \ {s}
    /\ UNCHANGED <<left, mine, tables, sinks, woken, idle, reaper, client>>

\* SessionManager::remove: the session, then its snapshot.
Remove(s) ==
    /\ Move(s, "remove", "forget")
    /\ sessions' = sessions \ {s}
    /\ UNCHANGED <<left, mine, owner, snapshot, clientAddrs, routes, engine, idle, reaper, client>>

Forget(s) ==
    /\ Move(s, "forget", "done")
    /\ snapshot' = [snapshot EXCEPT ![s] = None]
    /\ UNCHANGED <<left, mine, owner, sessions, clientAddrs, routes, engine, idle, reaper, client>>

-------------------------------------------------------------------------------
(***************************************************************************)
(* The client, time and the idle reaper.                                   *)
(***************************************************************************)
EndStream(s) ==
    /\ s \notin ended
    /\ pc[s] # "new"
    /\ ended' = ended \cup {s}
    /\ UNCHANGED <<handler, tables, engine, idle, reaper, chunks>>

\* The idle timeout passes for a session without activity.
Idle(s) ==
    /\ s \in sessions \ idle
    /\ idle' = idle \cup {s}
    /\ UNCHANGED <<handler, tables, engine, reaper, client>>

\* On a tick the reaper lists the idle sessions of the table ...
Tick ==
    /\ reap = {} /\ reaping = None
    /\ idle \cap sessions # {}
    /\ reap' = idle \cap sessions
    /\ UNCHANGED <<handler, tables, engine, idle, reaping, client>>

\* ... and unregisters each: sink and policy first, ...
ReapSink(s) ==
    /\ s \in reap /\ reaping = None
    /\ sinks' = sinks \ {s}
    /\ reap' = reap \ {s}
    /\ reaping' = s
    /\ UNCHANGED <<handler, tables, notify, woken, idle, client>>

\* ... then the signal, which reaches a handler only if it is waiting for it.
ReapSignal(s) ==
    /\ reaping = s
    /\ reaping' = None
    /\ notify' = notify \ {s}
    /\ woken' = IF s \in notify /\ pc[s] = "select" THEN woken \cup {s} ELSE woken
    /\ UNCHANGED <<handler, tables, sinks, idle, reap, client>>

\* A packet from the client that the engine forwards counts as activity: its
\* source is in the snapshot, and the session has an egress policy.
ForwardFromClient(s) ==
    /\ snapshot[s] \notin {None, {}}
    /\ s \in sinks
    /\ idle' = idle \ {s}
    /\ UNCHANGED <<handler, tables, engine, reaper, client>>

-------------------------------------------------------------------------------
\* The steps a handler takes by itself, once what it waits for has happened.
Handler(s) ==
    \/ Insert(s) \/ Accept(s) \/ Allocated(s) \/ Announce(s) \/ SendFails(s)
    \/ \E pool \in Pools : AllocateFrom(s, pool)
    \/ Install(s) \/ RegisterSink(s) \/ RegisterSignal(s) \/ Publish(s)
    \/ GrantRequest(s) \/ Reroute(s) \/ Reply(s)
    \/ StreamEnds(s) \/ Closed(s)
    \/ ReleaseOne(s) \/ Released(s) \/ Withdraw(s)
    \/ UnregisterSink(s) \/ UnregisterSignal(s) \/ Remove(s) \/ Forget(s)

\* The steps that depend on the client or the clock.
Environment(s) ==
    \/ Refuse(s) \/ Admit(s)
    \/ MtuTick(s)
    \/ ReceiveAddressRequest(s) \/ ReceiveRoutes(s) \/ ReceiveMalformed(s)
    \/ ForwardFromClient(s)
    \/ EndStream(s) \/ Idle(s)

Reaper == Tick \/ \E s \in Session : ReapSink(s) \/ ReapSignal(s)

Next ==
    \/ \E s \in Session : Handler(s) \/ Environment(s)
    \/ Reaper

Spec == Init /\ [][Next]_vars

\* A handler that can run runs, and so does the reaper's task.
Fairness ==
    /\ \A s \in Session : WF_vars(Handler(s))
    /\ WF_vars(Reaper)

FairSpec == Spec /\ Fairness

-------------------------------------------------------------------------------
(***************************************************************************)
(* Properties.                                                             *)
(***************************************************************************)
Serving == {"select", "grant", "reroute", "republish", "reply"}
TearingDown == {"release", "withdraw", "unregister", "unsignal", "remove", "forget"}

\* Every variable has its type, and a signal is pending only with a handler
\* that waits for it: notify_waiters stores nothing for later.
TypeOK ==
    /\ pc \in [Session -> {"new", "refused", "insert", "accept", "allocate", "announce", "install",
                           "register", "signal", "publish", "done"} \cup Serving \cup TearingDown]
    /\ left \in [Session -> SUBSET Pools]
    /\ mine \in [Session -> SUBSET Addr]
    /\ owner \in [Addr -> Session \cup {None}]
    /\ clientAddrs \in [Addr -> Session \cup {None}]
    /\ snapshot \in [Session -> (SUBSET Addr) \cup {None}]
    /\ sessions \subseteq Session /\ routes \subseteq Session
    /\ sinks \subseteq Session /\ notify \subseteq Session /\ woken \subseteq Session
    /\ idle \subseteq Session /\ reap \subseteq Session /\ reaping \in Session \cup {None}
    /\ ended \subseteq Session /\ chunks \in [Session -> 0 .. MaxChunks]
    /\ \A s \in woken : pc[s] = "select"

\* While a session is served, every address it has been given is leased to it
\* and routed to it, whatever the teardown of the address's previous holder
\* still removes from the route table (remove_session).
ServedAddressesAreRouted ==
    \A s \in Session : pc[s] \in Serving \ {"reroute"} =>
        \A a \in mine[s] : owner[a] = s /\ clientAddrs[a] = s

\* The snapshot that source addresses are validated against holds only
\* addresses leased to that session, until the session starts tearing down.
SnapshotIsLeased ==
    \A s \in Session : snapshot[s] # None /\ pc[s] \notin TearingDown =>
        snapshot[s] \subseteq Leased(s)

\* A session that is not in the session table holds nothing: the graceful
\* shutdown in main.rs waits for that table alone to become empty.
TableCoversState ==
    \A s \in Session \ sessions :
        /\ Leased(s) = {}
        /\ \A a \in Addr : clientAddrs[a] # s
        /\ s \notin routes \cup sinks \cup notify

\* "From here on, all exits must run teardown" (handler.rs): a handler that is
\* done leaves nothing behind, in any table, whatever the reaper did meanwhile.
NoResidue ==
    \A s \in Session : pc[s] \in {"done", "refused"} =>
        /\ s \notin sessions /\ snapshot[s] = None
        /\ Leased(s) = {}
        /\ \A a \in Addr : clientAddrs[a] # s
        /\ s \notin routes \cup sinks \cup notify \cup woken

\* "Register a new session, enforcing the session limit" (session/mod.rs).
SessionLimit == MaxSessions > 0 => Cardinality(sessions) <= MaxSessions

\* "Dropping the engine sink wakes the session handler, which then runs its
\* normal teardown" (server.rs): a served session whose signal the reaper has
\* taken is torn down.
ReapedIsTornDown ==
    \A s \in Session : pc[s] \in Serving /\ s \notin notify ~> pc[s] = "done"

\* "Maps destination IPs to the session that should receive them" (router.rs):
\* a packet from the network for an address is never put into the sink of a
\* session other than the one that leases the address.
RoutedToLessee ==
    \A a \in Addr : clientAddrs[a] \in sinks => owner[a] \in {clientAddrs[a], None}
===============================================================================
