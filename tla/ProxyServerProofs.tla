--------------------------- MODULE ProxyServerProofs ---------------------------
(***************************************************************************)
(* For every number of sessions, every address pool, any session limit and *)
(* any traffic: a served session's addresses are leased and routed to it,  *)
(* its snapshot holds no other address, a session outside the session      *)
(* table holds nothing, and a handler that is done leaves nothing behind.  *)
(* For every number of connections and processes, and whatever fails: the  *)
(* process around the sessions removes its NAT rules, tells its clients of *)
(* a shutdown, and closes an undisturbed drain with nothing left to cut.   *)
(***************************************************************************)
EXTENDS ProxyServer, TLAPS

-------------------------------------------------------------------------------
(***************************************************************************)
(* SessionLifecycle: what a session holds.                                 *)
(***************************************************************************)

Labels == {"new", "refused", "insert", "accept", "allocate", "announce", "install",
           "register", "signal", "publish", "done"} \cup Serving \cup TearingDown

\* Where the handler is before the session enters the table or after it left,
\* and where its addresses are in the route table.
Outside == {"new", "refused", "insert", "done"}
Routed == {"register", "signal", "publish"} \cup Serving

\* The inductive invariant: what a session holds, in each of the shared tables,
\* at each place of its handler.  Until the teardown begins the pool and the
\* handler's own list agree, and from the registration on all addresses of the
\* list are routed, except for a new one that is about to be.
Held(s) ==
    /\ s \in sessions <=> pc[s] \notin Outside \cup {"forget"}
    /\ pc[s] \in Outside => snapshot[s] = None
    /\ pc[s] \in {"new", "refused", "insert", "accept"} => mine[s] = {}
    /\ pc[s] \notin TearingDown \cup {"done"} => \A a \in Addr : owner[a] = s <=> a \in mine[s]
    /\ pc[s] \in (TearingDown \cup {"done"}) \ {"release"} => \A a \in Addr : owner[a] # s
    /\ \A a \in Addr : clientAddrs[a] = s => pc[s] \in Routed \cup {"release", "withdraw"}
    /\ pc[s] \in Routed \ {"reroute"} => \A a \in mine[s] : clientAddrs[a] = s
    /\ s \in routes => pc[s] \in Serving \cup {"release", "withdraw"}
    /\ s \in sinks => pc[s] \in {"signal", "publish", "release", "withdraw", "unregister"} \cup Serving
    /\ s \in notify => pc[s] \in {"publish", "release", "withdraw", "unregister", "unsignal"} \cup Serving
    /\ snapshot[s] # None /\ pc[s] \notin TearingDown => snapshot[s] \subseteq mine[s]

Inv == TypeOK /\ \A s \in Session : Held(s)

-------------------------------------------------------------------------------
(***************************************************************************)
(* Types.                                                                  *)
(***************************************************************************)

\* The addresses of a family are addresses.
LEMMA PoolAddresses ==
    ASSUME NEW pool \in Pools
    PROVE  pool \subseteq Addr
BY SMTT(30) DEF Addr

\* A step of a handler keeps the types.
LEMMA HandlerTypes ==
    ASSUME TypeOK, NEW s \in Session, Handler(s)
    PROVE  TypeOK'
<1> USE DEF TypeOK, Serving, TearingDown, Goto, Move, handler, tables, engine, reaper, client
<1>1. CASE Accept(s) \/ Allocated(s) \/ Announce(s) \/ SendFails(s) \/ Released(s)
  BY <1>1, SMTT(30), Z3T(30) DEF Accept, Allocated, Announce, SendFails, Released
<1>2. CASE Insert(s) \/ Remove(s) \/ Forget(s)
  BY <1>2, SMTT(30), Z3T(30) DEF Insert, Remove, Forget
<1>3. CASE Publish(s)
  BY <1>3, SMTT(30), Z3T(30) DEF Publish
<1>4. ASSUME NEW pool \in Pools, AllocateFrom(s, pool) PROVE TypeOK'
  BY <1>4, PoolAddresses, SMTT(30), Z3T(30) DEF AllocateFrom, Pool!Grant
<1>5. CASE GrantRequest(s)
  BY <1>5, SMTT(30), Z3T(30) DEF GrantRequest, Pool!Grant
<1>6. CASE ReleaseOne(s)
  BY <1>6, SMTT(30), Z3T(30) DEF ReleaseOne, Pool!Return
<1>7. CASE Install(s) \/ Reroute(s)
  BY <1>7, SMTT(30), Z3T(30) DEF Install, Reroute
<1>8. CASE Withdraw(s)
  BY <1>8, SMTT(30), Z3T(30) DEF Withdraw
<1>9. CASE RegisterSink(s) \/ RegisterSignal(s) \/ UnregisterSink(s) \/ UnregisterSignal(s)
  BY <1>9, SMTT(30), Z3T(30) DEF RegisterSink, RegisterSignal, UnregisterSink, UnregisterSignal
<1>10. CASE Reply(s)
  BY <1>10, SMTT(30), Z3T(30) DEF Reply
<1>11. CASE StreamEnds(s) \/ Closed(s)
  BY <1>11, SMTT(30) DEF StreamEnds, Closed, Branch
<1> QED
  BY <1>1, <1>2, <1>3, <1>4, <1>5, <1>6, <1>7, <1>8, <1>9, <1>10, <1>11, ZenonT(60) DEF Handler

\* So does a step of a client or of the clock.
LEMMA EnvironmentTypes ==
    ASSUME TypeOK, NEW s \in Session, Environment(s)
    PROVE  TypeOK'
<1> USE DEF TypeOK, Serving, TearingDown, Goto, Move, handler, tables, engine, reaper, client
<1>1. CASE Refuse(s) \/ Admit(s)
  BY <1>1, SMTT(30), Z3T(30) DEF Refuse, Admit
<1>2. CASE MtuTick(s)
  BY <1>2, SMTT(30), Z3T(30) DEF MtuTick, Branch
<1>3. CASE Receive(s) /\ (ReceiveAddressRequest(s) \/ ReceiveRoutes(s) \/ ReceiveMalformed(s))
  <2>1. chunks' \in [Session -> 0 .. MaxChunks] /\ UNCHANGED ended /\ pc[s] = "select" /\ woken' = woken \ {s}
    BY <1>3, LifecycleAssumption, SMTT(30), Z3T(30) DEF Receive, Branch
  <2>2. CASE ReceiveAddressRequest(s) \/ ReceiveMalformed(s)
    BY <2>1, <2>2, SMTT(30), Z3T(30) DEF ReceiveAddressRequest, ReceiveMalformed
  <2>3. CASE ReceiveRoutes(s)
    BY <2>1, <2>3, SMTT(30), Z3T(30) DEF ReceiveRoutes
  <2> QED
    BY <1>3, <2>2, <2>3
<1>4. CASE ForwardFromClient(s) \/ EndStream(s) \/ Idle(s)
  BY <1>4, SMTT(30), Z3T(30) DEF ForwardFromClient, EndStream, Idle
<1> QED
  BY <1>1, <1>2, <1>3, <1>4, ZenonT(60) DEF Environment, ReceiveAddressRequest, ReceiveRoutes, ReceiveMalformed

\* And so does the reaper: it signals only a handler that waits.
LEMMA ReaperTypes ==
    ASSUME TypeOK, Reaper
    PROVE  TypeOK'
<1> USE DEF TypeOK, handler, tables, engine, reaper, client
<1>1. CASE Tick
  BY <1>1, SMTT(30), Z3T(30) DEF Tick
<1>2. ASSUME NEW s \in Session, ReapSink(s) PROVE TypeOK'
  BY <1>2, SMTT(30), Z3T(30) DEF ReapSink
<1>3. ASSUME NEW s \in Session, ReapSignal(s) PROVE TypeOK'
  BY <1>3, SMTT(30) DEF ReapSignal
<1> QED
  BY <1>1, <1>2, <1>3 DEF Reaper

-------------------------------------------------------------------------------
(***************************************************************************)
(* What a step of the session s does to what a session t holds.            *)
(***************************************************************************)

\* What the type invariant says of the handlers and of the tables.
LEMMA Shapes ==
    ASSUME TypeOK
    PROVE  /\ pc \in [Session -> Labels] /\ mine \in [Session -> SUBSET Addr]
           /\ owner \in [Addr -> Session \cup {None}] /\ clientAddrs \in [Addr -> Session \cup {None}]
           /\ snapshot \in [Session -> (SUBSET Addr) \cup {None}]
BY DEF TypeOK, Labels

\* A handler that goes somewhere is there, and no other handler moves.
LEMMA Going ==
    ASSUME TypeOK, NEW s \in Session, NEW t \in Session, NEW label, Goto(s, label)
    PROVE  pc'[s] = label /\ (t # s => pc'[t] = pc[t])
BY Shapes DEF Goto

\* A step takes nothing from a session t, moves its handler nowhere and gives it no more
\* than it had.
Same(t) ==
    /\ pc'[t] = pc[t] /\ mine'[t] = mine[t] /\ snapshot'[t] = snapshot[t]
    /\ (t \in sessions' <=> t \in sessions) /\ (t \in routes' => t \in routes)
    /\ (t \in sinks' => t \in sinks) /\ (t \in notify' => t \in notify)
    /\ \A a \in Addr : owner'[a] = t <=> owner[a] = t
    /\ \A a \in Addr : clientAddrs'[a] = t => clientAddrs[a] = t
    /\ pc[t] \in Routed \ {"reroute"} => \A a \in mine[t] : clientAddrs'[a] = clientAddrs[a]

\* Such a step keeps what is known of t.
LEMMA SameKeepsHeld ==
    ASSUME NEW t \in Session, Held(t), Same(t)
    PROVE  Held(t)'
<1>1. pc'[t] = pc[t] /\ mine'[t] = mine[t] /\ snapshot'[t] = snapshot[t]
  BY DEF Same
<1>2. /\ t \in sessions' <=> pc[t] \notin Outside \cup {"forget"}
      /\ t \in routes' => pc[t] \in Serving \cup {"release", "withdraw"}
      /\ t \in sinks' => pc[t] \in {"signal", "publish", "release", "withdraw", "unregister"} \cup Serving
      /\ t \in notify' => pc[t] \in {"publish", "release", "withdraw", "unregister", "unsignal"} \cup Serving
  BY Zenon DEF Held, Same
<1>3. /\ pc[t] \notin TearingDown \cup {"done"} => \A a \in Addr : owner'[a] = t <=> a \in mine[t]
      /\ pc[t] \in (TearingDown \cup {"done"}) \ {"release"} => \A a \in Addr : owner'[a] # t
  BY Zenon DEF Held, Same
<1>4. \A a \in Addr : clientAddrs'[a] = t => pc[t] \in Routed \cup {"release", "withdraw"}
  BY Zenon DEF Held, Same
<1>5. pc[t] \in Routed \ {"reroute"} => \A a \in mine[t] : clientAddrs'[a] = t
  BY Zenon DEF Held, Same
<1> QED
  BY <1>1, <1>2, <1>3, <1>4, <1>5, Zenon DEF Held

\* The steps that move s from one place to another and touch no table.
Moves(s) ==
    \/ Refuse(s) \/ Admit(s) \/ Accept(s) \/ Allocated(s) \/ Announce(s) \/ SendFails(s)
    \/ Released(s) \/ Reply(s) \/ ReceiveAddressRequest(s) \/ ReceiveMalformed(s)
    \/ StreamEnds(s) \/ Closed(s)

\* Indeed they touch none.
LEMMA MovesTouchNoTable ==
    ASSUME NEW s \in Session, Moves(s)
    PROVE  UNCHANGED <<mine, owner, sessions, snapshot, clientAddrs, routes, sinks, notify>>
<1> USE DEF tables, engine
<1>1. CASE Refuse(s) \/ Admit(s) \/ Accept(s) \/ Allocated(s) \/ Announce(s) \/ SendFails(s)
  BY <1>1, Zenon DEF Refuse, Admit, Accept, Allocated, Announce, SendFails
<1>2. CASE Released(s) \/ Reply(s) \/ ReceiveAddressRequest(s)
  BY <1>2, Zenon DEF Released, Reply, ReceiveAddressRequest
<1>3. CASE ReceiveMalformed(s) \/ StreamEnds(s) \/ Closed(s)
  BY <1>3, Zenon DEF ReceiveMalformed, StreamEnds, Closed
<1> QED
  BY <1>1, <1>2, <1>3, Zenon DEF Moves

\* From where to where the handler of s goes, while no other handler moves.
LEMMA MovesAre ==
    ASSUME TypeOK, NEW s \in Session, NEW t \in Session, Moves(s)
    PROVE  /\ t # s => pc'[t] = pc[t]
           /\ \/ pc[s] = "new" /\ pc'[s] \in {"refused", "insert"}
              \/ pc[s] = "accept" /\ pc'[s] = "allocate"
              \/ pc[s] = "allocate" /\ pc'[s] = "announce"
              \/ pc[s] = "announce" /\ pc'[s] = "install"
              \/ pc[s] \in {"accept", "allocate", "announce", "reply", "select"} /\ pc'[s] = "release"
              \/ pc[s] = "reply" /\ pc'[s] = "select"
              \/ pc[s] = "select" /\ pc'[s] = "grant"
              \/ pc[s] = "release" /\ pc'[s] = "withdraw" /\ Leased(s) = {}
<1>1. \A label : Goto(s, label) => pc'[s] = label /\ (t # s => pc'[t] = pc[t])
  BY Going
<1>2. CASE Refuse(s) \/ Admit(s) \/ Accept(s) \/ Announce(s)
  BY <1>1, <1>2, Zenon DEF Refuse, Admit, Accept, Announce, Move
<1>3. CASE Allocated(s)
  BY <1>1, <1>3, Zenon DEF Allocated
<1>4. CASE SendFails(s) \/ Reply(s) \/ Released(s)
  BY <1>1, <1>4, Zenon DEF SendFails, Reply, Released, Move
<1>5. CASE ReceiveAddressRequest(s) \/ ReceiveMalformed(s) \/ StreamEnds(s) \/ Closed(s)
  BY <1>1, <1>5, Zenon DEF ReceiveAddressRequest, ReceiveMalformed, Receive, StreamEnds, Closed, Branch
<1> QED
  BY <1>2, <1>3, <1>4, <1>5, Zenon DEF Moves

\* So they keep what every session holds.
LEMMA MovesKeepHeld ==
    ASSUME Inv, NEW s \in Session, NEW t \in Session, Moves(s)
    PROVE  Held(t)'
<1>1. UNCHANGED <<mine, owner, sessions, snapshot, clientAddrs, routes, sinks, notify>>
  BY MovesTouchNoTable
<1>2. TypeOK /\ Held(t)
  BY DEF Inv
<1>3. CASE t # s
  <2>1. Same(t)
    BY <1>1, <1>2, <1>3, MovesAre, Zenon DEF Same
  <2> QED
    BY <1>2, <2>1, SameKeepsHeld
<1>4. ASSUME t = s, pc[s] = "new" /\ pc'[s] \in {"refused", "insert"} PROVE Held(t)'
  BY <1>1, <1>2, <1>4, SMTT(30), Z3T(30) DEF Held, Outside, Routed, Serving, TearingDown
<1>5. ASSUME t = s, \/ pc[s] = "accept" /\ pc'[s] = "allocate"
                    \/ pc[s] = "allocate" /\ pc'[s] = "announce"
                    \/ pc[s] = "announce" /\ pc'[s] = "install"
      PROVE  Held(t)'
  BY <1>1, <1>2, <1>5, SMTT(30), Z3T(30) DEF Held, Outside, Routed, Serving, TearingDown
<1>6. ASSUME t = s, pc[s] \in {"accept", "allocate", "announce", "reply", "select"}, pc'[s] = "release" PROVE Held(t)'
  BY <1>1, <1>2, <1>6, SMTT(30), Z3T(30) DEF Held, Outside, Routed, Serving, TearingDown
<1>7. ASSUME t = s, (pc[s] = "reply" /\ pc'[s] = "select") \/ (pc[s] = "select" /\ pc'[s] = "grant") PROVE Held(t)'
  BY <1>1, <1>2, <1>7, SMTT(30), Z3T(30) DEF Held, Outside, Routed, Serving, TearingDown
<1>8. ASSUME t = s, pc[s] = "release", pc'[s] = "withdraw", Leased(s) = {} PROVE Held(t)'
  BY <1>1, <1>2, <1>8, SMTT(30), Z3T(30) DEF Held, Outside, Routed, Serving, TearingDown, Leased
<1> QED
  BY <1>2, <1>3, <1>4, <1>5, <1>6, <1>7, <1>8, MovesAre, Zenon

\* The session table and its snapshots: only the entry of s changes.
LEMMA TableKeepsHeld ==
    ASSUME Inv, NEW s \in Session, NEW t \in Session,
           Insert(s) \/ Publish(s) \/ Remove(s) \/ Forget(s)
    PROVE  Held(t)'
<1>1. UNCHANGED <<mine, owner, clientAddrs, routes, sinks, notify>>
  BY Zenon DEF Insert, Publish, Remove, Forget, engine
<1>2. TypeOK /\ Held(t)
  BY DEF Inv
<1>3. \A label : Goto(s, label) => pc'[s] = label /\ (t # s => pc'[t] = pc[t])
  BY <1>2, Going
<1>4. CASE t # s
  <2>1. snapshot'[t] = snapshot[t] /\ (t \in sessions' <=> t \in sessions)
    BY <1>2, <1>4, Shapes, SMTT(30), Z3T(30) DEF Insert, Publish, Remove, Forget
  <2>2. pc'[t] = pc[t]
    BY <1>3, <1>4, Zenon DEF Insert, Publish, Remove, Forget, Move
  <2>3. Same(t)
    BY <1>1, <2>1, <2>2, Zenon DEF Same
  <2> QED
    BY <1>2, <2>3, SameKeepsHeld
<1>5. CASE t = s /\ Insert(s)
  <2>1. pc[s] = "insert" /\ pc'[s] = "accept" /\ s \in sessions' /\ snapshot'[s] = {}
    BY <1>2, <1>3, <1>5, Shapes DEF Insert, Move
  <2> QED
    BY <1>1, <1>2, <1>5, <2>1, SMTT(30), Z3T(30) DEF Held, Outside, Routed, Serving, TearingDown
<1>6. CASE t = s /\ Publish(s)
  <2>1. /\ (pc[s] = "publish" /\ pc'[s] = "select") \/ (pc[s] = "republish" /\ pc'[s] = "reply")
        /\ snapshot'[s] = mine[s] /\ sessions' = sessions
    BY <1>2, <1>3, <1>6, Shapes DEF Publish, Move
  <2> QED
    BY <1>1, <1>2, <1>6, <2>1, SMTT(30), Z3T(30) DEF Held, Outside, Routed, Serving, TearingDown
<1>7. CASE t = s /\ Remove(s)
  <2>1. pc[s] = "remove" /\ pc'[s] = "forget" /\ s \notin sessions' /\ snapshot' = snapshot
    BY <1>2, <1>3, <1>7 DEF Remove, Move
  <2> QED
    BY <1>1, <1>2, <1>7, <2>1, SMTT(30), Z3T(30) DEF Held, Outside, Routed, Serving, TearingDown
<1>8. CASE t = s /\ Forget(s)
  <2>1. pc[s] = "forget" /\ pc'[s] = "done" /\ sessions' = sessions /\ snapshot'[s] = None
    BY <1>2, <1>3, <1>8, Shapes DEF Forget, Move
  <2> QED
    BY <1>1, <1>2, <1>8, <2>1, SMTT(30), Z3T(30) DEF Held, Outside, Routed, Serving, TearingDown
<1> QED
  BY <1>4, <1>5, <1>6, <1>7, <1>8, Zenon

\* The pool: an address that s takes was nobody's, so it is on no other list.
LEMMA PoolKeepsHeld ==
    ASSUME Inv, NEW s \in Session, NEW t \in Session,
           \/ \E pool \in Pools : AllocateFrom(s, pool)
           \/ GrantRequest(s) \/ ReleaseOne(s)
    PROVE  Held(t)'
<1>1. UNCHANGED <<sessions, snapshot, clientAddrs, routes, sinks, notify>>
  BY Zenon DEF AllocateFrom, GrantRequest, ReleaseOne, engine
<1>2. TypeOK /\ Held(t)
  BY DEF Inv
<1>3. \A label : Goto(s, label) => pc'[s] = label /\ (t # s => pc'[t] = pc[t])
  BY <1>2, Going
<1>4. ASSUME NEW a \in Addr, Pool!Grant(s, a), mine' = [mine EXCEPT ![s] = @ \cup {a}],
             \/ pc[s] = "allocate" /\ UNCHANGED pc
             \/ pc[s] = "grant" /\ Goto(s, "reroute")
      PROVE  Held(t)'
  <2>1. owner[a] = None /\ \A b \in Addr : owner'[b] = IF b = a THEN s ELSE owner[b]
    BY <1>2, <1>4, Shapes DEF Pool!Grant
  <2>2. mine'[t] = IF t = s THEN mine[s] \cup {a} ELSE mine[t]
    BY <1>2, <1>4, Shapes
  <2>3. CASE t # s
    <3>1. \A b \in Addr : owner'[b] = t <=> owner[b] = t
      BY <2>1, <2>3, LifecycleAssumption
    <3>2. Same(t)
      BY <1>1, <1>3, <1>4, <2>2, <2>3, <3>1, Zenon DEF Same
    <3> QED
      BY <1>2, <3>2, SameKeepsHeld
  <2>4. CASE t = s
    <3>1. (pc[s] = "allocate" /\ pc'[s] = "allocate") \/ (pc[s] = "grant" /\ pc'[s] = "reroute")
      BY <1>3, <1>4, Zenon
    <3> QED
      BY <1>1, <1>2, <2>1, <2>2, <2>4, <3>1, SMTT(30), Z3T(30) DEF Held, Outside, Routed, Serving, TearingDown
  <2> QED
    BY <2>3, <2>4
<1>5. ASSUME UNCHANGED <<owner, mine>>,
             UNCHANGED pc \/ (pc[s] = "grant" /\ Goto(s, "republish"))
      PROVE  Held(t)'
  <2>1. CASE pc'[t] = pc[t]
    <3>1. Same(t)
      BY <1>1, <1>5, <2>1, Zenon DEF Same
    <3> QED
      BY <1>2, <3>1, SameKeepsHeld
  <2>2. CASE t = s /\ pc[s] = "grant" /\ pc'[s] = "republish"
    BY <1>1, <1>2, <1>5, <2>2, SMTT(30), Z3T(30) DEF Held, Outside, Routed, Serving, TearingDown
  <2> QED
    BY <1>3, <1>5, <2>1, <2>2, Zenon
<1>6. CASE ReleaseOne(s)
  <2>1. PICK a \in Addr : Pool!Return(s, a)
    BY <1>6 DEF ReleaseOne
  <2>2. owner[a] = s /\ \A b \in Addr : owner'[b] = IF b = a THEN None ELSE owner[b]
    BY <1>2, <2>1, Shapes DEF Pool!Return
  <2>3. pc[s] = "release" /\ UNCHANGED <<pc, mine>>
    BY <1>6, Zenon DEF ReleaseOne, handler
  <2>4. CASE t # s
    <3>1. \A b \in Addr : owner'[b] = t <=> owner[b] = t
      BY <2>2, <2>4, LifecycleAssumption
    <3>2. Same(t)
      BY <1>1, <2>3, <3>1, Zenon DEF Same
    <3> QED
      BY <1>2, <3>2, SameKeepsHeld
  <2>5. CASE t = s
    BY <1>1, <1>2, <2>3, <2>5, SMTT(30), Z3T(30) DEF Held, Outside, Routed, Serving, TearingDown
  <2> QED
    BY <2>4, <2>5
<1>7. CASE \E pool \in Pools : AllocateFrom(s, pool)
  BY <1>4, <1>5, <1>7, PoolAddresses, Zenon DEF AllocateFrom
<1>8. CASE GrantRequest(s)
  BY <1>4, <1>5, <1>8, Zenon DEF GrantRequest
<1> QED
  BY <1>6, <1>7, <1>8

\* The route table: what s routes to itself it leases, so that it takes no
\* address from a session that is served; and it withdraws only its own.
LEMMA RoutesKeepHeld ==
    ASSUME Inv, NEW s \in Session, NEW t \in Session,
           Install(s) \/ Reroute(s) \/ Withdraw(s) \/ ReceiveRoutes(s)
    PROVE  Held(t)'
<1>1. UNCHANGED <<mine, owner, sessions, snapshot, sinks, notify>>
  BY Zenon DEF Install, Reroute, Withdraw, ReceiveRoutes, handler, engine
<1>2. TypeOK /\ Held(s) /\ Held(t)
  BY DEF Inv
<1>3. \A label : Goto(s, label) => pc'[s] = label /\ (t # s => pc'[t] = pc[t])
  BY <1>2, Going
<1>4. CASE Install(s) \/ Reroute(s)
  <2>1. /\ (pc[s] = "install" /\ pc'[s] = "register") \/ (pc[s] = "reroute" /\ pc'[s] = "republish")
        /\ t # s => pc'[t] = pc[t]
        /\ routes' = routes
    BY <1>3, <1>4, Zenon DEF Install, Reroute, Move
  <2>2. \A a \in Addr : clientAddrs'[a] = IF a \in mine[s] THEN s ELSE clientAddrs[a]
    <3>1. CASE Install(s)
      BY <3>1, Zenon DEF Install
    <3>2. CASE Reroute(s)
      BY <3>2, Zenon DEF Reroute
    <3> QED
      BY <1>4, <3>1, <3>2, Zenon
  <2>3. \A x \in Session : mine[x] \subseteq Addr
    BY <1>2, Shapes
  <2>4. CASE t # s
    <3>1. \A a \in Addr : clientAddrs'[a] = t => clientAddrs[a] = t
      BY <2>2, <2>4
    <3>2. \A a \in mine[s] : owner[a] = s
      BY <1>2, <2>1, <2>3, SMTT(30), Z3T(30) DEF Held, TearingDown
    <3>3. ASSUME pc[t] \in Routed \ {"reroute"}, NEW a \in mine[t] PROVE clientAddrs'[a] = clientAddrs[a]
      <4>1. owner[a] = t
        BY <1>2, <2>3, <3>3, SMTT(30), Z3T(30) DEF Held, Routed, Serving, TearingDown
      <4> QED
        BY <2>2, <2>3, <2>4, <3>2, <4>1
    <3>4. Same(t)
      BY <1>1, <2>1, <2>4, <3>1, <3>3, Zenon DEF Same
    <3> QED
      BY <1>2, <3>4, SameKeepsHeld
  <2>5. CASE t = s
    <3>1. \A a \in mine[s] : clientAddrs'[a] = s
      BY <2>2, <2>3
    <3> QED
      BY <1>1, <1>2, <2>1, <2>5, <3>1, ZenonT(60) DEF Held, Outside, Routed, Serving, TearingDown
  <2> QED
    BY <2>4, <2>5
<1>5. CASE Withdraw(s)
  <2>1. \A a \in Addr : clientAddrs'[a] = IF clientAddrs[a] = s THEN None ELSE clientAddrs[a]
    BY <1>5 DEF Withdraw
  <2>2. /\ pc[s] = "withdraw" /\ pc'[s] = "unregister" /\ (t # s => pc'[t] = pc[t])
        /\ routes' = routes \ {s}
    BY <1>3, <1>5, Zenon DEF Withdraw, Move
  <2>3. CASE t # s
    <3>1. \A a \in Addr : clientAddrs'[a] = t => clientAddrs[a] = t
      BY <2>1, LifecycleAssumption
    <3>2. ASSUME pc[t] \in Routed \ {"reroute"}, NEW a \in mine[t] PROVE clientAddrs'[a] = clientAddrs[a]
      <4>1. clientAddrs[a] = t
        BY <1>2, <3>2, Zenon DEF Held
      <4>2. a \in Addr
        BY <1>2, Shapes
      <4> QED
        BY <2>1, <2>3, <4>1, <4>2
    <3>3. Same(t)
      BY <1>1, <2>2, <2>3, <3>1, <3>2, Zenon DEF Same
    <3> QED
      BY <1>2, <3>3, SameKeepsHeld
  <2>4. CASE t = s
    <3>1. \A a \in Addr : clientAddrs'[a] # s
      BY <2>1, LifecycleAssumption
    <3> QED
      BY <1>1, <1>2, <2>2, <2>4, <3>1, ZenonT(60) DEF Held, Outside, Routed, Serving, TearingDown
  <2> QED
    BY <2>3, <2>4
<1>6. CASE ReceiveRoutes(s)
  <2>1. pc[s] = "select" /\ UNCHANGED <<pc, clientAddrs>> /\ routes' \in {routes, routes \cup {s}, routes \ {s}}
    BY <1>6, Zenon DEF ReceiveRoutes, Receive, Branch, handler
  <2>2. CASE t # s
    <3>1. t \in routes' => t \in routes
      BY <2>1, <2>2
    <3>2. Same(t)
      BY <1>1, <2>1, <3>1, Zenon DEF Same
    <3> QED
      BY <1>2, <3>2, SameKeepsHeld
  <2>3. CASE t = s
    BY <1>1, <1>2, <2>1, <2>3, ZenonT(60) DEF Held, Serving
  <2> QED
    BY <2>2, <2>3
<1> QED
  BY <1>4, <1>5, <1>6

\* The engine's registry, at both ends of a session's life.
LEMMA RegistryKeepsHeld ==
    ASSUME Inv, NEW s \in Session, NEW t \in Session,
           RegisterSink(s) \/ RegisterSignal(s) \/ UnregisterSink(s) \/ UnregisterSignal(s)
    PROVE  Held(t)'
<1>1. UNCHANGED <<mine, owner, sessions, snapshot, clientAddrs, routes>>
  BY Zenon DEF RegisterSink, RegisterSignal, UnregisterSink, UnregisterSignal, tables
<1>2. TypeOK /\ Held(t)
  BY DEF Inv
<1>3. \A label : Goto(s, label) => pc'[s] = label /\ (t # s => pc'[t] = pc[t])
  BY <1>2, Going
<1>4. \/ pc[s] = "register" /\ pc'[s] = "signal" /\ sinks' = sinks \cup {s} /\ notify' = notify
      \/ pc[s] = "signal" /\ pc'[s] = "publish" /\ sinks' = sinks /\ notify' = notify \cup {s}
      \/ pc[s] = "unregister" /\ pc'[s] = "unsignal" /\ sinks' = sinks \ {s} /\ notify' = notify
      \/ pc[s] = "unsignal" /\ pc'[s] = "remove" /\ sinks' = sinks /\ notify' = notify \ {s}
  BY <1>3, Zenon DEF RegisterSink, RegisterSignal, UnregisterSink, UnregisterSignal, Move
<1>5. CASE t # s
  <2>1. (t \in sinks' => t \in sinks) /\ (t \in notify' => t \in notify)
    BY <1>4, <1>5
  <2>2. pc'[t] = pc[t]
    BY <1>3, <1>5, Zenon DEF RegisterSink, RegisterSignal, UnregisterSink, UnregisterSignal, Move
  <2>3. Same(t)
    BY <1>1, <2>1, <2>2, Zenon DEF Same
  <2> QED
    BY <1>2, <2>3, SameKeepsHeld
<1>6. CASE t = s
  BY <1>1, <1>2, <1>4, <1>6, ZenonT(60) DEF Held, Outside, Routed, Serving, TearingDown
<1> QED
  BY <1>5, <1>6

\* The client, the clock and the reaper move no handler, and take at most the
\* sink and the signal away.
LEMMA OthersKeepHeld ==
    ASSUME Inv, NEW t \in Session,
           \/ Reaper
           \/ \E s \in Session : MtuTick(s) \/ ForwardFromClient(s) \/ EndStream(s) \/ Idle(s)
           \/ UNCHANGED vars
    PROVE  Held(t)'
<1>1. /\ pc' = pc /\ mine' = mine /\ owner' = owner /\ sessions' = sessions
      /\ snapshot' = snapshot /\ clientAddrs' = clientAddrs /\ routes' = routes
      /\ (t \in sinks' => t \in sinks) /\ (t \in notify' => t \in notify)
  BY Zenon
  DEF Reaper, Tick, ReapSink, ReapSignal, MtuTick, Branch, ForwardFromClient, EndStream, Idle,
      handler, tables, engine, vars
<1>2. Held(t)
  BY DEF Inv
<1>3. Same(t)
  BY <1>1, Zenon DEF Same
<1> QED
  BY <1>2, <1>3, SameKeepsHeld

-------------------------------------------------------------------------------
(***************************************************************************)
(* The inductive invariant, and the results.                               *)
(***************************************************************************)

\* Every step keeps the invariant.
LEMMA InvStep == Inv /\ [Next]_vars => Inv'
<1> SUFFICES ASSUME Inv, [Next]_vars PROVE Inv'
  OBVIOUS
<1>1. TypeOK'
  <2>1. CASE UNCHANGED vars
    BY <2>1 DEF Inv, TypeOK, vars, handler, tables, engine, reaper, client
  <2> QED
    BY <2>1, HandlerTypes, EnvironmentTypes, ReaperTypes, SMTT(30), Z3T(30) DEF Inv, Next
<1>2. ASSUME NEW t \in Session PROVE Held(t)'
  <2>1. ASSUME NEW s \in Session, Handler(s) PROVE Held(t)'
    BY <2>1, MovesKeepHeld, TableKeepsHeld, PoolKeepsHeld, RoutesKeepHeld, RegistryKeepsHeld, SMTT(30), Z3T(30) DEF Handler, Moves
  <2>2. ASSUME NEW s \in Session, Environment(s) PROVE Held(t)'
    BY <2>2, MovesKeepHeld, RoutesKeepHeld, OthersKeepHeld DEF Environment, Moves
  <2> QED
    BY <2>1, <2>2, OthersKeepHeld, SMTT(30), Z3T(30) DEF Next
<1> QED
  BY <1>1, <1>2 DEF Inv

\* It holds when the process starts.
LEMMA InitInv == Init => Inv
<1> SUFFICES ASSUME Init PROVE Inv
  OBVIOUS
<1>1. TypeOK
  <2>1. chunks \in [Session -> 0 .. MaxChunks]
    BY LifecycleAssumption DEF Init
  <2>2. owner \in [Addr -> Session \cup {None}] /\ clientAddrs \in [Addr -> Session \cup {None}]
    BY DEF Init, Pool!Init
  <2>3. snapshot \in [Session -> (SUBSET Addr) \cup {None}]
    BY ZenonT(60) DEF Init
  <2> QED
    BY <2>1, <2>2, <2>3, SMTT(30), Z3T(30) DEF Init, TypeOK
<1>2. \A s \in Session : Held(s)
  BY LifecycleAssumption, SMTT(30) DEF Init, Pool!Init, Held, Outside, Routed, Serving, TearingDown
<1> QED
  BY <1>1, <1>2 DEF Inv

\* The invariant holds in every behaviour.
LEMMA Invariant == Spec => []Inv
BY InitInv, InvStep, PTL DEF Spec

\* What the invariant is for.
LEMMA InvImplies == Inv => ServedAddressesAreRouted /\ SnapshotIsLeased /\ TableCoversState /\ NoResidue
<1> SUFFICES ASSUME Inv PROVE ServedAddressesAreRouted /\ SnapshotIsLeased /\ TableCoversState /\ NoResidue
  BY SMTT(30), Z3T(30)
<1> USE DEF Inv, TypeOK, Held, Leased, Outside, Routed, Serving, TearingDown
<1>1. ServedAddressesAreRouted
  BY SMTT(30), Z3T(30) DEF ServedAddressesAreRouted
<1>2. SnapshotIsLeased
  BY SMTT(30), Z3T(30) DEF SnapshotIsLeased
<1>3. TableCoversState
  BY SMTT(30), Z3T(30) DEF TableCoversState
<1>4. NoResidue
  BY SMTT(30) DEF NoResidue
<1> QED
  BY <1>1, <1>2, <1>3, <1>4

\* For every set of sessions and every pool the variables keep their types, and
\* a signal is pending only with a handler that waits for it.
THEOREM TypeCorrect == Spec => []TypeOK
BY Invariant, PTL DEF Inv

\* A served session's addresses are leased and routed to it, whatever other
\* handlers set up or tear down at the same time.
THEOREM ServedAreRouted == Spec => []ServedAddressesAreRouted
BY InvImplies, Invariant, PTL

\* Source addresses are validated against leased addresses only.
THEOREM SnapshotsAreLeased == Spec => []SnapshotIsLeased
BY InvImplies, Invariant, PTL

\* A session that is not in the session table holds no address, no route and no
\* place in the engine: when the table is empty, nothing is left.
THEOREM TableCovers == Spec => []TableCoversState
BY InvImplies, Invariant, PTL

\* A handler that is done leaves nothing behind, whatever failed before and
\* whatever the reaper did meanwhile.
THEOREM NothingRemains == Spec => []NoResidue
BY InvImplies, Invariant, PTL

-------------------------------------------------------------------------------
(***************************************************************************)
(* ProxyServer: the NAT rules.                                             *)
(***************************************************************************)

Commands == {"sysctl", "rule"} \X Family

\* The places of the main task before anything is served.
Starting == {"tun", "context", "nat"}

\* The inductive invariant of the rules.  A family has at most one rule more than
\* commands of iptables failed, since a rule is appended only where there is none;
\* and from the moment setup_nat has returned, a family that has that one rule more
\* is on the guard's list.
Rules ==
    /\ natRules \in [Family -> Nat] /\ unchecked \in Nat
    /\ setup \in Seq(Commands) /\ guard \in Seq(Family)
    /\ \A f \in Family : natRules[f] <= unchecked + 1
    /\ setup # <<>> => main = "nat" /\ guard = <<>>
    /\ main \in {"tun", "context"} \cup Dead => guard = <<>>
    /\ main = "context" => host = "peer"
    /\ main = "nat" /\ setup = <<>> => guard = Families
    /\ host = "proxy" /\ main \notin Starting \cup {"failed", "crashed"} =>
         \A f \in Family : natRules[f] <= unchecked \/ \E i \in 1 .. Len(guard) : guard[i] = f

\* What setup_nat has to run, and when that is nothing.
LEMMA SetupCommands ==
    /\ Sysctls \o Masquerades \in Seq(Commands)
    /\ Sysctls \o Masquerades = <<>> => Families = <<>>
<1>1. Families \in Seq(Family) /\ DOMAIN Families = 1 .. Len(Families) /\ Len(Families) \in Nat
  BY NatAssumption
<1>2. \A i \in 1 .. Len(Families) : <<"sysctl", Families[i]>> \in Commands /\ <<"rule", Families[i]>> \in Commands
  BY <1>1 DEF Commands
<1>3. Sysctls \in Seq(Commands) /\ Len(Sysctls) = Len(Families)
  <2>1. Sysctls \in [1 .. Len(Families) -> Commands]
    BY <1>1, <1>2, Zenon DEF Sysctls
  <2> QED
    BY <1>1, <2>1
<1>4. Masquerades \in Seq(Commands)
  <2>1. Masquerades \in [1 .. Len(Families) -> Commands]
    BY <1>1, <1>2, Zenon DEF Masquerades
  <2> QED
    BY <1>1, <2>1
<1>5. Sysctls \o Masquerades = <<>> => Len(Families) = 0
  BY <1>1, <1>3, <1>4
<1> QED
  BY <1>1, <1>3, <1>4, <1>5

\* Every family is on the list that the guard starts with.
LEMMA FamiliesAreListed == \A f \in Family : \E i \in 1 .. Len(Families) : Families[i] = f
BY NatAssumption DEF Family

\* The main task goes on and touches neither the rules nor the guard.
LEMMA GoingOnKeepsRules ==
    ASSUME Rules, UNCHANGED <<natRules, setup, guard, unchecked, host>>,
           \/ UNCHANGED main
           \/ setup = <<>> /\ main = "nat" /\ main' \in {"serve", "unwind"}
           \/ main \in {"serve", "drain", "close", "idle"} /\ main' \in {"drain", "close", "idle", "unwind"}
           \/ host = "peer" /\ main \in {"tun", "context"} /\ main' \in {"context", "serve"}
           \/ main \in Dead /\ main' = "tun"
           \/ main = "unwind" /\ guard = <<>> /\ main' = "exit"
    PROVE  Rules'
<1> USE DEF Dead, Starting
<1>1. CASE UNCHANGED main
  BY <1>1, ZenonT(60) DEF Rules
<1>2. CASE setup = <<>> /\ main = "nat" /\ main' \in {"serve", "unwind"}
  <2>1. guard = Families
    BY <1>2 DEF Rules
  <2> QED
    BY <1>2, <2>1, FamiliesAreListed, SMTT(30), Z3T(30) DEF Rules
<1>3. CASE main \in {"serve", "drain", "close", "idle"} /\ main' \in {"drain", "close", "idle", "unwind"}
  BY <1>3, SMTT(30), Z3T(30) DEF Rules
<1>4. CASE host = "peer" /\ main \in {"tun", "context"} /\ main' \in {"context", "serve"}
  BY <1>4, SMTT(30), Z3T(30) DEF Rules
<1>5. CASE main \in Dead /\ main' = "tun"
  BY <1>5, SMTT(30), Z3T(30) DEF Rules
<1>6. CASE main = "unwind" /\ guard = <<>> /\ main' = "exit"
  BY <1>6, SMTT(30) DEF Rules
<1> QED
  BY <1>1, <1>2, <1>3, <1>4, <1>5, <1>6, Zenon

\* setup_nat: it begins, and each command leaves one less to run.
LEMMA SetupKeepsRules ==
    ASSUME Rules, SpawnTun \/ SetupNat
    PROVE  Rules'
<1> USE DEF Dead, Starting
<1>1. CASE SpawnTun
  BY <1>1, SetupCommands, SMTT(30), Z3T(30) DEF Rules, SpawnTun, StartSetup, Main
<1>2. CASE SetupNat
  <2>1. setup # <<>> /\ Advance /\ UNCHANGED <<main, host>> /\ main = "nat" /\ guard = <<>>
    BY <1>2 DEF Rules, SetupNat, Sysctl, Masquerade, MasqueradeUnchecked, server
  <2>2. /\ setup' \in Seq(Commands) /\ guard' \in Seq(Family)
        /\ setup' # <<>> => guard' = <<>>
        /\ setup' = <<>> => guard' = Families
    <3>1. setup \in Seq(Commands) /\ setup # <<>> /\ setup' = Tail(setup)
      BY <2>1 DEF Rules, Advance
    <3>2. setup' \in Seq(Commands) /\ (setup' = <<>> <=> Len(setup) = 1)
      <4>1. setup' \in Seq(Commands) /\ Len(setup) \in Nat /\ Len(setup') = Len(setup) - 1
        BY <3>1
      <4>2. setup' = <<>> <=> Len(setup') = 0
        BY <4>1, SMTT(30), Z3T(30)
      <4> QED
        BY <4>1, <4>2
    <3>3. guard' = IF Len(setup) = 1 THEN Families ELSE <<>>
      BY <2>1 DEF Advance
    <3> QED
      BY <3>2, <3>3, NatAssumption
  <2>3. Head(setup)[1] = "rule" => Head(setup)[2] \in Family
    BY <2>1 DEF Rules, Commands
  <2>4. /\ natRules' \in [Family -> Nat] /\ unchecked' \in Nat
        /\ \A f \in Family : natRules'[f] <= unchecked' + 1
    <3>1. CASE Sysctl
      BY <3>1 DEF Rules, Sysctl
    <3>2. CASE Masquerade
      BY <2>3, <3>2, SMTT(30), Z3T(30) DEF Rules, Masquerade
    <3>3. CASE MasqueradeUnchecked
      BY <2>3, <3>3, SMTT(30), Z3T(30) DEF Rules, MasqueradeUnchecked
    <3> QED
      BY <1>2, <3>1, <3>2, <3>3 DEF SetupNat
  <2> QED
    BY <2>1, <2>2, <2>4, SMTT(30), Z3T(30) DEF Rules
<1> QED
  BY <1>1, <1>2

\* Dropping the guard: the family that leaves the list loses the rule it has too
\* many, or a command failed and every family may have one more.
LEMMA UnwindKeepsRules ==
    ASSUME Rules, Unwind
    PROVE  Rules'
<1>1. /\ guard # <<>> /\ guard' = Tail(guard) /\ guard \in Seq(Family) /\ guard' \in Seq(Family)
      /\ UNCHANGED <<main, host, setup>> /\ main = "unwind" /\ setup = <<>>
  <2>1. guard # <<>> /\ guard' = Tail(guard) /\ UNCHANGED <<main, host, setup>> /\ main = "unwind"
    BY Zenon DEF Unwind, DropRule, DropFails, server
  <2>2. guard \in Seq(Family) /\ (setup # <<>> => main = "nat")
    BY DEF Rules
  <2> QED
    BY <2>1, <2>2
<1>2. Head(guard) \in Family /\ Head(guard) = guard[1]
  BY <1>1
<1>3. \A f \in Family : (\E i \in 1 .. Len(guard) : guard[i] = f) /\ f # Head(guard)
                        => \E i \in 1 .. Len(guard') : guard'[i] = f
  <2> SUFFICES ASSUME NEW f \in Family, NEW i \in 1 .. Len(guard), guard[i] = f, f # Head(guard)
               PROVE  \E j \in 1 .. Len(guard') : guard'[j] = f
    OBVIOUS
  <2>1. i - 1 \in 1 .. Len(guard') /\ guard'[i - 1] = f
    BY <1>1, <1>2, SMTT(30), Z3T(30)
  <2> QED
    BY <2>1
<1>4. CASE DropRule
  <2>1. natRules' = [natRules EXCEPT ![Head(guard)] = IF @ > 0 THEN @ - 1 ELSE 0] /\ UNCHANGED unchecked
    BY <1>4 DEF DropRule
  <2>2. natRules' \in [Family -> Nat] /\ unchecked' \in Nat
    BY <1>2, <2>1, SMTT(30), Z3T(30) DEF Rules
  <2>3. \A f \in Family : natRules'[f] <= natRules[f] /\ (f = Head(guard) => natRules'[f] <= unchecked')
    BY <1>2, <2>1, SMTT(30), Z3T(30) DEF Rules
  <2>4. ASSUME host = "proxy", NEW f \in Family
        PROVE  natRules'[f] <= unchecked' \/ \E i \in 1 .. Len(guard') : guard'[i] = f
    <3>1. natRules[f] <= unchecked \/ \E i \in 1 .. Len(guard) : guard[i] = f
      BY <1>1, <2>4 DEF Rules, Starting
    <3>2. natRules[f] \in Nat /\ natRules'[f] \in Nat /\ unchecked \in Nat /\ unchecked' = unchecked
      BY <2>1, <2>2 DEF Rules
    <3>3. CASE natRules[f] <= unchecked
      BY <2>3, <3>2, <3>3
    <3>4. CASE f = Head(guard)
      BY <2>3, <3>4
    <3>5. CASE (\E i \in 1 .. Len(guard) : guard[i] = f) /\ f # Head(guard)
      BY <1>3, <3>5
    <3> QED
      BY <3>1, <3>3, <3>4, <3>5
  <2>5. \A f \in Family : natRules'[f] <= unchecked' + 1
    BY <2>1, <2>2, <2>3, SMTT(30), Z3T(30) DEF Rules
  <2> QED
    BY <1>1, <2>2, <2>4, <2>5, SMTT(30), Z3T(30) DEF Rules, Dead, Starting
<1>5. CASE DropFails
  BY <1>1, <1>5, SMTT(30) DEF Rules, DropFails, Dead, Starting
<1> QED
  BY <1>4, <1>5 DEF Unwind

\* Every step of the process keeps the invariant of the rules.
LEMMA RulesStep == Rules /\ [ServerNext]_allVars => Rules'
<1> SUFFICES ASSUME Rules, [ServerNext]_allVars PROVE Rules'
  OBVIOUS
<1>1. CASE MainStep
  <2>1. CASE SpawnTun \/ SetupNat \/ Unwind
    BY <2>1, SetupKeepsRules, UnwindKeepsRules
  <2>2. CASE Listen \/ Drained \/ GraceExpires \/ CloseEndpoint \/ Idled
    BY <2>2, GoingOnKeepsRules, Zenon
    DEF Listen, Drained, GraceExpires, CloseEndpoint, Idled, Main, nat, process
  <2>3. CASE BuildContext \/ \E c \in Conn : ServePeer(c) \/ PeerReturns(c)
    <3>1. main = "context" => host = "peer"
      BY DEF Rules
    <3> QED
      BY <2>3, <3>1, GoingOnKeepsRules, Zenon DEF BuildContext, ServePeer, PeerReturns, Main, nat
  <2>4. CASE Exit
    BY <2>4, GoingOnKeepsRules, ZenonT(60) DEF Exit, Ends, nat
  <2> QED
    BY <1>1, <2>1, <2>2, <2>3, <2>4, Zenon DEF MainStep
<1>2. CASE StartFails
  <2>1. /\ UNCHANGED <<natRules, guard, unchecked, host>> /\ main' = "failed"
        /\ guard = <<>> /\ setup' = <<>>
    BY <1>2 DEF Rules, StartFails, SetupFails, Ends
  <2> QED
    BY <2>1, SMTT(30), Z3T(30) DEF Rules, Dead, Starting
<1>3. CASE Crash
  <2>1. UNCHANGED <<natRules, unchecked, host>> /\ main' = "crashed" /\ guard' = <<>> /\ setup' = <<>>
    BY <1>3 DEF Crash, Ends
  <2> QED
    BY <2>1, SMTT(30), Z3T(30) DEF Rules, Dead, Starting
<1>4. CASE ListenFails \/ Terminate \/ Restart \/ StopAccepting
  BY <1>4, GoingOnKeepsRules, Zenon DEF ListenFails, Terminate, Restart, StopAccepting, Main, nat
<1>5. ASSUME NEW c \in Conn, Incoming(c) \/ ConnStep(c) \/ Finishes(c) \/ DemuxEnds(c) \/ ClientCloses(c)
      PROVE  Rules'
  <2>1. UNCHANGED <<nat, host, main>>
    BY <1>5, Zenon DEF Incoming, ConnStep, Handshake, HandshakeFails, BuildH3, BuildFails, SeeShutdown, SendGoaway,
                       LoopEnds, Finishes, Connection, TaskMoves, DemuxEnds, ClientCloses
  <2> QED
    BY <2>1, GoingOnKeepsRules, Zenon DEF nat
<1>6. ASSUME NEW s \in Session, AcceptRequest(s) \/ HandlerStep(s) \/ SessionStep(s) PROVE Rules'
  <2>1. UNCHANGED <<nat, host, main>>
    BY <1>6, Zenon DEF AcceptRequest, HandlerStep, SessionStep, server
  <2> QED
    BY <2>1, GoingOnKeepsRules, Zenon DEF nat
<1>7. ASSUME NEW b \in BindSession, AcceptBind(b) \/ BindServes(b) \/ BindEnds(b) PROVE Rules'
  <2>1. UNCHANGED <<nat, host, main>>
    BY <1>7, Zenon DEF AcceptBind, BindServes, BindEnds, Bind
  <2> QED
    BY <2>1, GoingOnKeepsRules, Zenon DEF nat
<1>8. CASE UNCHANGED allVars
  BY <1>8, GoingOnKeepsRules, ZenonT(60) DEF allVars, nat, server
<1> QED
  BY <1>1, <1>2, <1>3, <1>4, <1>5, <1>6, <1>7, <1>8, Zenon DEF ServerNext

-------------------------------------------------------------------------------
(***************************************************************************)
(* ProxyServer: the connections and the sessions.                          *)
(***************************************************************************)

\* The accept loop runs only until its receiver sees the shutdown, so that the
\* receiver it clones for a connection has not seen it.
Listening ==
    /\ shutdown \in {0, 1}
    /\ accepting => loopRx = 0
    /\ main \in Starting \cup Dead => ~accepting /\ loopRx = 0

\* The inductive invariant of the connections.  A process that does not serve yet,
\* or no more, has none.  A connection whose receiver has seen the shutdown was
\* sent a GOAWAY, is about to be, or has ended.
Connections ==
    /\ main \in Starting \cup Dead \cup {"serve", "drain", "close", "idle", "unwind"}
    /\ conn \in [Conn -> {"none", "handshake", "build", "open", "announce", "ended"}]
    /\ up \subseteq Conn /\ demux \subseteq Conn /\ goaway \subseteq Conn
    /\ rx \in [Conn -> {0, 1}]
    /\ bind \in [BindSession -> {"new", "asked", "served", "done"}]
    /\ asked \subseteq Session
    /\ main \in Starting \cup Dead => /\ \A c \in Conn : conn[c] = "none" /\ rx[c] = 0
                                    /\ asked = {} /\ sessions = {}
    /\ \A c \in Conn : rx[c] = 1 => c \in goaway \/ conn[c] \in {"announce", "ended"}

\* Every step of the process keeps the invariant of the accept loop.
LEMMA ListeningStep == Listening /\ [ServerNext]_allVars => Listening'
<1> SUFFICES ASSUME Listening, [ServerNext]_allVars PROVE Listening'
  OBVIOUS
<1> USE DEF server, process
<1>1. ASSUME UNCHANGED <<shutdown, accepting, loopRx>>,
             \/ UNCHANGED main
             \/ main' \in {"serve", "drain", "close", "idle", "unwind"}
             \/ main \in Starting \cup Dead /\ main' \in Starting
      PROVE  Listening'
  BY <1>1, SMTT(30), Z3T(30) DEF Listening, Starting, Dead
<1>2. ASSUME NEW how \in Dead, Ends(how) PROVE Listening'
  BY <1>2, SMTT(30), Z3T(30) DEF Listening, Ends
<1>3. CASE MainStep
  <2>1. CASE SpawnTun \/ SetupNat \/ Unwind \/ BuildContext
    BY <1>1, <2>1, Zenon DEF SpawnTun, SetupNat, Unwind, BuildContext, Main, Starting
  <2>2. CASE Drained \/ GraceExpires \/ CloseEndpoint
    BY <1>1, <2>2, Zenon DEF Drained, GraceExpires, CloseEndpoint, Main
  <2>3. CASE Exit
    BY <1>2, <2>3, Zenon DEF Exit, Dead
  <2>4. ASSUME NEW c \in Conn, ServePeer(c) \/ PeerReturns(c) PROVE Listening'
    BY <1>1, <2>4, Zenon DEF ServePeer, PeerReturns, Main
  <2>5. CASE Listen \/ Idled
    BY <2>5, SMTT(30), Z3T(30) DEF Listen, Idled, Main, Listening, Starting, Dead
  <2> QED
    BY <1>3, <2>1, <2>2, <2>3, <2>4, <2>5, Zenon DEF MainStep
<1>4. CASE StartFails \/ Crash
  BY <1>2, <1>4, Zenon DEF StartFails, Crash, Dead
<1>5. CASE Terminate \/ StopAccepting
  BY <1>5, SMTT(30), Z3T(30) DEF Terminate, StopAccepting, Main, Listening, Starting, Dead
<1>6. CASE ListenFails \/ Restart
  BY <1>1, <1>6, Zenon DEF ListenFails, Restart, Main, Starting
<1>7. ASSUME NEW c \in Conn, Incoming(c) \/ ConnStep(c) \/ Finishes(c) \/ DemuxEnds(c) \/ ClientCloses(c)
      PROVE  Listening'
  <2>1. UNCHANGED <<main, shutdown, accepting, loopRx>>
    BY <1>7, Zenon DEF Incoming, ConnStep, Handshake, HandshakeFails, BuildH3, BuildFails, SeeShutdown, SendGoaway,
                       LoopEnds, Finishes, Connection, TaskMoves, DemuxEnds, ClientCloses
  <2> QED
    BY <1>1, <2>1, Zenon
<1>8. ASSUME NEW s \in Session, AcceptRequest(s) \/ HandlerStep(s) \/ SessionStep(s) PROVE Listening'
  BY <1>1, <1>8, Zenon DEF AcceptRequest, HandlerStep, SessionStep
<1>9. ASSUME NEW b \in BindSession, AcceptBind(b) \/ BindServes(b) \/ BindEnds(b) PROVE Listening'
  BY <1>1, <1>9, Zenon DEF AcceptBind, BindServes, BindEnds, Bind
<1>10. CASE UNCHANGED allVars
  BY <1>1, <1>10, Zenon DEF allVars
<1> QED
  BY <1>3, <1>4, <1>5, <1>6, <1>7, <1>8, <1>9, <1>10, Zenon DEF ServerNext

\* The main task goes on, and at most the endpoint is closed.
LEMMA GoingOnKeepsConnections ==
    ASSUME Connections, UNCHANGED <<conn, demux, rx, goaway, asked, bind, sessions>>, up' \subseteq up,
           \/ UNCHANGED main
           \/ main' \in {"serve", "drain", "close", "idle", "unwind"}
           \/ main \in Starting \cup Dead /\ main' \in Starting
    PROVE  Connections'
BY SMTT(30), Z3T(30) DEF Connections, Starting, Dead

\* A process that ends has no connections.
LEMMA EndsKeepsConnections ==
    ASSUME NEW how \in Dead, Ends(how)
    PROVE  Connections'
BY SMTT(30) DEF Ends, Connections, Starting, Dead

\* A connection task goes from one place to another: what it has seen of the shutdown
\* is either announced, or about to be, or the connection ends.
LEMMA TaskKeepsConnections ==
    ASSUME Connections, Listening, NEW c \in Conn,
           NEW from, NEW to \in {"build", "open", "announce", "ended"}, TaskMoves(c, from, to),
           UNCHANGED vars \/ Close(c), from # "none", up' \subseteq Conn, demux' \subseteq Conn,
           goaway \subseteq goaway', goaway' \subseteq Conn,
           \/ rx' = rx /\ from \notin {"announce", "ended"}
           \/ rx' = rx /\ to \in {"announce", "ended"}
           \/ rx' = rx /\ c \in goaway'
           \/ rx' = [rx EXCEPT ![c] = shutdown] /\ to = "announce"
    PROVE  Connections'
<1> USE DEF Connections, Starting, Dead
<1>1. /\ UNCHANGED <<main, asked, bind, sessions>> /\ conn[c] = from
      /\ conn' = [conn EXCEPT ![c] = to]
  BY Zenon DEF TaskMoves, vars, tables, Close
<1>2. main \notin Starting \cup Dead
  BY <1>1, Zenon
<1>3. conn' \in [Conn -> {"none", "handshake", "build", "open", "announce", "ended"}] /\ rx' \in [Conn -> {0, 1}]
  BY <1>1, SMTT(30), Z3T(30) DEF Listening
<1>4. ASSUME NEW d \in Conn, rx'[d] = 1, d \notin goaway' PROVE conn'[d] \in {"announce", "ended"}
  <2>1. CASE d # c
    BY <1>1, <1>4, <2>1, SMTT(30), Z3T(30)
  <2>2. CASE d = c
    BY <1>1, <1>4, <2>2, SMTT(30), Z3T(30)
  <2> QED
    BY <2>1, <2>2
<1> QED
  BY <1>1, <1>2, <1>3, <1>4, Zenon

\* A step of the connection c: only an open one sees the shutdown, and then it is
\* sent a GOAWAY or ends.
LEMMA ConnStepKeepsConnections ==
    ASSUME Connections, Listening, NEW c \in Conn,
           ConnStep(c) \/ Finishes(c) \/ Incoming(c) \/ ServePeer(c)
    PROVE  Connections'
<1>1. CASE ServePeer(c)
  <2>1. /\ main = "context" /\ main' = "serve" /\ conn' = [conn EXCEPT ![c] = "build"]
        /\ up' = {c} /\ demux' = {c} /\ UNCHANGED <<rx, goaway, asked, bind, sessions>>
    BY <1>1, Zenon DEF ServePeer, Main, vars, tables
  <2> QED
    BY <2>1, SMTT(30), Z3T(30) DEF Connections, Starting, Dead
<1>2. CASE Incoming(c)
  <2>1. /\ main \in {"serve", "drain", "close"} /\ UNCHANGED <<main, demux, goaway, asked, bind, sessions>>
        /\ conn' = [conn EXCEPT ![c] = "handshake"] /\ up' = up \cup {c} /\ rx' = [rx EXCEPT ![c] = loopRx]
        /\ accepting
    BY <1>2, Zenon DEF Incoming, vars, tables
  <2> QED
    BY <2>1, SMTT(30), Z3T(30) DEF Connections, Starting, Dead, Listening
<1>3. up \subseteq Conn /\ demux \subseteq Conn /\ goaway \subseteq Conn
  BY Zenon DEF Connections
<1>4. up \ {c} \subseteq Conn /\ demux \ {c} \subseteq Conn /\ demux \cup {c} \subseteq Conn
      /\ goaway \cup {c} \subseteq Conn /\ goaway \subseteq goaway /\ goaway \subseteq goaway \cup {c}
      /\ c \in goaway \cup {c}
  BY <1>3
<1>5. CASE Handshake(c)
  BY <1>3, <1>4, <1>5, TaskKeepsConnections, Zenon DEF Handshake, Connection
<1>6. CASE HandshakeFails(c)
  BY <1>3, <1>4, <1>6, TaskKeepsConnections, Zenon DEF HandshakeFails, Connection
<1>7. CASE BuildH3(c)
  BY <1>3, <1>4, <1>7, TaskKeepsConnections, Zenon DEF BuildH3, Connection
<1>8. CASE BuildFails(c)
  BY <1>3, <1>4, <1>8, TaskKeepsConnections, Zenon DEF BuildFails, Connection
<1>9. CASE SeeShutdown(c)
  BY <1>3, <1>4, <1>9, TaskKeepsConnections, Zenon DEF SeeShutdown, Connection
<1>10. CASE SendGoaway(c)
  BY <1>3, <1>4, <1>10, TaskKeepsConnections, Zenon DEF SendGoaway, Connection
<1>11. CASE LoopEnds(c) \/ Finishes(c)
  <2>1. /\ TaskMoves(c, "announce", "ended") \/ TaskMoves(c, "open", "ended")
        /\ Close(c) /\ demux' = demux \ {c} /\ UNCHANGED <<rx, goaway>>
    BY <1>11, Zenon DEF LoopEnds, Finishes
  <2>2. up' = up \ {c}
    BY <2>1, Zenon DEF Close
  <2> QED
    BY <1>3, <1>4, <2>1, <2>2, TaskKeepsConnections, Zenon
<1> QED
  BY <1>1, <1>2, <1>5, <1>6, <1>7, <1>8, <1>9, <1>10, <1>11, ZenonT(60) DEF ConnStep

\* A request comes only on an open connection, and the handler of one that was
\* accepted runs.
LEMMA RequestsKeepConnections ==
    ASSUME Connections, NEW s \in Session,
           AcceptRequest(s) \/ HandlerStep(s) \/ SessionStep(s)
    PROVE  Connections'
<1> USE DEF Connections, Starting, Dead
<1>1. CASE AcceptRequest(s)
  <2>1. asked' = asked \cup {s} /\ UNCHANGED <<main, conn, up, demux, rx, goaway, bind, sessions>>
    BY <1>1, Zenon DEF AcceptRequest, vars, tables
  <2>2. conn[StreamOf[s]] # "none" /\ StreamOf[s] \in Conn
    BY <1>1, ServerAssumption, SMTT(30), Z3T(30) DEF AcceptRequest, Takes
  <2> QED
    BY <2>1, <2>2, SMTT(30), Z3T(30)
<1>2. CASE HandlerStep(s) \/ SessionStep(s)
  <2>1. s \in asked /\ UNCHANGED <<main, conn, up, demux, rx, goaway, asked, bind>>
    BY <1>2, Zenon DEF HandlerStep, SessionStep, server, process
  <2> QED
    BY <2>1, SMTT(30)
<1> QED
  BY <1>1, <1>2, Zenon

\* A bind request goes its own way.
LEMMA BindsKeepConnections ==
    ASSUME Connections, NEW b \in BindSession, AcceptBind(b) \/ BindServes(b) \/ BindEnds(b)
    PROVE  Connections'
<1>1. ASSUME NEW from, NEW to \in {"asked", "served", "done"}, Bind(b, from, to) PROVE Connections'
  BY <1>1, SMTT(30) DEF Connections, Bind, vars, tables
<1> QED
  BY <1>1, ZenonT(60) DEF AcceptBind, BindServes, BindEnds

\* Every step of the process keeps the invariant of the connections.
LEMMA ConnectionsStep == Connections /\ Listening /\ [ServerNext]_allVars => Connections'
<1> SUFFICES ASSUME Connections, Listening, [ServerNext]_allVars PROVE Connections'
  OBVIOUS
<1> USE DEF vars, tables, server, process
<1>1. CASE MainStep
  <2>1. CASE SpawnTun \/ SetupNat \/ Listen \/ Unwind \/ BuildContext
    BY <2>1, GoingOnKeepsConnections, Zenon DEF SpawnTun, SetupNat, Listen, Unwind, BuildContext, Main, Starting
  <2>2. CASE Drained \/ GraceExpires \/ CloseEndpoint \/ Idled
    BY <2>2, GoingOnKeepsConnections, Zenon DEF Drained, GraceExpires, CloseEndpoint, Idled, Main
  <2>3. CASE Exit
    BY <2>3, EndsKeepsConnections, Zenon DEF Exit, Dead
  <2>4. ASSUME NEW c \in Conn, ServePeer(c) \/ PeerReturns(c) PROVE Connections'
    BY <2>4, ConnStepKeepsConnections, GoingOnKeepsConnections, Zenon DEF PeerReturns, Main
  <2> QED
    BY <1>1, <2>1, <2>2, <2>3, <2>4, Zenon DEF MainStep
<1>2. CASE StartFails \/ Crash
  BY <1>2, EndsKeepsConnections, Zenon DEF StartFails, Crash, Dead
<1>3. CASE ListenFails \/ Terminate \/ Restart \/ StopAccepting
  BY <1>3, GoingOnKeepsConnections, Zenon DEF ListenFails, Terminate, Restart, StopAccepting, Main, Starting
<1>4. ASSUME NEW c \in Conn, Incoming(c) \/ ConnStep(c) \/ Finishes(c) PROVE Connections'
  BY <1>4, ConnStepKeepsConnections, SMTT(30), Z3T(30)
<1>5. ASSUME NEW c \in Conn, DemuxEnds(c) PROVE Connections'
  BY <1>5, SMTT(30) DEF DemuxEnds, Connections, Starting, Dead
<1>6. ASSUME NEW c \in Conn, ClientCloses(c) PROVE Connections'
  <2>1. up' \subseteq up /\ UNCHANGED <<main, conn, demux, rx, goaway, asked, bind, sessions>>
    BY <1>6, Zenon DEF ClientCloses, Close
  <2> QED
    BY <2>1, GoingOnKeepsConnections, Zenon
<1>7. ASSUME NEW s \in Session, AcceptRequest(s) \/ HandlerStep(s) \/ SessionStep(s) PROVE Connections'
  BY <1>7, RequestsKeepConnections
<1>8. ASSUME NEW b \in BindSession, AcceptBind(b) \/ BindServes(b) \/ BindEnds(b) PROVE Connections'
  BY <1>8, BindsKeepConnections
<1>9. CASE UNCHANGED allVars
  BY <1>9, GoingOnKeepsConnections, Zenon DEF allVars
<1> QED
  BY <1>1, <1>2, <1>3, <1>4, <1>5, <1>6, <1>7, <1>8, <1>9, Zenon DEF ServerNext

\* To the sessions, a step of the process is one of their own or none, the end of
\* the streams of a connection, or the end of everything.
LEMMA SessionsSee ==
    ASSUME Connections, [ServerNext]_allVars
    PROVE  \/ [Next]_vars
           \/ /\ UNCHANGED <<handler, tables, engine, idle, reaper, chunks>>
              /\ \E S \in SUBSET asked : ended' = ended \cup S
           \/ \E how \in Dead : Ends(how)
<1>1. CASE MainStep
  <2>1. CASE CloseEndpoint
    BY <2>1, Zenon DEF CloseEndpoint
  <2>2. CASE Exit
    BY <2>2, Zenon DEF Exit, Dead
  <2>3. CASE \/ SpawnTun \/ SetupNat \/ Listen \/ GraceExpires \/ Drained \/ Idled \/ Unwind
             \/ BuildContext \/ \E c \in Conn : ServePeer(c) \/ PeerReturns(c)
    BY <2>3, Zenon DEF SpawnTun, SetupNat, Listen, GraceExpires, Drained, Idled, Unwind, BuildContext, ServePeer,
                       PeerReturns
  <2> QED
    BY <1>1, <2>1, <2>2, <2>3, Zenon DEF MainStep
<1>2. CASE StartFails \/ Crash
  BY <1>2, Zenon DEF StartFails, Crash, Dead
<1>3. CASE ListenFails \/ Terminate \/ Restart \/ StopAccepting
  BY <1>3, Zenon DEF ListenFails, Terminate, Restart, StopAccepting
<1>4. ASSUME NEW c \in Conn,
             \/ Incoming(c) \/ DemuxEnds(c) \/ Handshake(c) \/ HandshakeFails(c) \/ BuildH3(c) \/ BuildFails(c)
             \/ SeeShutdown(c) \/ SendGoaway(c)
      PROVE  UNCHANGED vars
  BY <1>4, Zenon DEF Incoming, DemuxEnds, Handshake, HandshakeFails, BuildH3, BuildFails, SeeShutdown, SendGoaway,
                     Connection
<1>5. ASSUME NEW c \in Conn, ClientCloses(c) \/ LoopEnds(c) \/ Finishes(c)
      PROVE  /\ UNCHANGED <<handler, tables, engine, idle, reaper, chunks>>
             /\ \E S \in SUBSET asked : ended' = ended \cup S
  <2>1. asked \cap StreamsOf(c) \in SUBSET asked
    OBVIOUS
  <2> QED
    BY <1>5, <2>1, Zenon DEF ClientCloses, LoopEnds, Finishes, Close
<1>6. ASSUME NEW s \in Session, AcceptRequest(s) \/ HandlerStep(s) \/ SessionStep(s) PROVE [Next]_vars
  BY <1>6, Zenon DEF AcceptRequest, HandlerStep, SessionStep, Next, Environment
<1>7. ASSUME NEW b \in BindSession, AcceptBind(b) \/ BindServes(b) \/ BindEnds(b) PROVE UNCHANGED vars
  BY <1>7, Zenon DEF AcceptBind, BindServes, BindEnds, Bind
<1>8. CASE UNCHANGED allVars
  BY <1>8, Zenon DEF allVars
<1> QED
  BY <1>1, <1>2, <1>3, <1>4, <1>5, <1>6, <1>7, <1>8, Zenon DEF ServerNext, ConnStep

\* A process that ends leaves the sessions as a new one finds them.
LEMMA EndsIsInit ==
    ASSUME NEW how, Ends(how)
    PROVE  Init'
BY Zenon DEF Ends, Init, Pool!Init

\* Every step of the process keeps what the sessions hold.
LEMMA SessionsStep == Connections /\ Inv /\ [ServerNext]_allVars => Inv'
<1>1. ASSUME Inv, Connections, UNCHANGED <<handler, tables, engine, idle, reaper, chunks>>,
             NEW S \in SUBSET asked, ended' = ended \cup S
      PROVE  Inv'
  <2>1. /\ pc' = pc /\ left' = left /\ mine' = mine /\ owner' = owner /\ sessions' = sessions
        /\ snapshot' = snapshot /\ clientAddrs' = clientAddrs /\ routes' = routes /\ sinks' = sinks
        /\ notify' = notify /\ woken' = woken /\ idle' = idle /\ reap' = reap /\ reaping' = reaping
        /\ chunks' = chunks
    BY <1>1, ZenonT(60) DEF handler, tables, engine, reaper
  <2>2. ended' \subseteq Session
    BY <1>1 DEF Inv, TypeOK, Connections
  <2>3. TypeOK'
    BY <1>1, <2>1, <2>2, ZenonT(30) DEF Inv, TypeOK
  <2>4. ASSUME NEW s \in Session PROVE Held(s)'
    <3>1. Held(s)
      BY <1>1 DEF Inv
    <3> QED
      BY <2>1, <3>1, ZenonT(60) DEF Held
  <2> QED
    BY <2>3, <2>4 DEF Inv
<1>2. (Init => Inv)'
  BY InitInv, PTL
<1>3. ASSUME NEW how \in Dead, Ends(how) PROVE Inv'
  BY <1>2, <1>3, EndsIsInit
<1> QED
  BY <1>1, <1>3, SessionsSee, InvStep, Zenon

-------------------------------------------------------------------------------
(***************************************************************************)
(* ProxyServer: the results.                                               *)
(***************************************************************************)

\* The invariants hold together in every behaviour of the process.
LEMMA ServerInvariant == ServerSpec => [](Inv /\ Rules /\ Listening /\ Connections)
<1>1. ServerInit => Inv
  BY InitInv DEF ServerInit
<1>2. ServerInit => Rules
  BY NatAssumption, SMTT(30), Z3T(30) DEF ServerInit, NatInit, Rules, Dead, Starting
<1>3. ServerInit => Listening
  BY SMTT(30), Z3T(30) DEF ServerInit, ProcessInit, Listening
<1>4. ServerInit => Connections
  BY SMTT(30), Z3T(30) DEF ServerInit, ProcessInit, Init, Connections, Dead, Starting
<1> QED
  BY <1>1, <1>2, <1>3, <1>4, SessionsStep, RulesStep, ListeningStep, ConnectionsStep, PTL DEF ServerSpec

\* For every set of connections, sessions and bind requests, through crashes and
\* restarts, the variables keep their types, and a dead process holds nothing.
THEOREM ServerTypeCorrect == ServerSpec => []ServerTypeOK
<1>1. Inv /\ Rules /\ Listening /\ Connections => ServerTypeOK
  BY SMTT(30), Z3T(30) DEF Inv, Rules, Listening, Connections, ServerTypeOK, Dead, Starting
<1> QED
  BY <1>1, ServerInvariant, PTL

\* What is promised of the sessions is promised of them in the whole process too,
\* where connections close under them, the endpoint is closed, and the process
\* crashes and is started again.
THEOREM SessionsInherited ==
    ServerSpec => [](ServedAddressesAreRouted /\ SnapshotIsLeased /\ TableCoversState /\ NoResidue)
<1>1. Inv => ServedAddressesAreRouted /\ SnapshotIsLeased /\ TableCoversState /\ NoResidue
  BY InvImplies
<1> QED
  BY <1>1, ServerInvariant, PTL

\* Whatever commands fail and however often the process crashed or failed in
\* setup_nat before: once a run that got its guard has returned, no rule of the
\* pools is left except as many as commands failed, and there is never more than
\* one besides these.
THEOREM GuardRemovesRules == ServerSpec => []RulesAreRemoved
<1>1. Rules => RulesAreRemoved
  <2>1. ASSUME Rules, host = "proxy", main = "exit", NEW f \in Family PROVE natRules[f] <= unchecked
    <3>1. guard = <<>>
      BY <2>1 DEF Rules, Dead
    <3>2. natRules[f] <= unchecked \/ \E i \in 1 .. Len(guard) : guard[i] = f
      BY <2>1 DEF Rules, Starting
    <3> QED
      BY <3>1, <3>2
  <2>2. Rules => \A f \in Family : natRules[f] <= unchecked + 1
    BY DEF Rules
  <2> QED
    BY <2>1, <2>2, Zenon DEF RulesAreRemoved
<1> QED
  BY <1>1, ServerInvariant, PTL

\* No connection misses the shutdown, whenever it was accepted and wherever its
\* task is when the watch is set: until its GOAWAY is sent or about to be, its
\* receiver is behind the watch.
THEOREM ShutdownIsAnnounced == ServerSpec => []GoawayIsNotMissed
<1>1. Connections => GoawayIsNotMissed
  BY SMTT(30), Z3T(30) DEF Connections, GoawayIsNotMissed
<1> QED
  BY <1>1, ServerInvariant, PTL

\* From the drain to the close there are two ways: an empty table, and the end of
\* the grace period.
LEMMA WaysToClose ==
    ASSUME [ServerNext]_allVars, main = "drain", main' = "close"
    PROVE  Drained \/ GraceExpires
<1>1. CASE MainStep
  <2>1. CASE SpawnTun \/ SetupNat \/ Listen \/ CloseEndpoint \/ Idled \/ Unwind \/ Exit \/ BuildContext
    BY <2>1, Zenon DEF SpawnTun, SetupNat, Listen, CloseEndpoint, Idled, Unwind, Exit, Ends, BuildContext, Main, server
  <2>2. ASSUME NEW c \in Conn, ServePeer(c) \/ PeerReturns(c) PROVE FALSE
    BY <2>2, Zenon DEF ServePeer, PeerReturns, Main
  <2> QED
    BY <1>1, <2>1, <2>2, Zenon DEF MainStep
<1>2. CASE StartFails \/ ListenFails \/ Terminate \/ Crash \/ Restart \/ StopAccepting
  BY <1>2, Zenon DEF StartFails, ListenFails, Terminate, Crash, Restart, StopAccepting, Ends, Main
<1>3. ASSUME NEW c \in Conn, Incoming(c) \/ ConnStep(c) \/ Finishes(c) \/ DemuxEnds(c) \/ ClientCloses(c)
      PROVE  UNCHANGED main
  BY <1>3, Zenon DEF Incoming, ConnStep, Handshake, HandshakeFails, BuildH3, BuildFails, SeeShutdown, SendGoaway,
                     LoopEnds, Finishes, Connection, TaskMoves, DemuxEnds, ClientCloses
<1>4. ASSUME NEW s \in Session, AcceptRequest(s) \/ HandlerStep(s) \/ SessionStep(s) PROVE UNCHANGED main
  BY <1>4, Zenon DEF AcceptRequest, HandlerStep, SessionStep, server
<1>5. ASSUME NEW b \in BindSession, AcceptBind(b) \/ BindServes(b) \/ BindEnds(b) PROVE UNCHANGED main
  BY <1>5, Zenon DEF AcceptBind, BindServes, BindEnds, Bind
<1>6. CASE UNCHANGED allVars
  BY <1>6, Zenon DEF allVars, server
<1>7. main' # main
  OBVIOUS
<1> QED
  BY <1>1, <1>2, <1>3, <1>4, <1>5, <1>6, <1>7, Zenon DEF ServerNext

\* A drain that ends before its grace period leaves nothing to cut: an empty
\* session table means empty pools, routes and registries, because a session is
\* the last thing that its handler removes.
THEOREM DrainCutsNothing == ServerSpec => DrainedIsReleased
<1> DEFINE Clear == /\ \A a \in Addr : owner[a] = None /\ clientAddrs[a] = None
                    /\ sinks = {} /\ routes = {}
<1>1. Inv /\ sessions = {} => Clear
  <2> SUFFICES ASSUME Inv, sessions = {} PROVE Clear
    BY Zenon
  <2>1. TableCoversState
    BY InvImplies
  <2>2. \A s \in Session : Leased(s) = {} /\ (\A a \in Addr : clientAddrs[a] # s) /\ s \notin routes \cup sinks
    BY <2>1, SMTT(30), Z3T(30) DEF TableCoversState
  <2>3. /\ owner \in [Addr -> Session \cup {None}] /\ clientAddrs \in [Addr -> Session \cup {None}]
        /\ routes \subseteq Session /\ sinks \subseteq Session
    BY DEF Inv, TypeOK
  <2> QED
    BY <2>2, <2>3, SMTT(30) DEF Leased
<1>2. Inv /\ [ServerNext]_allVars =>
        [main = "drain" /\ main' = "close" /\ ~graceOver' => Clear]_allVars
  <2> SUFFICES ASSUME Inv, [ServerNext]_allVars, main = "drain", main' = "close", ~graceOver' PROVE Clear
    BY Zenon
  <2>1. sessions = {}
    BY WaysToClose, Zenon DEF Drained, GraceExpires
  <2> QED
    BY <1>1, <2>1, Zenon
<1> QED
  BY <1>2, ServerInvariant, PTL DEF ServerSpec, DrainedIsReleased
===============================================================================
