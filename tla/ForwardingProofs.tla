--------------------------- MODULE ForwardingProofs ---------------------------
(***************************************************************************)
(* Proofs about the packets of the forwarding engine, for every set of     *)
(* sessions, every address plan, every deployment and every set of         *)
(* packets: they reach the session that serves their destination, scopes   *)
(* are enforced in both directions, and ICMP errors are sent for good      *)
(* reasons only.  RouteProofs has the proofs about the routes themselves.  *)
(***************************************************************************)
EXTENDS Forwarding, TLAPS

-------------------------------------------------------------------------------
(***************************************************************************)
(* Types.                                                                  *)
(***************************************************************************)
Name == {"sink", "policy", "mtu"}

\* What entries_from_client_ranges returns: prefixes of the session.
LEMMA EntriesType ==
    ASSUME NEW s, NEW ranges \in Advertisement, NEW x \in EntriesFromClientRanges(s, ranges)
    PROVE  x.session = s /\ x.prefix \in Prefix /\ x.protocol \in Protocol
<1> DEFINE Item == [lo : Addr, hi : Addr, protocol : Protocol]
<1>1. PICK y \in Offered(ranges) :
         x = [prefix |-> y[2], protocol |-> ranges[y[1]].protocol, session |-> s,
              rank |-> <<adverts, y[1], Network(y[2])>>]
  BY Zenon DEF EntriesFromClientRanges
<1>2. y[1] \in DOMAIN ranges /\ y[2] \in Prefix BY DEF Offered, Accepted
<1>3. ranges \in Seq(Item)
  <2> HIDE DEF Item
  <2>1. Advertisement \subseteq Seq(Item) BY RouteAssumption, Zenon DEF Item
  <2> QED BY <2>1
<1>4. \A S : \A t \in Seq(S) : \A j \in DOMAIN t : t[j] \in S OBVIOUS
<1>5. ranges[y[1]] \in Item BY <1>2, <1>3, <1>4, Zenon
<1> QED BY <1>1, <1>2, <1>5

\* The two orders of register_session and unregister_session.
LEMMA Orders ==
    /\ Len(Tables) = 3 /\ DOMAIN Tables = {1, 2, 3} /\ \A i \in {1, 2, 3} : Tables[i] \in Name
    /\ Len(Removal) = 3 /\ DOMAIN Removal = {1, 2, 3}
    /\ Removal[1] = "sink" /\ Removal[2] = "policy" /\ Removal[3] = "mtu"
BY DEF Tables, Removal, Name

\* The addresses of the sessions are addresses.
LEMMA HomeType == ASSUME TypeOK PROVE home \in [Session -> Addr]
<1>1. deployment \in [home : [Session -> UNION Pools], tun : BOOLEAN] BY EngineAssumption DEF TypeOK
<1>2. UNION Pools \subseteq Addr BY RouteAssumption
<1>3. home \in [Session -> UNION Pools] BY <1>1 DEF home
<1> QED BY <1>2, <1>3

\* A step through the tables keeps the counter in range.
LEMMA ThroughType ==
    ASSUME TypeOK, NEW s \in Session, NEW from, NEW to, Through(s, from, to)
    PROVE  /\ next' \in [Session -> {1, 2, 3}]
           /\ next[s] \in {1, 2, 3}
           /\ next'[s] = IF next[s] = 3 THEN 1 ELSE next[s] + 1
           /\ \A t \in Session : t # s => next'[t] = next[t]
           /\ stage[s] = from /\ stage' = [stage EXCEPT ![s] = IF next[s] = 3 THEN to ELSE from]
<1>1. next \in [Session -> {1, 2, 3}] BY Orders DEF TypeOK
<1>2. \A n \in {1, 2, 3} : (n % 3) + 1 = IF n = 3 THEN 1 ELSE n + 1 OBVIOUS
<1>3. next' = [next EXCEPT ![s] = (next[s] % 3) + 1] BY Orders DEF Through
<1>4. stage[s] = from /\ stage' = [stage EXCEPT ![s] = IF next[s] = 3 THEN to ELSE from]
  BY Orders DEF Through
<1> QED BY <1>1, <1>2, <1>3, <1>4, SMTT(30)

\* effective_mtu is capped by the configured MTU.
LEMMA MtuType ==
    ASSUME TypeOK, NEW s \in Session, SampleMtu(s)
    PROVE  mtu' \in [Session -> Nat] /\ \A t \in Session : mtu'[t] <= Mtu
<1>1. PICK n \in EffectiveMtu(s) : mtu' = [mtu EXCEPT ![s] = n] BY Zenon DEF SampleMtu
<1>2. n \in Nat /\ n <= Mtu BY EngineAssumption, SMTT(30) DEF EffectiveMtu
<1> QED BY <1>1, <1>2 DEF TypeOK

\* What a lookup in the prefix routes returns.
LEMMA RouteType ==
    ASSUME TypeOK, NEW dst, NEW proto
    PROVE  LookupRoute(dst, proto) \in Session \cup {None}
BY DEF TypeOK, LookupRoute, Matching

Stage ==
    {"new", "install", "register", "publish", "serving", "withdraw", "purge", "unregister", "forget", "done"}

\* The part of the state the handlers work on.
TablesOK ==
    /\ clientAddrs \in [Addr -> Session \cup {None}]
    /\ \A x \in routes : /\ x.prefix \in Prefix /\ x.protocol \in Protocol /\ x.session \in Session
                         /\ stage[x.session] \in {"serving", "withdraw", "purge"}
    /\ stage \in [Session -> Stage]
    /\ deployment \in Deployment
    /\ next \in [Session -> {1, 2, 3}]
    /\ registry \in [Session -> SUBSET Name]
    /\ reaper = None \/ reaper \in [session : Session, at : {1, 2, 3}]
    /\ mtu \in [Session -> Nat] /\ \A s \in Session : mtu[s] <= Mtu
    /\ snapshot \subseteq Session
    /\ \A s \in snapshot : stage[s] \in {"serving", "withdraw", "purge", "unregister", "forget"}

\* TypeOK says that the tables, the handlers, the reaper and the packet have their types.
LEMMA TypeSplit == TypeOK <=> TablesOK /\ (walk = Idle \/ walk \in Walk) /\ (out = None \/ out \in Walk)
BY Orders DEF TypeOK, TablesOK, Stage, Name

\* The same of the next state.
LEMMA TypeSplitNext == TypeOK' <=> TablesOK' /\ (walk' = Idle \/ walk' \in Walk) /\ (out' = None \/ out' \in Walk)
BY Orders DEF TypeOK, TablesOK, Stage, Name

\* The handlers and the reaper keep the types.
LEMMA HandlerType ==
    ASSUME TypeOK, NEW s \in Session, Handler(s)
    PROVE  TablesOK' /\ walk' = walk /\ out' = None
<1> USE TypeSplit, TypeSplitNext
<1>h. home \in [Session -> Addr] BY HomeType, SMTT(30), Z3T(30)
<1>1. CASE Allocate(s) BY <1>1 DEF Allocate, Move, TablesOK, Stage, table
<1>2. CASE Install(s)
  BY <1>2, <1>h, MtuType, ZenonT(60) DEF Install, Move, InsertClientAddr, TablesOK, Stage
<1>3. CASE Register(s)
  <2>1. Tables[next[s]] \in Name BY <1>3, Orders, ThroughType DEF Register
  <2>2. /\ next' \in [Session -> {1, 2, 3}]
        /\ stage[s] = "register" /\ stage' = [stage EXCEPT ![s] = IF next[s] = 3 THEN "publish" ELSE "register"]
    BY <1>3, ThroughType, SMTT(30), Z3T(30) DEF Register
  <2> QED BY <1>3, <2>1, <2>2 DEF Register, TablesOK, Stage, table
<1>4. CASE Publish(s) BY <1>4, SMTT(30), Z3T(30) DEF Publish, Move, TablesOK, Stage, table
<1>5. CASE Advertise(s)
  <2>1. \A x \in routes' : /\ x.prefix \in Prefix /\ x.protocol \in Protocol /\ x.session \in Session
                           /\ stage[x.session] \in {"serving", "withdraw", "purge"}
    BY <1>5, EntriesType, SMTT(30), Z3T(30) DEF Advertise, ReplaceSessionRoutes, TablesOK
  <2> QED BY <1>5, <2>1, SMTT(30), Z3T(30) DEF Advertise, ReplaceSessionRoutes, TablesOK, engine
<1>6. CASE RefreshMtu(s) BY <1>6, MtuType, SMTT(30), Z3T(30) DEF RefreshMtu, TablesOK, table
<1>7. CASE Release(s) BY <1>7 DEF Release, Move, TablesOK, Stage, table
<1>8. CASE Withdraw(s) BY <1>8, SMTT(30), Z3T(30) DEF Withdraw, Move, RemoveAddrs, TablesOK, Stage
<1>9. CASE Purge(s) BY <1>9, SMTT(30), Z3T(30) DEF Purge, Move, RemoveRoutes, TablesOK, Stage
<1>10. CASE Unregister(s)
  <2>2. /\ next' \in [Session -> {1, 2, 3}]
        /\ stage[s] = "unregister" /\ stage' = [stage EXCEPT ![s] = IF next[s] = 3 THEN "forget" ELSE "unregister"]
    BY <1>10, ThroughType, SMTT(30), Z3T(30) DEF Unregister
  <2> QED BY <1>10, <2>2 DEF Unregister, TablesOK, Stage, table
<1>11. CASE Forget(s) BY <1>11, SMTT(30), Z3T(30) DEF Forget, Move, TablesOK, Stage, table
<1>12. CASE Reap(s) BY <1>12 DEF Reap, TablesOK, table
<1> QED BY <1>1, <1>2, <1>3, <1>4, <1>5, <1>6, <1>7, <1>8, <1>9, <1>10, <1>11, <1>12, SMTT(30), Z3T(30) DEF Handler

\* A step of the reaper (spawn_idle_reaper) keeps the types and sends nothing.
LEMMA ReaperType ==
    ASSUME TypeOK, ReaperUnregister
    PROVE  TablesOK' /\ walk' = walk /\ out' = None
BY TypeSplit, Orders DEF ReaperUnregister, TablesOK, table

-------------------------------------------------------------------------------
(***************************************************************************)
(* The handlers: while a session serves, its address is routed to it.      *)
(***************************************************************************)
Leased == {"install", "register", "publish", "serving"}

Routed == \A s \in Session : stage[s] \in {"register", "publish", "serving"} => clientAddrs[home[s]] = s

Exclusive ==
    \A s, t \in Session :
        home[s] = home[t] /\ stage[s] \in Leased /\ stage[t] \in Leased => s = t

Rewound == \A s \in Session : stage[s] \notin {"register", "unregister"} => next[s] = 1

HandlersOK == Routed /\ Exclusive /\ Rewound

\* Nothing but the handlers touches what HandlersOK is about.
LEMMA HandlersKept ==
    ASSUME HandlersOK, UNCHANGED <<deployment, stage, clientAddrs, next>>
    PROVE  HandlersOK'
BY DEF HandlersOK, Routed, Exclusive, Rewound, home

\* The steps of the handlers and of the reaper keep what the tables say of each session.
LEMMA HandlersStep ==
    ASSUME TypeOK, HandlersOK, NEW s \in Session, Handler(s)
    PROVE  HandlersOK' /\ deployment' = deployment
<1> USE TypeSplit
<1>h. home \in [Session -> Addr] BY HomeType
<1>t. TablesOK OBVIOUS
<1>1. CASE Allocate(s)
  <2>1. deployment' = deployment /\ clientAddrs' = clientAddrs /\ next' = next
        /\ stage[s] = "new" /\ stage' = [stage EXCEPT ![s] = "install"]
    BY <1>1 DEF Allocate, Move, table
  <2>2. home' = home BY <2>1 DEF home
  <2>3. \A t \in Session : home[t] = home[s] => stage[t] \notin Leased
    BY <1>1, <1>t, SMTT(30), Z3T(30) DEF Allocate, Leasing, Leased
  <2>4. Exclusive' BY <2>1, <2>2, <2>3, <1>t, SMTT(30), Z3T(30) DEF HandlersOK, Exclusive, TablesOK, Leased
  <2>5. Routed' BY <2>1, <2>2, <1>t, SMTT(30), Z3T(30) DEF HandlersOK, Routed, TablesOK
  <2>6. Rewound' BY <2>1, <1>t DEF HandlersOK, Rewound, TablesOK
  <2> QED BY <2>1, <2>4, <2>5, <2>6 DEF HandlersOK
<1>2. CASE Install(s)
  <2>1. deployment' = deployment /\ next' = next /\ clientAddrs' = [clientAddrs EXCEPT ![home[s]] = s]
        /\ stage[s] = "install" /\ stage' = [stage EXCEPT ![s] = "register"]
    BY <1>2 DEF Install, Move, InsertClientAddr
  <2>2. home' = home BY <2>1, SMTT(30), Z3T(30) DEF home
  <2>3. Exclusive' BY <2>1, <2>2, <1>t, SMTT(30), Z3T(30) DEF HandlersOK, Exclusive, TablesOK, Leased
  <2>4. Routed' BY <2>1, <2>2, <1>t, <1>h, SMTT(30), Z3T(30) DEF HandlersOK, Routed, Exclusive, Leased, TablesOK
  <2>5. Rewound' BY <2>1, <1>t DEF HandlersOK, Rewound, TablesOK
  <2> QED BY <2>1, <2>3, <2>4, <2>5 DEF HandlersOK
<1>3. CASE Register(s)
  <2>1. deployment' = deployment /\ clientAddrs' = clientAddrs BY <1>3 DEF Register, table
  <2>2. home' = home BY <2>1 DEF home
  <2>3. /\ next' \in [Session -> {1, 2, 3}]
        /\ next'[s] = IF next[s] = 3 THEN 1 ELSE next[s] + 1
        /\ \A t \in Session : t # s => next'[t] = next[t]
        /\ stage[s] = "register" /\ stage' = [stage EXCEPT ![s] = IF next[s] = 3 THEN "publish" ELSE "register"]
    BY <1>3, ThroughType, SMTT(30), Z3T(30) DEF Register
  <2>l. \A v \in Session : stage'[v] \in Leased => stage[v] \in Leased
    BY <2>3, <1>t, SMTT(30) DEF TablesOK, Leased
  <2>4. Exclusive' BY <2>2, <2>l, ZenonT(60) DEF HandlersOK, Exclusive
  <2>5. Routed' BY <2>1, <2>2, <2>3, <1>t, SMTT(30), Z3T(30) DEF HandlersOK, Routed, TablesOK
  <2>6. Rewound' BY <2>3, <1>t, SMTT(30) DEF HandlersOK, Rewound, TablesOK
  <2> QED BY <2>1, <2>4, <2>5, <2>6, SMTT(30), Z3T(30) DEF HandlersOK
<1>7. CASE Unregister(s)
  <2>1. deployment' = deployment /\ clientAddrs' = clientAddrs BY <1>7 DEF Unregister, table
  <2>2. home' = home BY <2>1 DEF home
  <2>3. /\ next' \in [Session -> {1, 2, 3}]
        /\ next'[s] = IF next[s] = 3 THEN 1 ELSE next[s] + 1
        /\ \A t \in Session : t # s => next'[t] = next[t]
        /\ stage[s] = "unregister" /\ stage' = [stage EXCEPT ![s] = IF next[s] = 3 THEN "forget" ELSE "unregister"]
    BY <1>7, ThroughType, SMTT(30), Z3T(30) DEF Unregister
  <2>l. \A v \in Session : stage'[v] \in Leased => stage[v] \in Leased
    BY <2>3, <1>t, SMTT(30), Z3T(30) DEF TablesOK, Leased
  <2>4. Exclusive' BY <2>2, <2>l, Zenon DEF HandlersOK, Exclusive
  <2>5. Routed' BY <2>1, <2>2, <2>3, <1>t, SMTT(30), Z3T(30) DEF HandlersOK, Routed, TablesOK
  <2>6. Rewound' BY <2>3, <1>t DEF HandlersOK, Rewound, TablesOK
  <2> QED BY <2>1, <2>4, <2>5, <2>6, ZenonT(30) DEF HandlersOK
<1>4. CASE Withdraw(s)
  <2>1. deployment' = deployment /\ next' = next
        /\ clientAddrs' = [a \in Addr |-> IF clientAddrs[a] = s THEN None ELSE clientAddrs[a]]
        /\ stage[s] = "withdraw" /\ stage' = [stage EXCEPT ![s] = "purge"]
    BY <1>4 DEF Withdraw, Move, RemoveAddrs
  <2>2. home' = home BY <2>1, SMTT(30), Z3T(30) DEF home
  <2>3. Exclusive' BY <2>1, <2>2, <1>t, SMTT(30), Z3T(30) DEF HandlersOK, Exclusive, TablesOK, Leased
  <2>4. Routed' BY <2>1, <2>2, <1>t, <1>h, SMTT(30), Z3T(30) DEF HandlersOK, Routed, TablesOK
  <2>5. Rewound' BY <2>1, <1>t DEF HandlersOK, Rewound, TablesOK
  <2> QED BY <2>1, <2>3, <2>4, <2>5 DEF HandlersOK
<1>5. CASE Publish(s) \/ Release(s) \/ Purge(s) \/ Forget(s)
  <2>1. deployment' = deployment /\ clientAddrs' = clientAddrs /\ next' = next
    BY <1>5 DEF Publish, Release, Purge, Forget, RemoveRoutes, table
  <2>2. home' = home BY <2>1 DEF home
  <2>3. PICK to : /\ stage' = [stage EXCEPT ![s] = to]
                  /\ (to = "serving" /\ stage[s] = "publish") \/ to \in {"withdraw", "unregister", "done"}
                  /\ stage[s] \notin {"register", "unregister"}
    BY <1>5, SMTT(30), Z3T(30) DEF Publish, Release, Purge, Forget, Move
  <2>l. \A v \in Session : stage'[v] \in Leased => stage[v] \in Leased
    BY <2>3, <1>t, SMTT(30), Z3T(30) DEF TablesOK, Leased
  <2>4. Exclusive' BY <2>2, <2>l, Zenon DEF HandlersOK, Exclusive
  <2>5. Routed' BY <2>1, <2>2, <2>3, <1>t, SMTT(30), Z3T(30) DEF HandlersOK, Routed, TablesOK
  <2>6. Rewound' BY <2>1, <2>3, <1>t DEF HandlersOK, Rewound, TablesOK
  <2> QED BY <2>1, <2>4, <2>5, <2>6 DEF HandlersOK
<1>6. CASE Advertise(s) \/ RefreshMtu(s) \/ Reap(s)
  <2>1. UNCHANGED <<deployment, stage, clientAddrs, next>>
    BY <1>6 DEF Advertise, RefreshMtu, Reap, ReplaceSessionRoutes, table, engine
  <2> QED BY <2>1, HandlersKept, SMTT(30), Z3T(30)
<1> QED BY <1>1, <1>2, <1>3, <1>4, <1>5, <1>6, <1>7 DEF Handler

-------------------------------------------------------------------------------
(***************************************************************************)
(* The packet under way.  `live` are the sessions that served when it was  *)
(* read; all of them are past their setup, and leave the tables in order.  *)
(***************************************************************************)
Past == {"serving", "withdraw", "purge", "unregister", "forget", "done"}

Shaped ==
    /\ walk = Idle \/ walk \in Walk
    /\ walk.at \in {"policy", "error"} => walk.from \in Session
    /\ walk.at \in {"accept", "mtu", "deliver"} => walk.target \in Session
    /\ walk.at = "policy" => walk.target = None
    /\ walk.at # "tun"

\* What is true of a session that was live when the packet was read.
InOrder(v) ==
    /\ stage[v] \in Past
    /\ "policy" \notin registry[v] => "sink" \notin registry[v]
    /\ reaper # None /\ reaper.session = v /\ reaper.at > 1 => "sink" \notin registry[v]
    /\ stage[v] = "unregister" /\ next[v] > 1 => "sink" \notin registry[v]

Ordered == walk # Idle => \A v \in walk.live : InOrder(v)

\* The packet is on its way to the session that serves its destination.
Reaching ==
    walk # Idle =>
        \A v \in walk.live :
            stage[v] = "serving" /\ walk.packet.dst = home[v] =>
                /\ walk.at # "routes"
                /\ walk.at \in {"accept", "mtu", "deliver"} => walk.target = v

Scoped ==
    walk # Idle =>
        /\ walk.from # Outside => walk.packet.src = home[walk.from]
        /\ walk.from # Outside /\ walk.at \in {"lookup", "routes", "accept", "mtu", "deliver"} =>
              Allows(walk.from, walk.packet.dst, walk.packet.protocol)
        /\ walk.at \in {"mtu", "deliver"} => Allows(walk.target, walk.packet.src, walk.packet.protocol)

Sized == walk.at = "error" /\ walk.why = "too big" => walk.size < walk.packet.length

\* Why the packet was prohibited, if both scopes admit it.
Justified ==
    walk.at = "error" /\ walk.why = "prohibited" /\ walk.from \in walk.live
      /\ Allows(walk.from, walk.packet.dst, walk.packet.protocol) =>
        IF walk.target = None THEN "sink" \notin registry[walk.from]
        ELSE \/ walk.target \notin walk.live
             \/ ~Allows(walk.target, walk.packet.src, walk.packet.protocol)
             \/ "policy" \notin registry[walk.target]

Inv == TypeOK /\ HandlersOK /\ Shaped /\ Ordered /\ Reaching /\ Scoped /\ Sized /\ Justified

\* How a step of a handler or of the reaper looks to a session past its setup.
Leaving(v) ==
    /\ stage'[v] = "serving" => stage[v] = "serving"
    /\ registry'[v] \subseteq registry[v]
    /\ InOrder(v)'

\* What a step of a handler leaves alone, for a packet that is under way.
LEMMA HandlerLeaves ==
    ASSUME TypeOK, HandlersOK, NEW s \in Session, Handler(s), NEW v \in Session, InOrder(v)
    PROVE  Leaving(v)
<1> USE TypeSplit
<1>t. TablesOK BY SMTT(30)
<1>1. CASE Allocate(s) \/ Install(s) \/ Publish(s)
  <2>1. registry' = registry /\ reaper' = reaper /\ next' = next BY <1>1 DEF Allocate, Install, Publish
  <2>2. PICK to : stage' = [stage EXCEPT ![s] = to] /\ stage[s] \in {"new", "install", "publish"}
    BY <1>1, SMTT(30), Z3T(30) DEF Allocate, Install, Publish, Move
  <2> QED BY <2>1, <2>2, <1>t, Zenon DEF Leaving, InOrder, Past, TablesOK
<1>2. CASE Register(s)
  <2>1. reaper' = reaper /\ registry' = [registry EXCEPT ![s] = registry[s] \cup {Tables[next[s]]}]
    BY <1>2, Zenon DEF Register
  <2>2. /\ \A t \in Session : t # s => next'[t] = next[t]
        /\ stage[s] = "register" /\ stage' = [stage EXCEPT ![s] = IF next[s] = 3 THEN "publish" ELSE "register"]
    BY <1>2, ThroughType, SMTT(30), Z3T(30) DEF Register
  <2>3. v # s BY <2>2, SMTT(30), Z3T(30) DEF InOrder, Past
  <2> QED BY <2>1, <2>2, <2>3, <1>t, SMTT(30) DEF Leaving, InOrder, TablesOK
<1>3. CASE Advertise(s) \/ RefreshMtu(s)
  BY <1>3, SMTT(30), Z3T(30) DEF Advertise, RefreshMtu, engine, Leaving, InOrder
<1>4. CASE Release(s) \/ Withdraw(s) \/ Forget(s)
  <2>1. registry' = registry /\ reaper' = reaper /\ next' = next BY <1>4 DEF Release, Withdraw, Forget
  <2>2. PICK to : stage' = [stage EXCEPT ![s] = to] /\ to \in {"withdraw", "purge", "done"}
    BY <1>4, SMTT(30), Z3T(30) DEF Release, Withdraw, Forget, Move
  <2> QED BY <2>1, <2>2, <1>t DEF Leaving, InOrder, Past, TablesOK
<1>5. CASE Purge(s)
  <2>1. /\ registry' = registry /\ reaper' = reaper /\ next' = next
        /\ stage[s] = "purge" /\ stage' = [stage EXCEPT ![s] = "unregister"]
    BY <1>5, SMTT(30) DEF Purge, Move
  <2>2. next[s] = 1 BY <2>1, Zenon DEF HandlersOK, Rewound
  <2> QED BY <2>1, <2>2, <1>t DEF Leaving, InOrder, Past, TablesOK
<1>6. CASE Unregister(s)
  <2>1. reaper' = reaper /\ registry' = [registry EXCEPT ![s] = registry[s] \ {Removal[next[s]]}]
    BY <1>6 DEF Unregister
  <2>2. /\ next[s] \in {1, 2, 3}
        /\ next'[s] = IF next[s] = 3 THEN 1 ELSE next[s] + 1
        /\ \A t \in Session : t # s => next'[t] = next[t]
        /\ stage[s] = "unregister" /\ stage' = [stage EXCEPT ![s] = IF next[s] = 3 THEN "forget" ELSE "unregister"]
    BY <1>6, ThroughType, SMTT(30), Z3T(30) DEF Unregister
  <2>3. CASE v # s BY <2>1, <2>2, <2>3, <1>t, SMTT(30), Z3T(30) DEF Leaving, InOrder, TablesOK
  <2>4. CASE v = s
    <3>1. registry'[v] = registry[v] \ {Removal[next[s]]} BY <2>1, <2>4, <1>t, SMTT(30), Z3T(30) DEF TablesOK
    <3>2. stage'[v] = IF next[s] = 3 THEN "forget" ELSE "unregister" BY <2>2, <2>4, <1>t, SMTT(30), Z3T(30) DEF TablesOK
    <3>3. stage'[v] # "serving" /\ stage'[v] \in Past BY <3>2, SMTT(30), Z3T(30) DEF Past
    <3>4. next[s] = 1 => "sink" \notin registry'[v] BY <3>1, Orders
    <3>5. next[s] > 1 => "sink" \notin registry'[v] BY <2>2, <2>4, <3>1, SMTT(30), Z3T(30) DEF InOrder
    <3>6. "sink" \notin registry'[v] BY <2>2, <3>4, <3>5, SMTT(30), Z3T(30)
    <3> QED BY <3>1, <3>3, <3>6, SMTT(30), Z3T(30) DEF Leaving, InOrder
  <2> QED BY <2>3, <2>4, SMTT(30), Z3T(30)
<1>7. CASE Reap(s)
  <2>1. /\ registry' = registry /\ stage' = stage /\ next' = next
        /\ reaper' = [session |-> s, at |-> 1]
    BY <1>7 DEF Reap
  <2>2. ~(reaper'.at > 1) BY <2>1, SMTT(30), Z3T(30)
  <2>3. InOrder(v)' BY <2>1, <2>2 DEF InOrder
  <2> QED BY <2>1, <2>3 DEF Leaving
<1> QED BY <1>1, <1>2, <1>3, <1>4, <1>5, <1>6, <1>7 DEF Handler

\* What a step of the reaper leaves alone, for a packet that is under way.
LEMMA ReaperLeaves ==
    ASSUME TypeOK, ReaperUnregister, NEW v \in Session, InOrder(v)
    PROVE  Leaving(v)
<1> USE TypeSplit
<1>t. TablesOK OBVIOUS
<1>1. /\ reaper \in [session : Session, at : {1, 2, 3}] /\ stage' = stage /\ next' = next
      /\ registry' = [registry EXCEPT ![reaper.session] = registry[reaper.session] \ {Removal[reaper.at]}]
      /\ reaper' = IF reaper.at = 3 THEN None ELSE [reaper EXCEPT !.at = reaper.at + 1]
  BY <1>t, Orders DEF ReaperUnregister, TablesOK
<1>2. CASE v # reaper.session BY <1>1, <1>2, <1>t DEF Leaving, InOrder, TablesOK
<1>3. CASE v = reaper.session
  <2>1. reaper # None BY DEF ReaperUnregister
  <2>2. registry'[v] = registry[v] \ {Removal[reaper.at]} BY <1>1, <1>3, <1>t DEF TablesOK
  <2>3. reaper.at = 1 \/ reaper.at > 1 BY <1>1, SMTT(30), Z3T(30)
  <2>4. "sink" \notin registry'[v] BY <2>1, <2>2, <2>3, <1>3, Orders DEF InOrder
  <2> QED BY <1>1, <2>2, <2>4 DEF Leaving, InOrder
<1> QED BY <1>2, <1>3

\* Sessions that leave cannot invalidate what is known of the packet under way.
LEMMA WalkKept ==
    ASSUME Inv, walk' = walk, deployment' = deployment, \A v \in Session : InOrder(v) => Leaving(v)
    PROVE  (Shaped /\ Ordered /\ Reaching /\ Scoped /\ Sized /\ Justified)'
<1> USE DEF Inv
<1>1. home' = home BY DEF home
<1>2. walk # Idle => walk.live \subseteq Session BY DEF Shaped, Walk
<1>3. walk # Idle => \A v \in walk.live : Leaving(v) BY <1>2 DEF Ordered
<1>4. Shaped' BY DEF Shaped
<1>5. Ordered' BY <1>3 DEF Ordered, Leaving
<1>6. Reaching' BY <1>1, <1>3, SMTT(30), Z3T(30) DEF Reaching, Leaving
<1>7. Scoped' BY <1>1 DEF Scoped, Allows, Covers
<1>8. Sized' BY ZenonT(30) DEF Sized
<1>9. Justified'
  <2>1. walk.at = "error" => walk # Idle BY SMTT(30), Z3T(30) DEF Idle
  <2>2. walk # Idle => \A v \in walk.live : registry'[v] \subseteq registry[v] BY <1>3, SMTT(30) DEF Leaving
  <2>3. \A n : walk # Idle => \A v \in walk.live : n \notin registry[v] => n \notin registry'[v] BY <2>2, Zenon
  <2> HIDE DEF Inv
  <2>4. Justified BY DEF Inv
  <2> QED BY <2>1, <2>3, <2>4 DEF Justified, Allows, Covers
<1> QED BY <1>4, <1>5, <1>6, <1>7, <1>8, <1>9

\* The handlers and the reaper preserve the invariant.
LEMMA ControlStep ==
    ASSUME Inv, ReaperUnregister \/ \E s \in Session : Handler(s)
    PROVE  Inv'
<1> USE DEF Inv
<1>1. CASE ReaperUnregister
  <2>1. TypeOK' BY <1>1, ReaperType, TypeSplit, TypeSplitNext
  <2>2. UNCHANGED <<deployment, stage, clientAddrs, next>> BY <1>1 DEF ReaperUnregister, table
  <2>3. HandlersOK' BY <2>2, HandlersKept
  <2>4. \A v \in Session : InOrder(v) => Leaving(v) BY <1>1, ReaperLeaves
  <2> QED BY <1>1, <2>1, <2>2, <2>3, <2>4, ReaperType, WalkKept
<1>2. ASSUME NEW s \in Session, Handler(s) PROVE Inv'
  <2>1. TypeOK' BY <1>2, HandlerType, TypeSplit, TypeSplitNext
  <2>2. HandlersOK' /\ deployment' = deployment BY <1>2, HandlersStep
  <2>3. \A v \in Session : InOrder(v) => Leaving(v) BY <1>2, HandlerLeaves
  <2> QED BY <1>2, <2>1, <2>2, <2>3, HandlerType, WalkKept
<1> QED BY <1>1, <1>2

-------------------------------------------------------------------------------
(***************************************************************************)
(* The steps of a packet.                                                  *)
(***************************************************************************)
WalkOK == Shaped /\ Ordered /\ Reaching /\ Scoped /\ Sized /\ Justified

Still == UNCHANGED <<table, engine>>

\* They leave alone what the handlers own.
LEMMA StillKept ==
    ASSUME Inv, Still
    PROVE  TablesOK' /\ HandlersOK' /\ home' = home /\ \A v \in Session : InOrder(v) => InOrder(v)'
<1>1. TablesOK' BY TypeSplit DEF Inv, Still, table, engine, TablesOK
<1>2. HandlersOK' BY HandlersKept DEF Inv, Still, table, engine
<1>3. home' = home BY SMTT(30), Z3T(30) DEF Still, engine, home
<1>4. \A v \in Session : InOrder(v) => InOrder(v)' BY SMTT(30), Z3T(30) DEF Still, engine, InOrder
<1> QED BY <1>1, <1>2, <1>3, <1>4, SMTT(30), Z3T(30)

\* Everything holds of a packet that was dropped.
LEMMA IdleOK == ASSUME walk' = Idle PROVE WalkOK'
<1>1. walk'.at = "idle" BY DEF Idle
<1> QED BY <1>1 DEF WalkOK, Shaped, Ordered, Reaching, Scoped, Sized, Justified

\* A packet with a place in the engine is not idle.
LEMMA NotIdle == ASSUME walk \in Walk PROVE walk # Idle
<1>1. walk.at \in Label BY DEF Walk
<1>2. Idle.at = "idle" BY DEF Idle
<1> QED BY <1>1, <1>2 DEF Label

\* A packet that moves on keeps its sender, its contents and the live sessions.
LEMMA OrderedKept ==
    ASSUME Inv, Still, walk \in Walk, walk'.live = walk.live
    PROVE  Ordered'
<1>1. walk # Idle BY NotIdle
<1>2. \A v \in walk.live : v \in Session /\ InOrder(v) BY <1>1 DEF Inv, Ordered, Walk
<1> QED BY <1>2, StillKept DEF Ordered

\* A serving session is in order.
LEMMA ServingInOrder == ASSUME TypeOK, NEW v \in Serving PROVE InOrder(v)
BY SMTT(30) DEF Serving, InOrder, Past

\* A packet that was just read knows the sessions that serve at that moment.
LEMMA Begun ==
    ASSUME Inv, Still, NEW from \in Session \cup {Outside}, NEW p \in Packet, NEW label \in {"policy", "lookup"},
           from # Outside => label = "policy" /\ p.src = home[from],
           from = Outside => label = "lookup",
           walk' = Begin(label, from, p)
    PROVE  WalkOK'
<1>1. Begin(label, from, p) \in Walk BY SMTT(30), Z3T(30) DEF Begin, Walk, Label, Serving
<1>2. /\ walk'.at = label /\ walk'.from = from /\ walk'.packet = p /\ walk'.target = None
      /\ walk'.live = Serving
  BY SMTT(30), Z3T(30) DEF Begin
<1>3. Shaped' BY <1>1, <1>2, SMTT(30), Z3T(30) DEF Shaped
<1>4. Ordered'
  <2>1. \A v \in Serving : v \in Session /\ InOrder(v) BY ServingInOrder, SMTT(30), Z3T(30) DEF Inv, Serving
  <2> QED BY <1>2, <2>1, StillKept, SMTT(30), Z3T(30) DEF Ordered
<1>5. Reaching' BY <1>2, SMTT(30) DEF Reaching
<1>h. home' = home BY StillKept, ZenonT(60)
<1>6. Scoped' BY <1>2, <1>h, SMTT(30), Z3T(30) DEF Scoped
<1>7. Sized' /\ Justified' BY <1>2 DEF Sized, Justified
<1> QED BY <1>3, <1>4, <1>5, <1>6, <1>7, ZenonT(60) DEF WalkOK

\* Reading a packet of a client (forward_from_client, up to the checks).
LEMMA FromClientStep == ASSUME Inv, Still, FromClient PROVE WalkOK'
<1>1. PICK s \in snapshot, p \in Packet \cup {None} : walk' = Validate(s, p) BY DEF FromClient
<1>2. s \in Session BY DEF Inv, TypeOK
<1>3. CASE walk' = Idle BY <1>3, IdleOK
<1>4. CASE walk' # Idle
  <2>1. p \in Packet /\ p.src = home[s] BY <1>1, <1>4 DEF Validate
  <2>2. s # Outside BY <1>2, EngineAssumption, SMTT(30), Z3T(30)
  <2>3. CASE walk' = Begin("policy", s, p) BY <1>2, <2>1, <2>2, <2>3, Begun
  <2>4. CASE p.length > Mtu /\ walk' = [Begin("error", s, p) EXCEPT !.why = "too big", !.size = Mtu]
    <3>1. walk' = [at |-> "error", from |-> s, packet |-> p, target |-> None,
                   live |-> Serving, why |-> "too big", size |-> Mtu]
      BY <2>4, ZenonT(30) DEF Begin
    <3>2. walk' \in Walk BY <1>2, <2>1, <3>1, EngineAssumption, RouteAssumption, ZenonT(30) DEF Walk, Label, Serving
    <3>3. Shaped' BY <1>2, <3>1, <3>2, ZenonT(60) DEF Shaped
    <3>4. Ordered'
      <4>1. \A v \in Serving : v \in Session /\ InOrder(v) BY ServingInOrder DEF Inv, Serving
      <4> QED BY <3>1, <4>1, StillKept DEF Ordered
    <3>5. Reaching' BY <3>1, ZenonT(60) DEF Reaching
    <3>6. Scoped' BY <2>1, <3>1, StillKept DEF Scoped
    <3>7. Sized'
      <4>1. p.length \in Nat /\ Mtu \in Nat BY <2>1, EngineAssumption
      <4>2. Mtu < p.length BY <2>4, <4>1
      <4>3. walk'.size = Mtu /\ walk'.packet = p BY <3>1, ZenonT(60)
      <4> QED BY <4>2, <4>3 DEF Sized
    <3>8. Justified' BY <3>1 DEF Justified
    <3> QED BY <3>3, <3>4, <3>5, <3>6, <3>7, <3>8 DEF WalkOK
  <2> QED BY <1>1, <1>4, <2>1, <2>3, <2>4 DEF Validate
<1> QED BY <1>3, <1>4

\* Reading a packet of the TUN device (dispatch_from_network).
LEMMA FromNetworkStep == ASSUME Inv, Still, FromNetwork PROVE WalkOK'
<1>1. PICK p \in Packet : walk' = Begin("lookup", Outside, p) BY DEF FromNetwork
<1> QED BY <1>1, Begun

\* A step of a packet that is not at rest starts from a record.
LEMMA OnTheWay == ASSUME Inv, walk.at # "idle" PROVE walk \in Walk
BY DEF Inv, Shaped, Idle

\* What changes when the packet moves on, and when it fails.
LEMMA Moved ==
    ASSUME walk \in Walk, NEW label \in Label, walk' = [walk EXCEPT !.at = label]
    PROVE  /\ walk' \in Walk /\ walk'.at = label /\ walk'.from = walk.from /\ walk'.packet = walk.packet
           /\ walk'.target = walk.target /\ walk'.live = walk.live
BY DEF Walk

\* A packet that is answered with an error.
LEMMA Failed ==
    ASSUME walk \in Walk, NEW reason \in {"too big", "prohibited", "expired", "no route"}, NEW size \in Nat,
           walk' = [walk EXCEPT !.at = "error", !.why = reason, !.size = size]
    PROVE  /\ walk' \in Walk /\ walk'.at = "error" /\ walk'.from = walk.from /\ walk'.packet = walk.packet
           /\ walk'.target = walk.target /\ walk'.live = walk.live /\ walk'.why = reason /\ walk'.size = size
BY Zenon DEF Walk, Label

\* A packet fails with a reason that is justified.
LEMMA FailedOK ==
    ASSUME Inv, Still, walk \in Walk, walk.from \in Session,
           NEW reason \in {"too big", "prohibited", "expired", "no route"}, NEW size \in Nat,
           walk' = [walk EXCEPT !.at = "error", !.why = reason, !.size = size],
           reason = "too big" => size < walk.packet.length,
           reason = "prohibited" /\ walk.from \in walk.live
             /\ Allows(walk.from, walk.packet.dst, walk.packet.protocol) =>
               IF walk.target = None THEN "sink" \notin registry[walk.from]
               ELSE \/ walk.target \notin walk.live
                    \/ ~Allows(walk.target, walk.packet.src, walk.packet.protocol)
                    \/ "policy" \notin registry[walk.target]
    PROVE  WalkOK'
<1>1. /\ walk' \in Walk /\ walk'.at = "error" /\ walk'.from = walk.from /\ walk'.packet = walk.packet
      /\ walk'.target = walk.target /\ walk'.live = walk.live /\ walk'.why = reason /\ walk'.size = size
  BY Failed, Zenon
<1>2. walk # Idle BY NotIdle
<1>3. Shaped' BY <1>1 DEF Shaped
<1>4. Ordered' BY <1>1, OrderedKept
<1>5. Reaching' BY <1>1 DEF Reaching
<1>6. Scoped' BY <1>1, <1>2, StillKept DEF Inv, Scoped
<1>7. Sized' BY <1>1 DEF Sized
<1>8. Justified' BY <1>1 DEF Justified, Still, engine, Allows, Covers
<1> QED BY <1>3, <1>4, <1>5, <1>6, <1>7, <1>8 DEF WalkOK

\* The sender's own routes (forward_validated).
LEMMA PolicyStep == ASSUME Inv, Still, Policy PROVE WalkOK'
<1>1. walk.at = "policy" BY DEF Policy, At
<1>2. walk \in Walk /\ walk # Idle /\ walk.from \in Session /\ walk.target = None
  BY <1>1, OnTheWay, NotIdle DEF Inv, Shaped
<1>3. walk.from # Outside BY <1>2, EngineAssumption, SMTT(30)
<1>4. CASE ~("policy" \in registry[walk.from] /\ Allows(walk.from, walk.packet.dst, walk.packet.protocol))
  <2>1. walk' = [walk EXCEPT !.at = "error", !.why = "prohibited", !.size = 0]
    BY <1>1, <1>4 DEF Policy, Fail
  <2>2. walk.from \in walk.live /\ "policy" \notin registry[walk.from] => "sink" \notin registry[walk.from]
    BY <1>2, SMTT(30) DEF Inv, Ordered, InOrder
  <2> QED BY <1>2, <1>4, <2>1, <2>2, FailedOK, Zenon
<1>5. CASE /\ Allows(walk.from, walk.packet.dst, walk.packet.protocol)
           /\ walk' = [walk EXCEPT !.at = "error", !.why = "expired", !.size = 0]
  BY <1>2, <1>5, FailedOK, Zenon
<1>6. CASE /\ Allows(walk.from, walk.packet.dst, walk.packet.protocol)
           /\ walk' = [walk EXCEPT !.at = "lookup"]
  <2>1. /\ walk' \in Walk /\ walk'.at = "lookup" /\ walk'.from = walk.from /\ walk'.packet = walk.packet
        /\ walk'.target = walk.target /\ walk'.live = walk.live
    BY <1>2, <1>6, Moved, SMTT(30), Z3T(30) DEF Label
  <2>2. Shaped' BY <2>1 DEF Shaped
  <2>3. Ordered' BY <1>2, <2>1, OrderedKept
  <2>4. Reaching' BY <2>1 DEF Reaching
  <2>5. Scoped' BY <1>2, <1>6, <2>1, StillKept, SMTT(30), Z3T(30) DEF Inv, Scoped, Allows, Covers
  <2>6. Sized' /\ Justified' BY <2>1 DEF Sized, Justified
  <2> QED BY <2>2, <2>3, <2>4, <2>5, <2>6 DEF WalkOK
<1> QED BY <1>4, <1>5, <1>6 DEF Policy, Fail, Proceed

\* A session is found, by its address or by a route.
LEMMA FoundOK ==
    ASSUME Inv, Still, walk \in Walk, walk.at \in {"lookup", "routes"}, NEW s \in Session,
           walk' = [walk EXCEPT !.at = "accept", !.target = s],
           \A v \in walk.live : stage[v] = "serving" /\ walk.packet.dst = home[v] => s = v
    PROVE  WalkOK'
<1>1. /\ walk' \in Walk /\ walk'.at = "accept" /\ walk'.from = walk.from /\ walk'.packet = walk.packet
      /\ walk'.target = s /\ walk'.live = walk.live
  BY DEF Walk, Label
<1>2. walk # Idle BY NotIdle
<1>3. Shaped' BY <1>1 DEF Shaped
<1>4. Ordered' BY <1>1, OrderedKept
<1>5. Reaching' BY <1>1, StillKept DEF Reaching, Still, engine
<1>6. Scoped' BY <1>1, <1>2, StillKept DEF Inv, Scoped, Allows, Covers
<1>7. Sized' /\ Justified' BY <1>1 DEF Sized, Justified
<1> QED BY <1>3, <1>4, <1>5, <1>6, <1>7 DEF WalkOK

\* The exact addresses (lookup).
LEMMA LookupStep == ASSUME Inv, Still, Lookup PROVE WalkOK'
<1>1. walk.at = "lookup" BY DEF Lookup, At
<1>2. walk \in Walk /\ walk # Idle BY <1>1, OnTheWay, NotIdle, SMTT(30), Z3T(30)
<1>3. walk.packet.dst \in Addr BY <1>2, EngineAssumption DEF Walk
<1>4. clientAddrs[walk.packet.dst] \in Session \cup {None}
  <2>1. \A a \in Addr : clientAddrs[a] \in Session \cup {None} BY DEF Inv, TypeOK
  <2> QED BY <1>3, <2>1, ZenonT(60)
<1>5. \A v \in walk.live : stage[v] = "serving" /\ walk.packet.dst = home[v] => clientAddrs[walk.packet.dst] = v
  BY <1>2, Zenon DEF Inv, HandlersOK, Routed, Walk
<1>6. CASE clientAddrs[walk.packet.dst] # None
  <2>1. walk' = [walk EXCEPT !.at = "accept", !.target = clientAddrs[walk.packet.dst]]
    BY <1>6 DEF Lookup, Found
  <2> QED BY <1>1, <1>2, <1>4, <1>5, <1>6, <2>1, FoundOK, Zenon
<1>7. CASE clientAddrs[walk.packet.dst] = None
  <2>1. walk' = [walk EXCEPT !.at = "routes"] BY <1>7 DEF Lookup, Proceed
  <2>2. /\ walk' \in Walk /\ walk'.at = "routes" /\ walk'.from = walk.from /\ walk'.packet = walk.packet
        /\ walk'.target = walk.target /\ walk'.live = walk.live
    BY <1>2, <2>1, Moved, SMTT(30), Z3T(30) DEF Label
  <2>3. \A v \in walk.live : ~(stage[v] = "serving" /\ walk.packet.dst = home[v])
    <3>1. walk.live \subseteq Session BY <1>2 DEF Walk
    <3> QED BY <3>1, <1>5, <1>7, RouteAssumption
  <2>4. Shaped' BY <2>2 DEF Shaped
  <2>5. Ordered' BY <1>2, <2>2, OrderedKept, SMTT(30), Z3T(30)
  <2>6. Reaching' BY <2>2, <2>3, StillKept, SMTT(30), Z3T(30) DEF Reaching, Still, engine
  <2>7. Scoped' BY <1>1, <1>2, <2>2, StillKept, SMTT(30), Z3T(30) DEF Inv, Scoped, Allows, Covers
  <2>8. Sized' /\ Justified' BY <2>2 DEF Sized, Justified
  <2> QED BY <2>4, <2>5, <2>6, <2>7, <2>8 DEF WalkOK
<1> QED BY <1>6, <1>7

\* The advertised prefixes, and the TUN device when there is none (lookup, forward_validated).
LEMMA RoutesWalk == ASSUME Inv, Still, Routes PROVE WalkOK'
<1>1. walk.at = "routes" BY DEF Routes, At
<1>2. walk \in Walk /\ walk # Idle BY <1>1, OnTheWay, NotIdle
<1> DEFINE s == LookupRoute(walk.packet.dst, walk.packet.protocol)
<1>3. s \in Session \cup {None} BY RouteType DEF Inv
<1> HIDE DEF s
<1>4. \A v \in walk.live : ~(stage[v] = "serving" /\ walk.packet.dst = home[v])
  BY <1>1, <1>2, SMTT(30) DEF Inv, Reaching
<1>5. CASE s # None /\ walk' = [walk EXCEPT !.at = "accept", !.target = s]
  BY <1>1, <1>2, <1>3, <1>4, <1>5, FoundOK, Zenon
<1>6. CASE walk' = Idle BY <1>6, IdleOK, SMTT(30)
<1>7. CASE walk.from # Outside /\ walk' = [walk EXCEPT !.at = "error", !.why = "no route", !.size = 0]
  <2>1. walk.from \in Session BY <1>2, <1>7 DEF Walk
  <2> QED BY <1>2, <1>7, <2>1, FailedOK, Zenon
<1> QED BY <1>5, <1>6, <1>7 DEF Routes, Found, Drop, Fail, s

\* The scope of the receiver (session_accepts).
LEMMA AcceptStep == ASSUME Inv, Still, Accept PROVE WalkOK'
<1>1. walk.at = "accept" BY DEF Accept, At
<1>2. walk \in Walk /\ walk # Idle /\ walk.target \in Session BY <1>1, OnTheWay, NotIdle DEF Inv, Shaped
<1>3. walk.target # None BY <1>2, RouteAssumption
<1>4. CASE "policy" \in registry[walk.target] /\ Allows(walk.target, walk.packet.src, walk.packet.protocol)
  <2>1. walk' = [walk EXCEPT !.at = "mtu"] BY <1>4 DEF Accept, Proceed
  <2>2. /\ walk' \in Walk /\ walk'.at = "mtu" /\ walk'.from = walk.from /\ walk'.packet = walk.packet
        /\ walk'.target = walk.target /\ walk'.live = walk.live
    BY <1>2, <2>1, Moved DEF Label
  <2>3. Shaped' BY <1>2, <2>2 DEF Shaped
  <2>4. Ordered' BY <1>2, <2>2, OrderedKept, SMTT(30), Z3T(30)
  <2>5. Reaching' BY <1>1, <1>2, <2>2, StillKept, SMTT(30), Z3T(30) DEF Inv, Reaching, Still, engine
  <2>6. Scoped' BY <1>1, <1>2, <1>4, <2>2, StillKept, ZenonT(60) DEF Inv, Scoped, Allows, Covers
  <2>7. Sized' /\ Justified' BY <2>2, SMTT(30) DEF Sized, Justified
  <2> QED BY <2>3, <2>4, <2>5, <2>6, <2>7 DEF WalkOK
<1>5. CASE walk' = Idle BY <1>5, IdleOK, Zenon
<1>6. CASE /\ ~("policy" \in registry[walk.target] /\ Allows(walk.target, walk.packet.src, walk.packet.protocol))
           /\ walk.from # Outside /\ walk' = [walk EXCEPT !.at = "error", !.why = "prohibited", !.size = 0]
  <2>1. walk.from \in Session BY <1>2, <1>6 DEF Walk
  <2> QED BY <1>2, <1>3, <1>6, <2>1, FailedOK, Zenon
<1> QED BY <1>4, <1>5, <1>6, SMTT(30), Z3T(30) DEF Accept, Drop, Fail

\* The size limit of the receiver (deliver_to_session, session_mtu).
LEMMA PeerMtuStep == ASSUME Inv, Still, PeerMtu PROVE WalkOK'
<1>1. walk.at = "mtu" BY DEF PeerMtu, At
<1>2. walk \in Walk /\ walk # Idle /\ walk.target \in Session BY <1>1, OnTheWay, NotIdle, SMTT(30) DEF Inv, Shaped
<1>3. walk.packet.length \in Nat BY <1>2, EngineAssumption, ZenonT(30) DEF Walk
<1> DEFINE n == SessionMtu(walk.target)
<1>4. n \in Nat BY <1>2, EngineAssumption DEF Inv, TypeOK, SessionMtu
<1> HIDE DEF n
<1>5. CASE walk' = [walk EXCEPT !.at = "deliver"]
  <2>1. /\ walk' \in Walk /\ walk'.at = "deliver" /\ walk'.from = walk.from /\ walk'.packet = walk.packet
        /\ walk'.target = walk.target /\ walk'.live = walk.live
    BY <1>2, <1>5, Moved DEF Label
  <2>2. Shaped' BY <1>2, <2>1 DEF Shaped
  <2>3. Ordered' BY <1>2, <2>1, OrderedKept, SMTT(30), Z3T(30)
  <2>4. Reaching' BY <1>1, <1>2, <2>1, StillKept, SMTT(30) DEF Inv, Reaching, Still, engine
  <2>5. Scoped' BY <1>1, <1>2, <2>1, StillKept, ZenonT(60) DEF Inv, Scoped, Allows, Covers
  <2>6. Sized' /\ Justified' BY <2>1, SMTT(30) DEF Sized, Justified
  <2> QED BY <2>2, <2>3, <2>4, <2>5, <2>6 DEF WalkOK
<1>6. CASE walk' = Idle BY <1>6, IdleOK, Zenon
<1>7. CASE /\ ~(walk.packet.length <= n) /\ walk.from # Outside
           /\ walk' = [walk EXCEPT !.at = "error", !.why = "too big", !.size = n]
  <2>1. walk.from \in Session BY <1>2, <1>7 DEF Walk
  <2>2. n < walk.packet.length BY <1>3, <1>4, <1>7
  <2> QED BY <1>2, <1>4, <1>7, <2>1, <2>2, FailedOK, Zenon
<1> QED BY <1>5, <1>6, <1>7 DEF PeerMtu, Drop, Fail, Proceed, n

\* Every step of a packet preserves what is known of it.
LEMMA DataStep == ASSUME Inv, Data PROVE Inv'
<1> USE DEF Inv
<1>1. Still BY DEF Data, Still
<1>2. WalkOK'
  <2>1. CASE Deliver \/ SendError
    <3>1. walk' = Idle BY <2>1 DEF Deliver, SendError, Drop
    <3> QED BY <3>1, IdleOK, SMTT(30), Z3T(30)
  <2> QED BY <1>1, <2>1, FromClientStep, FromNetworkStep, PolicyStep, LookupStep, RoutesWalk,
             AcceptStep, PeerMtuStep DEF Data
<1>3. out' = None \/ out' \in Walk
  <2>1. CASE Routes
    <3>1. walk \in Walk BY <2>1, OnTheWay DEF Routes, At
    <3>2. [walk EXCEPT !.at = "tun"] \in Walk BY <3>1 DEF Walk, Label
    <3> QED BY <2>1, <3>2 DEF Routes, Found, Drop, Fail
  <2>2. CASE Deliver \/ SendError
    <3>1. walk \in Walk BY <2>2, OnTheWay, SMTT(30), Z3T(30) DEF Deliver, SendError, At
    <3> QED BY <2>2, <3>1 DEF Deliver, SendError, Drop
  <2> QED BY <2>1, <2>2 DEF Data, FromClient, FromNetwork, Policy, Lookup, Accept, PeerMtu,
             Found, Drop, Fail, Proceed
<1>4. TypeOK' BY <1>1, <1>2, <1>3, StillKept, TypeSplitNext DEF WalkOK, Shaped
<1> QED BY <1>1, <1>2, <1>4, StillKept DEF WalkOK

\* The invariant holds initially, and every step preserves it.
THEOREM Invariance == Spec => []Inv
<1>1. Init => Inv
  <2> SUFFICES ASSUME Init PROVE Inv BY SMTT(30), Z3T(30)
  <2>1. TypeOK
    <3>1. 1 \in DOMAIN Tables BY Orders, SMTT(30), Z3T(30)
    <3> QED BY <3>1, EngineAssumption, RouteAssumption DEF Init, TableInit, TypeOK
  <2>2. HandlersOK BY DEF Init, HandlersOK, Routed, Exclusive, Rewound, Leased
  <2>3. walk = Idle /\ walk.at = "idle" BY DEF Init, Idle
  <2> QED BY <2>1, <2>2, <2>3, SMTT(30) DEF Inv, Shaped, Ordered, Reaching, Scoped, Sized, Justified
<1>2. Inv /\ [Next]_vars => Inv'
  <2> SUFFICES ASSUME Inv, [Next]_vars PROVE Inv' OBVIOUS
  <2>1. CASE UNCHANGED vars
    <3>1. Still /\ walk' = walk /\ out' = out BY <2>1 DEF vars, Still
    <3>2. TypeOK' BY <3>1, StillKept, TypeSplit, TypeSplitNext DEF Inv
    <3>3. deployment' = deployment BY <3>1, ZenonT(60) DEF Still, engine
    <3>4. \A v \in Session : InOrder(v) => Leaving(v) BY <3>1, StillKept DEF Leaving, Still, engine
    <3> QED BY <3>1, <3>2, <3>3, <3>4, StillKept, WalkKept DEF Inv
  <2> QED BY <2>1, DataStep, ControlStep, SMTT(30) DEF Next
<1> QED BY <1>1, <1>2, PTL DEF Spec

-------------------------------------------------------------------------------
(***************************************************************************)
(* What is sent.                                                           *)
(***************************************************************************)
Delivers == walk.at = "deliver" /\ out' = walk
Reports == walk.at = "error" /\ out' = walk /\ ~walk.packet.error /\ "sink" \in registry[walk.from]
Emits == walk.at = "routes" /\ walk.from # Outside /\ out' = [walk EXCEPT !.at = "tun"]

\* Packets and errors are sent by three steps only.
LEMMA Sends ==
    ASSUME Inv, Next, out' # None
    PROVE  Still /\ walk \in Walk /\ walk # Idle /\ (Delivers \/ Reports \/ Emits)
<1>1. ~ReaperUnregister /\ ~\E s \in Session : Handler(s)
  BY HandlerType, ReaperType DEF Inv
<1>2. Data /\ Still BY <1>1 DEF Next, Data, Still
<1>3. Delivers \/ Reports \/ Emits
  BY <1>2 DEF Data, FromClient, FromNetwork, Policy, Lookup, Routes, Accept, PeerMtu, Deliver, SendError,
         Found, Drop, Fail, Proceed, At, Delivers, Reports, Emits
<1>4. walk.at # "idle" BY <1>3 DEF Delivers, Reports, Emits
<1> QED BY <1>2, <1>3, <1>4, OnTheWay, NotIdle

\* The record of what left by the TUN device.
LEMMA Emitted ==
    ASSUME walk \in Walk, Emits
    PROVE  /\ out'.at = "tun" /\ out'.from = walk.from /\ out'.packet = walk.packet
           /\ out'.live = walk.live /\ out'.target = walk.target
BY DEF Emits, Walk

\* Serving does not change with a step of a packet.
LEMMA ServingKept == ASSUME Still PROVE Serving' = Serving
BY DEF Still, engine, Serving

\* A step sends a packet for a serving session to that session only.
LEMMA ReceivesStep == ASSUME Inv, Next PROVE ServingReceives'
<1> SUFFICES ASSUME out' # None, out'.at # "error", NEW v \in Serving', v \in out'.live, out'.packet.dst = home'[v]
             PROVE  out'.at = "deliver" /\ out'.target = v
  BY DEF ServingReceives, Sent
<1>1. Still /\ walk \in Walk /\ walk # Idle /\ (Delivers \/ Reports \/ Emits) BY Sends
<1>2. home' = home /\ v \in Serving BY <1>1, StillKept, ServingKept, SMTT(30), Z3T(30)
<1>3. stage[v] = "serving" BY <1>2 DEF Serving
<1>4. CASE Emits
  <2>1. v \in walk.live /\ walk.packet.dst = home[v] BY <1>1, <1>2, <1>4, Emitted, SMTT(30), Z3T(30)
  <2> QED BY <1>1, <1>3, <1>4, <2>1, SMTT(30), Z3T(30) DEF Inv, Reaching, Emits
<1>5. CASE Delivers BY <1>1, <1>2, <1>3, <1>5, SMTT(30), Z3T(30) DEF Inv, Reaching, Delivers
<1>6. CASE Reports BY <1>6, SMTT(30), Z3T(30) DEF Reports
<1> QED BY <1>1, <1>4, <1>5, <1>6, SMTT(30), Z3T(30)

\* A step sends nothing across the scope of a session.
LEMMA ScopeStep == ASSUME Inv, Next PROVE DeliveredInScope'
<1> SUFFICES ASSUME out' # None, out'.at \in {"deliver", "tun"}
             PROVE  /\ out'.at = "deliver" => Allows(out'.target, out'.packet.src, out'.packet.protocol)
                    /\ out'.from # Outside => /\ Allows(out'.from, out'.packet.dst, out'.packet.protocol)
                                              /\ out'.packet.src = home'[out'.from]
  BY Zenon DEF DeliveredInScope, Sent, Allows, Covers
<1>1. Still /\ walk \in Walk /\ walk # Idle /\ (Delivers \/ Reports \/ Emits) BY Sends
<1>2. home' = home BY <1>1, StillKept
<1>3. CASE Emits BY <1>1, <1>2, <1>3, Emitted, SMTT(30), Z3T(30) DEF Inv, Scoped, Emits
<1>4. CASE Delivers BY <1>1, <1>2, <1>4, SMTT(30), Z3T(30) DEF Inv, Scoped, Delivers
<1>5. CASE Reports BY <1>5 DEF Reports
<1> QED BY <1>1, <1>3, <1>4, <1>5, SMTT(30), Z3T(30)

\* A step reports errors for good reasons only.
LEMMA ErrorStep == ASSUME Inv, Next PROVE NoFalseProhibition' /\ ErrorsTrusted' /\ TooBigHelps'
<1>1. CASE out' = None BY <1>1, SMTT(30), Z3T(30) DEF NoFalseProhibition, ErrorsTrusted, TooBigHelps, Sent
<1>2. CASE out' # None /\ out'.at # "error" BY <1>2 DEF NoFalseProhibition, ErrorsTrusted, TooBigHelps, Sent
<1>3. CASE out' # None /\ out'.at = "error"
  <2>1. Still /\ walk \in Walk /\ walk # Idle /\ (Delivers \/ Reports \/ Emits) BY <1>3, Sends
  <2>2. Reports BY <1>3, <2>1, Emitted DEF Delivers
  <2>3. home' = home /\ Serving' = Serving BY <2>1, StillKept, ServingKept
  <2>4. walk.at = "error" /\ out' = walk /\ ~walk.packet.error /\ "sink" \in registry[walk.from]
    BY <2>2, SMTT(30), Z3T(30) DEF Reports
  <2>5. walk.from \in Session /\ walk.from # Outside BY <2>4, EngineAssumption, SMTT(30), Z3T(30) DEF Inv, Shaped
  <2>6. ErrorsTrusted' BY <2>1, <2>3, <2>4, <2>5 DEF Inv, Scoped, ErrorsTrusted
  <2>7. TooBigHelps' BY <2>4, ZenonT(60) DEF Inv, Sized, TooBigHelps
  <2>8. NoFalseProhibition'
    <3>1. \A t \in Serving : "policy" \in registry[t] BY DEF Serving
    <3> QED BY <2>3, <2>4, <3>1 DEF Inv, Justified, NoFalseProhibition, Allows, Covers
  <2> QED BY <2>6, <2>7, <2>8
<1> QED BY <1>1, <1>2, <1>3

-------------------------------------------------------------------------------
(***************************************************************************)
(* The properties, for every number of sessions, packets and prefixes.     *)
(***************************************************************************)
\* The tables of the engine, the handlers and the packets keep their types.
THEOREM TypeCorrect == Spec => []TypeOK
BY Invariance, PTL DEF Inv

\* Nothing is sent at first, and a step that leaves everything as it is leaves what was sent.
LEMMA Stuttering ==
    /\ Init => ServingReceives /\ DeliveredInScope /\ NoFalseProhibition /\ ErrorsTrusted /\ TooBigHelps
    /\ UNCHANGED vars => /\ ServingReceives => ServingReceives'
                         /\ DeliveredInScope => DeliveredInScope'
                         /\ NoFalseProhibition => NoFalseProhibition'
                         /\ ErrorsTrusted => ErrorsTrusted'
                         /\ TooBigHelps => TooBigHelps'
<1>1. Init => ServingReceives /\ DeliveredInScope /\ NoFalseProhibition /\ ErrorsTrusted /\ TooBigHelps
  BY SMTT(30) DEF Init, ServingReceives, DeliveredInScope, NoFalseProhibition, ErrorsTrusted, TooBigHelps, Sent
<1>2. ASSUME UNCHANGED vars
      PROVE  /\ ServingReceives => ServingReceives'
             /\ DeliveredInScope => DeliveredInScope'
             /\ NoFalseProhibition => NoFalseProhibition'
             /\ ErrorsTrusted => ErrorsTrusted'
             /\ TooBigHelps => TooBigHelps'
  <2>1. Still /\ out' = out BY <1>2 DEF vars, Still
  <2>2. home' = home /\ Serving' = Serving BY <2>1, ServingKept DEF Still, engine, home
  <2> QED BY <2>1, <2>2, Zenon DEF ServingReceives, DeliveredInScope, NoFalseProhibition, ErrorsTrusted, TooBigHelps,
             Sent, Allows, Covers
<1> QED BY <1>1, <1>2, SMTT(30), Z3T(30)

\* A packet for a session that serves throughout reaches that session
\* (route_table.lookup while remove_session and insert_client_addr run).
THEOREM AlwaysReceives == Spec => []ServingReceives
<1>1. Inv /\ ServingReceives /\ [Next]_vars => ServingReceives' BY ReceivesStep, Stuttering
<1> QED BY <1>1, Stuttering, Invariance, PTL DEF Spec

\* Nothing crosses the scope of a session in either direction (forward_validated).
THEOREM AlwaysInScope == Spec => []DeliveredInScope
<1>1. Inv /\ DeliveredInScope /\ [Next]_vars => DeliveredInScope' BY ScopeStep, Stuttering
<1> QED BY <1>1, Stuttering, Invariance, PTL DEF Spec

\* No client is told that its own destination is prohibited while it is being torn
\* down (unregister_session).
THEOREM NeverFalselyProhibited == Spec => []NoFalseProhibition
<1>1. Inv /\ NoFalseProhibition /\ [Next]_vars => NoFalseProhibition' BY ErrorStep, Stuttering
<1> QED BY <1>1, Stuttering, Invariance, PTL DEF Spec

\* Errors are about packets of their receiver (forward_validated, build_icmp_error).
THEOREM AlwaysTrusted == Spec => []ErrorsTrusted
<1>1. Inv /\ ErrorsTrusted /\ [Next]_vars => ErrorsTrusted' BY ErrorStep, Stuttering
<1> QED BY <1>1, Stuttering, Invariance, PTL DEF Spec

\* The size a PacketTooBig reports is less than that of the packet (forward_validated).
THEOREM AlwaysHelps == Spec => []TooBigHelps
<1>1. Inv /\ TooBigHelps /\ [Next]_vars => TooBigHelps' BY ErrorStep, Stuttering
<1> QED BY <1>1, Stuttering, Invariance, PTL DEF Spec
================================================================================
