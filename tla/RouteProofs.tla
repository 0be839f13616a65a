------------------------------ MODULE RouteProofs ------------------------------
(***************************************************************************)
(* Proofs about what the forwarding engine grants a client beyond its own  *)
(* addresses, for every address plan, every pool and every sequence of     *)
(* advertisements: the routes of a session stay clear of the pools and are *)
(* those of its last advertisement.  And about the rate at which it may    *)
(* send: for all rates, packet sizes and timings, the limiter admits no    *)
(* more than a burst and what the time earns.  The two share no state;     *)
(* each has its own specification.                                         *)
(***************************************************************************)
EXTENDS Forwarding, RateLimiter, FiniteSetTheorems, TLAPS

-------------------------------------------------------------------------------
(***************************************************************************)
(* Client routes.                                                          *)
(***************************************************************************)

\* The network address of a prefix belongs to it.
LEMMA NetworkInside == ASSUME NEW p \in Prefix PROVE Network(p) \in p
BY RouteAssumption, Zenon DEF Network

\* Comparing network addresses decides whether two prefixes intersect (overlaps).
LEMMA OverlapsDecides ==
    ASSUME NEW p \in Prefix, NEW d \in Pools, ~Overlaps(d, p)
    PROVE  p \cap d = {}
<1>1. d \in Prefix BY RouteAssumption
<1>2. Network(p) \in p /\ Network(d) \in d BY <1>1, NetworkInside
<1>3. ~(p \subseteq d) /\ ~(d \subseteq p) BY <1>2 DEF Overlaps
<1> QED BY <1>1, <1>3, RouteAssumption

\* What a client may advertise: ranges of addresses, finitely many.
LEMMA RangesType ==
    ASSUME NEW ranges \in Advertisement \cup {<<>>}
    PROVE  /\ DOMAIN ranges \subseteq Nat /\ IsFiniteSet(DOMAIN ranges)
           /\ \A i \in DOMAIN ranges : ranges[i].protocol \in Protocol /\ ranges[i].lo .. ranges[i].hi \subseteq Addr
<1> DEFINE Item == [lo : Addr, hi : Addr, protocol : Protocol]
<1>1. ranges \in Seq(Item)
  <2>1. CASE ranges \in Advertisement
    <3> HIDE DEF Item
    <3>1. Advertisement \subseteq Seq(Item) BY RouteAssumption, Zenon DEF Item
    <3> QED BY <2>1, <3>1
  <2>2. CASE ranges = <<>> BY <2>2
  <2> QED BY <2>1, <2>2
<1>2. DOMAIN ranges = 1 .. Len(ranges) /\ Len(ranges) \in Nat BY <1>1
<1>3. IsFiniteSet(DOMAIN ranges) BY <1>2, FS_Interval
<1>4. ASSUME NEW i \in DOMAIN ranges
      PROVE  ranges[i].protocol \in Protocol /\ ranges[i].lo .. ranges[i].hi \subseteq Addr
  <2>1. ranges \in Advertisement BY <1>2, <1>4
  <2>2. \A S : \A t \in Seq(S) : \A j \in DOMAIN t : t[j] \in S OBVIOUS
  <2>3. ranges[i] \in Item BY <1>1, <2>2, ZenonT(60)
  <2> QED BY <2>1, <2>3, RouteAssumption
<1> QED BY <1>2, <1>3, <1>4

\* What entries_from_client_ranges returns: routes of the session, outside the pools.
LEMMA EntriesOutside ==
    ASSUME NEW s, NEW ranges \in Advertisement, NEW x \in EntriesFromClientRanges(s, ranges)
    PROVE  /\ x.session = s /\ x.prefix \in Prefix /\ x.protocol \in Protocol
           /\ \A d \in Pools : x.prefix \cap d = {}
<1>1. PICK y \in Offered(ranges) :
         x = [prefix |-> y[2], protocol |-> ranges[y[1]].protocol, session |-> s,
              rank |-> <<adverts, y[1], Network(y[2])>>]
  BY Zenon DEF EntriesFromClientRanges
<1>2. y[1] \in Accepted(ranges) /\ y[2] \in Prefix /\ y[2] \in Subnets(ranges[y[1]])
  BY DEF Offered
<1>3. \A d \in Pools : ~Overlaps(d, y[2]) BY <1>2 DEF Accepted
<1>4. \A d \in Pools : y[2] \cap d = {} BY <1>2, <1>3, OverlapsDecides
<1>5. ranges[y[1]].protocol \in Protocol BY <1>2, RangesType DEF Accepted
<1> QED BY <1>1, <1>2, <1>4, <1>5

\* Only an advertisement adds routes, and it adds those entries.
LEMMA RoutesStep ==
    ASSUME [Next]_vars, NEW x \in routes'
    PROVE  \/ x \in routes
           \/ \E s \in Session, ranges \in Advertisement :
                 stage[s] = "serving" /\ x \in EntriesFromClientRanges(s, ranges)
<1>1. CASE UNCHANGED vars BY <1>1 DEF vars, table
<1>2. CASE Data BY <1>2 DEF Data, table
<1>3. CASE ReaperUnregister BY <1>3 DEF ReaperUnregister, table
<1>4. ASSUME NEW s \in Session, Handler(s)
      PROVE  \/ x \in routes
             \/ \E ranges \in Advertisement : stage[s] = "serving" /\ x \in EntriesFromClientRanges(s, ranges)
  <2>1. CASE Advertise(s) BY <2>1 DEF Advertise, ReplaceSessionRoutes
  <2>2. CASE Purge(s) BY <2>2 DEF Purge, RemoveRoutes
  <2>3. CASE Install(s) BY <2>3 DEF Install, InsertClientAddr
  <2>4. CASE Withdraw(s) BY <2>4, SMTT(30), Z3T(30) DEF Withdraw, RemoveAddrs
  <2>5. CASE Allocate(s) \/ Register(s) \/ Publish(s) \/ RefreshMtu(s) \/ Release(s)
             \/ Unregister(s) \/ Forget(s) \/ Reap(s)
    BY <2>5 DEF Allocate, Register, Publish, RefreshMtu, Release, Unregister, Forget, Reap, table
  <2> QED BY <1>4, <2>1, <2>2, <2>3, <2>4, <2>5, SMTT(30), Z3T(30) DEF Handler
<1> QED BY <1>1, <1>2, <1>3, <1>4 DEF Next

\* No sequence of advertisements makes a route that covers an address of a pool
\* (entries_from_client_ranges), whatever the prefixes and the pools are.
THEOREM NeverHijacked == Spec => []PoolNotHijacked
<1>1. Init => PoolNotHijacked BY DEF Init, TableInit, PoolNotHijacked
<1>2. PoolNotHijacked /\ [Next]_vars => PoolNotHijacked'
  <2> SUFFICES ASSUME PoolNotHijacked, [Next]_vars, NEW x \in routes', NEW d \in Pools
               PROVE  x.prefix \cap d = {}
    BY DEF PoolNotHijacked
  <2> QED BY RoutesStep, EntriesOutside DEF PoolNotHijacked
<1> QED BY <1>1, <1>2, PTL DEF Spec

-------------------------------------------------------------------------------
(***************************************************************************)
(* The routes of a session are those of its last advertisement.            *)
(***************************************************************************)

\* The prefixes of a range (ipnet's subnets) make it up, each address in one of them.
LEMMA SubnetsCover ==
    ASSUME NEW r, r.lo .. r.hi \subseteq Addr, NEW a \in r.lo .. r.hi
    PROVE  \E p \in Subnets(r) : a \in p
<1> DEFINE inside == {p \in Prefix : p \subseteq r.lo .. r.hi}
           via == {p \in inside : a \in p}
           rest == {Addr \ p : p \in via}
<1>1. {a} \in via BY RouteAssumption
<1>2. rest \subseteq SUBSET Addr /\ Addr \ {a} \in rest BY <1>1
<1>3. rest \subseteq FiniteSubsetsOf(Addr) BY <1>2, RouteAssumption, FS_FiniteSubsetsOfFinite
<1>4. PICK t \in rest : \A y \in rest : ~(<<y, t>> \in StrictSubsetOrdering(Addr))
  <2> HIDE DEF rest
  <2> QED BY <1>2, <1>3, FS_StrictSubsetOrderingWellFounded, WFMin
<1>5. PICK b \in via : t = Addr \ b OBVIOUS
<1>6. ASSUME NEW q \in inside, b \subseteq q PROVE b = q
  <2> DEFINE y == Addr \ q
  <2>1. q \in via /\ q \subseteq Addr /\ b \subseteq Addr BY <1>6, RouteAssumption, SMTT(30), Z3T(30)
  <2>2. y \in rest /\ y \subseteq t /\ y \in SUBSET Addr /\ t \in SUBSET Addr BY <1>5, <1>6, <2>1
  <2> HIDE DEF y, rest
  <2>3. ~(<<y, t>> \in StrictSubsetOrdering(Addr)) BY <1>4, <2>2
  <2>4. y = t BY <2>2, <2>3 DEF StrictSubsetOrdering
  <2> QED BY <1>5, <2>1, <2>4 DEF y
<1> QED BY <1>5, <1>6 DEF Subnets

\* Its prefixes are apart, so their network addresses tell them apart.
LEMMA SubnetsApart ==
    ASSUME NEW r, NEW p \in Subnets(r), NEW q \in Subnets(r), Network(p) = Network(q)
    PROVE  p = q
<1>1. /\ p \in Prefix /\ q \in Prefix /\ (p \subseteq q => p = q) /\ (q \subseteq p => q = p)
  BY DEF Subnets
<1>2. Network(p) \in p \cap q BY <1>1, NetworkInside
<1> QED BY <1>1, <1>2, RouteAssumption, Zenon

\* What is offered, in the order of entries_from_client_ranges.
LEMMA OfferedType ==
    ASSUME NEW ranges \in Advertisement \cup {<<>>}
    PROVE  /\ IsFiniteSet(Offered(ranges))
           /\ \A x \in Offered(ranges) :
                /\ x = <<x[1], x[2]>> /\ x[1] \in Nat /\ x[1] \in Accepted(ranges) /\ x[1] \in DOMAIN ranges
                /\ x[2] \in Prefix /\ x[2] \in Subnets(ranges[x[1]]) /\ Network(x[2]) \in Nat
<1>1. IsFiniteSet(Prefix)
  <2>1. Prefix \in SUBSET (SUBSET Addr) BY RouteAssumption
  <2> QED BY <2>1, RouteAssumption, FS_SUBSET, FS_Subset, Zenon
<1>2. IsFiniteSet(DOMAIN ranges) /\ DOMAIN ranges \subseteq Nat BY RangesType
<1>3. IsFiniteSet((DOMAIN ranges) \X Prefix) BY <1>1, <1>2, FS_Product
<1>4. Offered(ranges) \in SUBSET ((DOMAIN ranges) \X Prefix) BY DEF Offered, Accepted
<1>5. IsFiniteSet(Offered(ranges)) BY <1>3, <1>4, FS_Subset
<1>6. ASSUME NEW x \in Offered(ranges)
      PROVE  /\ x = <<x[1], x[2]>> /\ x[1] \in Nat /\ x[1] \in Accepted(ranges) /\ x[1] \in DOMAIN ranges
             /\ x[2] \in Prefix /\ x[2] \in Subnets(ranges[x[1]]) /\ Network(x[2]) \in Nat
  <2>1. x \in (DOMAIN ranges) \X Prefix /\ x[1] \in Accepted(ranges) /\ x[2] \in Subnets(ranges[x[1]])
    BY <1>4 DEF Offered
  <2>2. Network(x[2]) \in Nat
    <3>1. x[2] \in Prefix BY <2>1
    <3>2. Network(x[2]) \in x[2] BY <3>1, NetworkInside
    <3>3. x[2] \subseteq Nat BY <3>1, RouteAssumption, Zenon
    <3> QED BY <3>2, <3>3
  <2> QED BY <1>2, <2>1, <2>2
<1> QED BY <1>5, <1>6

\* It is a total order.
LEMMA PrecedesOrders ==
    ASSUME NEW ranges \in Advertisement \cup {<<>>}, NEW x \in Offered(ranges), NEW y \in Offered(ranges)
    PROVE  /\ ~Precedes(x, x) /\ (x = y \/ Precedes(x, y) \/ Precedes(y, x))
           /\ \A z \in Offered(ranges) : Precedes(x, y) /\ Precedes(y, z) => Precedes(x, z)
<1> DEFINE Ok(v) == /\ v = <<v[1], v[2]>> /\ v[1] \in Nat /\ Network(v[2]) \in Nat
                    /\ v[2] \in Subnets(ranges[v[1]])
<1>1. \A v \in Offered(ranges) : Ok(v) BY OfferedType
<1>2. ~Precedes(x, x) BY <1>1 DEF Precedes
<1>3. ASSUME ~Precedes(x, y), ~Precedes(y, x) PROVE x = y
  <2>1. x[1] = y[1] /\ Network(x[2]) = Network(y[2]) BY <1>1, <1>3 DEF Precedes
  <2>2. x[2] = y[2] BY <1>1, <2>1, SubnetsApart
  <2> QED BY <1>1, <2>1, <2>2
<1>4. ASSUME NEW z \in Offered(ranges), Precedes(x, y), Precedes(y, z) PROVE Precedes(x, z)
  BY <1>1, <1>4 DEF Precedes
<1> QED BY <1>2, <1>3, <1>4

\* How many of the offered prefixes come before one of them, and those within the cap.
Below(ranges, y) == {z \in Offered(ranges) : Precedes(z, y)}
Within(ranges) == {y \in Offered(ranges) : Cardinality(Below(ranges, y)) < MaxPrefixes}

\* What comes before a prefix is finite, and a later prefix has more before it.
LEMMA BelowGrows ==
    ASSUME NEW ranges \in Advertisement \cup {<<>>}, NEW x \in Offered(ranges), NEW y \in Offered(ranges)
    PROVE  /\ IsFiniteSet(Below(ranges, x)) /\ Cardinality(Below(ranges, x)) \in Nat
           /\ Precedes(x, y) => Cardinality(Below(ranges, x)) < Cardinality(Below(ranges, y))
<1>1. \A v : Below(ranges, v) \in SUBSET Offered(ranges) BY DEF Below
<1>2. \A v : IsFiniteSet(Below(ranges, v)) BY <1>1, OfferedType, FS_Subset
<1>3. \A v : Cardinality(Below(ranges, v)) \in Nat BY <1>2, FS_CardinalityType
<1>4. ASSUME Precedes(x, y) PROVE Cardinality(Below(ranges, x)) < Cardinality(Below(ranges, y))
  <2> DEFINE S == Below(ranges, x)
             T == S \cup {x}
  <2>1. x \notin S BY PrecedesOrders DEF Below
  <2>2. T \in SUBSET Below(ranges, y) BY <1>4, PrecedesOrders DEF Below
  <2> HIDE DEF S
  <2>3. IsFiniteSet(T) /\ Cardinality(T) = Cardinality(S) + 1 BY <1>2, <2>1, FS_AddElement DEF S
  <2> HIDE DEF T
  <2>4. Cardinality(T) <= Cardinality(Below(ranges, y)) BY <1>2, <2>2, FS_Subset
  <2> QED BY <1>3, <2>3, <2>4 DEF S
<1> QED BY <1>2, <1>3, <1>4

\* No more than the cap are within it ...
LEMMA WithinBound ==
    ASSUME NEW ranges \in Advertisement \cup {<<>>}
    PROVE  /\ IsFiniteSet(Within(ranges)) /\ Cardinality(Within(ranges)) \in Nat
           /\ Cardinality(Within(ranges)) <= MaxPrefixes
<1> DEFINE W == Within(ranges)
           rank(y) == Cardinality(Below(ranges, y))
           rooms == {MaxPrefixes - rank(y) : y \in W}
<1>1. W \in SUBSET Offered(ranges) BY DEF Within
<1>2. IsFiniteSet(W) /\ Cardinality(W) \in Nat BY <1>1, OfferedType, FS_Subset, FS_CardinalityType, SMTT(30), Z3T(30)
<1>3. ASSUME W # {} PROVE Cardinality(W) <= MaxPrefixes
  <2>1. \A y \in W : rank(y) \in Nat /\ rank(y) < MaxPrefixes /\ MaxPrefixes \in Nat
    BY <1>1, BelowGrows, RouteAssumption DEF Within
  <2>2. rooms \subseteq Nat /\ rooms # {}
    <3> HIDE DEF rank, W
    <3> QED BY <1>3, <2>1
  <2>3. PICK m \in rooms : \A n \in rooms : ~(<<n, m>> \in OpToRel(<, Nat))
    <3> HIDE DEF rooms
    <3> QED BY <2>2, NatLessThanWellFounded, WFMin
  <2>4. ASSUME NEW n \in rooms PROVE ~(n < m)
    <3> HIDE DEF rooms
    <3>1. n \in Nat /\ m \in Nat BY <2>2
    <3>2. <<n, m>> \in Nat \X Nat /\ ~(<<n, m>> \in {ss \in Nat \X Nat : ss[1] < ss[2]})
      BY <2>3, <3>1 DEF OpToRel
    <3> QED BY <3>2
  <2>5. PICK y \in W : m = MaxPrefixes - rank(y) OBVIOUS
  <2>6. ASSUME NEW z \in W PROVE z \in Below(ranges, y) \cup {y}
    <3>1. rank(z) <= rank(y)
      <4>1. MaxPrefixes - rank(z) \in rooms OBVIOUS
      <4> HIDE DEF rooms, rank, W
      <4> QED BY <2>1, <2>4, <2>5, <4>1
    <3>2. ~Precedes(y, z)
      <4>1. Precedes(y, z) => rank(y) < rank(z) BY <1>1, BelowGrows
      <4> HIDE DEF rank, W
      <4> QED BY <2>1, <3>1, <4>1
    <3>3. z = y \/ Precedes(z, y) BY <1>1, <3>2, PrecedesOrders
    <3> QED BY <1>1, <3>3 DEF Below
  <2> DEFINE T == Below(ranges, y) \cup {y}
  <2>7. IsFiniteSet(T) /\ Cardinality(T) = rank(y) + 1
    <3>1. y \notin Below(ranges, y) /\ y \in Offered(ranges) BY <1>1, PrecedesOrders DEF Below
    <3> QED BY <3>1, BelowGrows, FS_AddElement
  <2>8. W \in SUBSET T BY <2>6
  <2> HIDE DEF T, W
  <2>9. Cardinality(W) <= Cardinality(T) BY <2>7, <2>8, FS_Subset, SMTT(30), Z3T(30)
  <2> HIDE DEF rank
  <2> QED BY <1>2, <2>1, <2>7, <2>9, SMTT(30), Z3T(30)
<1>4. CASE W = {} BY <1>2, <1>4, FS_EmptySet, RouteAssumption
<1> QED BY <1>2, <1>3, <1>4

\* ... and when there are fewer, everything is.
LEMMA WithinAll ==
    ASSUME NEW ranges \in Advertisement \cup {<<>>}, Cardinality(Within(ranges)) < MaxPrefixes
    PROVE  Within(ranges) = Offered(ranges)
<1> DEFINE W == Within(ranges)
           rank(y) == Cardinality(Below(ranges, y))
           lost == Offered(ranges) \ W
           ranks == {rank(y) : y \in lost}
<1>1. W \in SUBSET Offered(ranges) BY DEF Within
<1>2. \A y \in lost : rank(y) \in Nat BY BelowGrows
<1>3. ASSUME lost # {} PROVE FALSE
  <2>1. ranks \subseteq Nat /\ ranks # {}
    <3> HIDE DEF rank, lost
    <3> QED BY <1>2, <1>3
  <2>2. PICK m \in ranks : \A n \in ranks : ~(<<n, m>> \in OpToRel(<, Nat))
    <3> HIDE DEF ranks
    <3> QED BY <2>1, NatLessThanWellFounded, WFMin
  <2>3. ASSUME NEW n \in ranks PROVE ~(n < m)
    <3> HIDE DEF ranks
    <3>1. n \in Nat /\ m \in Nat BY <2>1
    <3>2. <<n, m>> \in Nat \X Nat /\ ~(<<n, m>> \in {ss \in Nat \X Nat : ss[1] < ss[2]})
      BY <2>2, <3>1 DEF OpToRel
    <3> QED BY <3>2
  <2>4. PICK y \in lost : m = rank(y) OBVIOUS
  <2>5. ASSUME NEW z \in Below(ranges, y) PROVE z \in W
    <3>1. z \in Offered(ranges) /\ Precedes(z, y) BY DEF Below
    <3>2. rank(z) < rank(y) BY <3>1, BelowGrows
    <3>3. z \in lost => rank(z) \in ranks OBVIOUS
    <3>4. z \notin lost
      <4> HIDE DEF ranks, rank, lost
      <4> QED BY <2>3, <2>4, <3>2, <3>3
    <3> QED BY <3>1, <3>4
  <2>6. Below(ranges, y) \in SUBSET W BY <2>5
  <2>7. rank(y) <= Cardinality(W) BY <2>6, WithinBound, FS_Subset, SMTT(30), Z3T(30)
  <2>8. rank(y) \in Nat /\ Cardinality(W) \in Nat /\ Cardinality(W) < MaxPrefixes BY <1>2, WithinBound
  <2>9. rank(y) < MaxPrefixes
    <3> HIDE DEF rank, W
    <3> QED BY <2>7, <2>8, RouteAssumption
  <2> QED BY <2>9 DEF Within
<1> QED BY <1>1, <1>3, Zenon

\* The routes that the k-th advertisement gives a session, and those that it has.
Entry(k, s, ranges, x) ==
    [prefix |-> x[2], protocol |-> ranges[x[1]].protocol, session |-> s, rank |-> <<k, x[1], Network(x[2])>>]
Entries(k, s, ranges) == {Entry(k, s, ranges, x) : x \in Within(ranges)}
Own(s) == {r \in routes : r.session = s}

\* The inductive invariant of the prefix routes: a session has those of its last
\* advertisement.
Current ==
    /\ adverts \in Nat /\ latest \in [Session -> Advertisement \cup {<<>>}]
    /\ \A s \in Session : \E k \in Nat : Own(s) = Entries(k, s, latest[s])

\* There is one route for each prefix within the cap.
LEMMA EntriesCount ==
    ASSUME NEW k, NEW s, NEW ranges \in Advertisement \cup {<<>>}
    PROVE  Cardinality(Entries(k, s, ranges)) = Cardinality(Within(ranges))
<1> DEFINE W == Within(ranges)
           E == Entries(k, s, ranges)
           f == [x \in W |-> Entry(k, s, ranges, x)]
<1>1. f \in [W -> E] /\ \A e \in E : \E x \in W : f[x] = e BY DEF Entries
<1>2. ASSUME NEW x \in W, NEW y \in W, f[x] = f[y] PROVE x = y
  <2>1. x \in Offered(ranges) /\ y \in Offered(ranges) BY DEF Within
  <2>2. Entry(k, s, ranges, x) = Entry(k, s, ranges, y) BY <1>2
  <2>3. x[2] = y[2] /\ x[1] = y[1] BY <2>2 DEF Entry
  <2>4. x = <<x[1], x[2]>> /\ y = <<y[1], y[2]>> BY <2>1, OfferedType
  <2> QED BY <2>3, <2>4
<1> HIDE DEF W, E, f
<1>3. f \in Bijection(W, E) BY <1>1, <1>2 DEF Bijection, Injection, Surjection, IsInjective
<1>4. ExistsBijection(W, E) BY <1>3 DEF ExistsBijection
<1>5. IsFiniteSet(W) BY WithinBound DEF W
<1>6. Cardinality(E) = Cardinality(W) BY <1>4, <1>5, FS_Bijection
<1> QED BY <1>6 DEF E, W

\* A range is accepted exactly when it keeps clear of the pools.
LEMMA AcceptedClear ==
    ASSUME NEW ranges \in Advertisement \cup {<<>>}, NEW i \in DOMAIN ranges
    PROVE  i \in Accepted(ranges) <=> (ranges[i].lo .. ranges[i].hi) \cap UNION Pools = {}
<1> DEFINE r == ranges[i]
<1>1. r.lo .. r.hi \subseteq Addr BY RangesType
<1>2. ASSUME i \in Accepted(ranges), NEW a \in r.lo .. r.hi, NEW d \in Pools, a \in d PROVE FALSE
  <2>1. PICK p \in Subnets(r) : a \in p BY <1>1, <1>2, SubnetsCover, SMTT(30), Z3T(30)
  <2>2. ~Overlaps(d, p) /\ p \in Prefix BY <1>2 DEF Accepted, Subnets
  <2> QED BY <1>2, <2>1, <2>2, OverlapsDecides, SMTT(30), Z3T(30)
<1>3. ASSUME (r.lo .. r.hi) \cap UNION Pools = {}, NEW p \in Subnets(r), NEW d \in Pools PROVE ~Overlaps(d, p)
  <2>1. p \in Prefix /\ p \subseteq r.lo .. r.hi /\ d \in Prefix BY RouteAssumption DEF Subnets
  <2>2. Network(p) \in p /\ Network(d) \in d BY <2>1, NetworkInside
  <2>3. p \cap d = {} BY <1>3, <2>1, SMTT(30)
  <2> QED BY <2>2, <2>3, SMTT(30), Z3T(30) DEF Overlaps
<1> QED BY <1>2, <1>3 DEF Accepted

\* With the invariant, the routes of a session are what it last advertised.
LEMMA CurrentIsAdvertised == ASSUME Current PROVE RoutesAreAdvertised
<1> SUFFICES ASSUME NEW s \in Session, NEW c \in Protocol
             PROVE  LET ranges == latest[s]
                        kept == {i \in DOMAIN ranges :
                                   /\ ranges[i].protocol = c
                                   /\ (ranges[i].lo .. ranges[i].hi) \cap UNION Pools = {}}
                        claimed == UNION {ranges[i].lo .. ranges[i].hi : i \in kept}
                        own == {r \in routes : r.session = s}
                        reached == UNION {r.prefix : r \in {q \in own : q.protocol = c}}
                    IN  /\ reached \subseteq claimed
                        /\ Cardinality(own) <= MaxPrefixes
                        /\ Cardinality(own) < MaxPrefixes => claimed \subseteq reached
  BY DEF RoutesAreAdvertised
<1> DEFINE ranges == latest[s]
           kept == {i \in DOMAIN ranges :
                      /\ ranges[i].protocol = c
                      /\ (ranges[i].lo .. ranges[i].hi) \cap UNION Pools = {}}
           claimed == UNION {ranges[i].lo .. ranges[i].hi : i \in kept}
           reached == UNION {r.prefix : r \in {q \in Own(s) : q.protocol = c}}
<1>1. ranges \in Advertisement \cup {<<>>} BY DEF Current
<1>2. PICK k \in Nat : Own(s) = Entries(k, s, ranges) BY SMTT(30), Z3T(30) DEF Current
<1> HIDE DEF ranges
<1>3. reached \subseteq claimed
  <2> SUFFICES ASSUME NEW q \in Own(s), q.protocol = c, NEW a \in q.prefix
               PROVE  \E i \in kept : a \in ranges[i].lo .. ranges[i].hi
    OBVIOUS
  <2>1. PICK x \in Within(ranges) : q = Entry(k, s, ranges, x) BY <1>2, SMTT(30), Z3T(30) DEF Entries
  <2>2. x \in Offered(ranges) /\ q.prefix = x[2] /\ q.protocol = ranges[x[1]].protocol BY <2>1 DEF Within, Entry
  <2>3. x[1] \in DOMAIN ranges /\ x[1] \in Accepted(ranges) /\ x[2] \in Subnets(ranges[x[1]])
    BY <1>1, <2>2, OfferedType, SMTT(30), Z3T(30)
  <2>4. x[1] \in kept BY <1>1, <2>2, <2>3, AcceptedClear, SMTT(30), Z3T(30)
  <2>5. a \in ranges[x[1]].lo .. ranges[x[1]].hi BY <2>2, <2>3 DEF Subnets
  <2> QED BY <2>4, <2>5
<1>4. Cardinality(Own(s)) = Cardinality(Within(ranges)) /\ Cardinality(Own(s)) <= MaxPrefixes
  BY <1>1, <1>2, EntriesCount, WithinBound, SMTT(30), Z3T(30)
<1>5. ASSUME Cardinality(Own(s)) < MaxPrefixes PROVE claimed \subseteq reached
  <2> SUFFICES ASSUME NEW i \in kept, NEW a \in ranges[i].lo .. ranges[i].hi
               PROVE  \E q \in Own(s) : q.protocol = c /\ a \in q.prefix
    OBVIOUS
  <2>1. Within(ranges) = Offered(ranges) BY <1>1, <1>4, <1>5, WithinAll, SMTT(30), Z3T(30)
  <2>2. i \in Accepted(ranges) /\ ranges[i].protocol = c BY <1>1, AcceptedClear, SMTT(30), Z3T(30)
  <2>3. ranges[i].lo .. ranges[i].hi \subseteq Addr BY <1>1, RangesType, SMTT(30), Z3T(30)
  <2>4. PICK p \in Subnets(ranges[i]) : a \in p BY <2>3, SubnetsCover, SMTT(30), Z3T(30)
  <2>5. <<i, p>> \in Within(ranges) BY <2>1, <2>2, SMTT(30), Z3T(30) DEF Offered, Subnets
  <2>6. Entry(k, s, ranges, <<i, p>>) \in Own(s) BY <1>2, <2>5, SMTT(30), Z3T(30) DEF Entries
  <2>7. Entry(k, s, ranges, <<i, p>>).protocol = c /\ Entry(k, s, ranges, <<i, p>>).prefix = p BY <2>2, Zenon DEF Entry
  <2> QED BY <2>4, <2>6, <2>7, SMTT(30), Z3T(30)
<1> QED BY <1>3, <1>4, <1>5, ZenonT(60) DEF Own, ranges

\* A step keeps it: only an advertisement and the end of a session change routes, and
\* only those of the session.
LEMMA CurrentStep == ASSUME Current, [Next]_vars PROVE Current'
<1>1. CASE UNCHANGED <<routes, adverts, latest>> BY <1>1, SMTT(30), Z3T(30) DEF Current, Own
<1>2. ASSUME NEW s \in Session, NEW ranges \in Advertisement, ReplaceSessionRoutes(s, ranges) PROVE Current'
  <2>1. EntriesFromClientRanges(s, ranges) = Entries(adverts, s, ranges)
    BY SMTT(30), ZenonT(60) DEF EntriesFromClientRanges, Entries, Entry, Within, Below
  <2>2. /\ adverts' = adverts + 1 /\ latest' = [latest EXCEPT ![s] = ranges]
        /\ routes' = {r \in routes : r.session # s} \cup Entries(adverts, s, ranges)
    BY <1>2, <2>1, SMTT(30), Z3T(30) DEF ReplaceSessionRoutes
  <2>3. \A e \in Entries(adverts, s, ranges) : e.session = s BY DEF Entries, Entry
  <2>4. Own(s)' = Entries(adverts, s, ranges) /\ latest'[s] = ranges BY <2>2, <2>3, SMTT(30), Z3T(30) DEF Own, Current
  <2>5. \A t \in Session : t # s => Own(t)' = Own(t) /\ latest'[t] = latest[t] BY <2>2, <2>3 DEF Own, Current
  <2> QED BY <2>2, <2>4, <2>5, SMTT(30), Z3T(30) DEF Current
<1>3. ASSUME NEW s \in Session, RemoveRoutes(s) PROVE Current'
  <2>1. adverts' = adverts /\ latest' = [latest EXCEPT ![s] = <<>>] /\ routes' = {r \in routes : r.session # s}
    BY <1>3 DEF RemoveRoutes
  <2>2. Own(s)' = {} /\ latest'[s] = <<>> BY <2>1 DEF Own, Current
  <2>3. \A t \in Session : t # s => Own(t)' = Own(t) /\ latest'[t] = latest[t] BY <2>1 DEF Own, Current
  <2>4. Entries(0, s, <<>>) = {} BY DEF Entries, Within, Offered, Accepted
  <2> QED BY <2>1, <2>2, <2>3, <2>4, ZenonT(60) DEF Current
<1>4. ASSUME NEW s \in Session, Handler(s)
      PROVE  \/ UNCHANGED <<routes, adverts, latest>> \/ RemoveRoutes(s)
             \/ \E ranges \in Advertisement : ReplaceSessionRoutes(s, ranges)
  BY <1>4, Zenon
  DEF Handler, Allocate, Install, Register, Publish, Advertise, RefreshMtu, Release, Withdraw, Purge, Unregister,
      Forget, Reap, InsertClientAddr, RemoveAddrs, table
<1>5. CASE UNCHANGED vars \/ Data \/ ReaperUnregister BY <1>1, <1>5, Zenon DEF vars, table, Data, ReaperUnregister
<1> QED BY <1>1, <1>2, <1>3, <1>4, <1>5, SMTT(30), Z3T(30) DEF Next

\* The routes of a session reach what its last ROUTE_ADVERTISEMENT claims outside the
\* pools and nothing else, and all of it below the cap, for any ranges, prefixes and cap
\* (replace_session_routes, entries_from_client_ranges).
THEOREM LastAdvertisementRules == Spec => []RoutesAreAdvertised
<1>1. Init => Current
  <2> SUFFICES ASSUME Init PROVE Current OBVIOUS
  <2>1. routes = {} /\ adverts = 0 /\ latest = [s \in Session |-> <<>>] BY DEF Init, TableInit
  <2>2. \A s : Entries(0, s, <<>>) = {} BY DEF Entries, Within, Offered, Accepted
  <2> QED BY <2>1, <2>2 DEF Current, Own
<1>2. Current /\ [Next]_vars => Current' BY CurrentStep
<1>3. Current => RoutesAreAdvertised BY CurrentIsAdvertised
<1> QED BY <1>1, <1>2, <1>3, PTL DEF Spec

-------------------------------------------------------------------------------
(***************************************************************************)
(* The window bound of the rate limiter.  The limiter keeps no log, so the *)
(* bound on windows that have closed says nothing of the buckets.  The     *)
(* invariant adds, for the windows still open, that what was admitted in   *)
(* them and what is left in the bucket have been earned together.          *)
(***************************************************************************)

\* A second, in ticks.
Ticks == Second * Micro

\* The open windows: from packet i up to now.
Credit ==
    \A i \in 1 .. Len(log) :
        /\ PacketRate > 0 =>
            (Len(log) - i + 1 + packetTokens) * Ticks
                <= PacketRate * (Ticks + lastRefill - log[i].time)
        /\ ByteRate > 0 =>
            (bytes - log[i].before + byteTokens) * Ticks
                <= ByteRate * (Ticks + lastRefill - log[i].time)

LimiterInv == LimiterTypeOK /\ Credit /\ WindowBound

\* Multiplication by a natural number keeps an inequality.
LEMMA Scale ==
    ASSUME NEW a \in Int, NEW b \in Int, NEW k \in Nat, a <= b
    PROVE  a * k <= b * k /\ k * a <= k * b
  BY SMT

\* Adding a natural number.
LEMMA Grow ==
    ASSUME NEW a \in Int, NEW k \in Nat
    PROVE  a <= a + k /\ a + k \in Int
  BY SMT

\* Integer division rounds down.
LEMMA DivDown ==
    ASSUME NEW x \in Nat, NEW m \in Nat \ {0}
    PROVE  x \div m \in Nat /\ (x \div m) * m <= x
  BY SMT

\* Products of three factors regroup.
LEMMA Regroup ==
    ASSUME NEW a \in Int, NEW b \in Int, NEW c \in Int
    PROVE  /\ (a * b) * c = a * (b * c) /\ a * b = b * a
           /\ a * b \in Int /\ (a + c) * b = a * b + c * b
  BY SMT

\* What the elapsed time earns is no more than its exact share: rounding to whole
\* microseconds and to whole tokens (try_consume_at) only ever loses.
LEMMA Rounding ==
    ASSUME NEW rate \in Nat, NEW d \in Nat
    PROVE  /\ (rate * (d \div Micro)) \div Second \in Nat
           /\ ((rate * (d \div Micro)) \div Second) * Ticks <= rate * d
  <1> DEFINE q == d \div Micro
             p == (rate * q) \div Second
  <1>1. q \in Nat /\ q * Micro <= d
    BY LimiterAssumption, DivDown
  <1>2. rate * q \in Nat
    BY <1>1
  <1>3. p \in Nat /\ p * Second <= rate * q
    BY <1>2, LimiterAssumption, DivDown, SMTT(30), Z3T(30)
  <1> HIDE DEF q, p
  <1>4. (p * Second) * Micro <= (rate * q) * Micro
    BY <1>2, <1>3, Scale, LimiterAssumption, Regroup, SMTT(30), Z3T(30)
  <1>5. rate * (q * Micro) <= rate * d
    BY <1>1, Scale, LimiterAssumption, Regroup, SMTT(30), Z3T(30)
  <1>6. (p * Second) * Micro = p * (Second * Micro) /\ (rate * q) * Micro = rate * (q * Micro)
    BY <1>1, <1>3, Regroup, LimiterAssumption, SMTT(30), Z3T(30)
  <1>7. p * Ticks <= rate * d
    <2>1. p * (Second * Micro) <= rate * (q * Micro)
      BY <1>4, <1>6, SMTT(30), Z3T(30)
    <2>2. p * (Second * Micro) \in Int /\ rate * (q * Micro) \in Int /\ rate * d \in Int
      BY <1>1, <1>3, LimiterAssumption, Regroup, SMTT(30), Z3T(30)
    <2> QED
      BY <2>1, <2>2, <1>5, SMTT(30), Z3T(30) DEF Ticks
  <1> QED
    BY <1>3, <1>7 DEF p, q

\* A refilled bucket holds at most one second's tokens, and gained no more than
\* the elapsed time earned.
LEMMA RefillBound ==
    ASSUME NEW rate \in Nat, NEW tokens \in 0 .. rate, NEW t \in Nat,
           lastRefill \in Nat, lastRefill <= t
    PROVE  /\ Refill(tokens, rate, t) \in 0 .. rate
           /\ Refill(tokens, rate, t) * Ticks <= tokens * Ticks + rate * (t - lastRefill)
  <1> DEFINE e == Earned(rate, t)
             r == Refill(tokens, rate, t)
  <1>1. t - lastRefill \in Nat
    OBVIOUS
  <1>2. e \in Nat /\ e * Ticks <= rate * (t - lastRefill)
    BY <1>1, Rounding, SMTT(30), Z3T(30) DEF Earned
  <1>3. r \in 0 .. rate /\ r <= tokens + e
    BY <1>2 DEF Refill
  <1>4. Ticks \in Nat
    BY LimiterAssumption DEF Ticks
  <1> HIDE DEF e, r
  <1>5. r * Ticks <= (tokens + e) * Ticks
    BY <1>2, <1>3, <1>4, Scale, SMTT(30), Z3T(30)
  <1>6. (tokens + e) * Ticks = tokens * Ticks + e * Ticks
    BY <1>2, <1>4, Regroup, SMTT(30), Z3T(30)
  <1>7. /\ r * Ticks \in Int /\ tokens * Ticks \in Int /\ e * Ticks \in Int
        /\ rate * (t - lastRefill) \in Int
    BY <1>1, <1>2, <1>3, <1>4, Regroup, SMTT(30), Z3T(30)
  <1>8. r * Ticks <= tokens * Ticks + rate * (t - lastRefill)
    BY <1>2, <1>5, <1>6, <1>7, SMTT(30), Z3T(30)
  <1> QED
    BY <1>3, <1>8 DEF r

\* The account of one bucket across a refill: c was admitted since time s.
LEMMA Carry ==
    ASSUME NEW rate \in Nat, NEW c \in Int, NEW tokens \in Nat, NEW refilled \in Nat,
           NEW s \in Nat, NEW last \in Nat, NEW t \in Nat,
           (c + tokens) * Ticks <= rate * (Ticks + last - s),
           refilled * Ticks <= tokens * Ticks + rate * (t - last)
    PROVE  (c + refilled) * Ticks <= rate * (Ticks + t - s)
  <1>1. Ticks \in Nat
    BY LimiterAssumption, SMTT(30), Z3T(30) DEF Ticks
  <1>2. /\ (c + tokens) * Ticks = c * Ticks + tokens * Ticks
        /\ (c + refilled) * Ticks = c * Ticks + refilled * Ticks
        /\ c * Ticks \in Int /\ tokens * Ticks \in Int /\ refilled * Ticks \in Int
    BY <1>1, Regroup, SMTT(30), Z3T(30)
  <1>3. rate * (Ticks + t - s) = rate * (Ticks + last - s) + rate * (t - last)
    <2> DEFINE x == Ticks + last - s
               y == t - last
    <2>1. x \in Int /\ y \in Int /\ Ticks + t - s = x + y
      BY <1>1, SMTT(30), Z3T(30)
    <2>2. (x + y) * rate = x * rate + y * rate /\ x * rate = rate * x /\ y * rate = rate * y
          /\ (x + y) * rate = rate * (x + y)
      BY <2>1, Regroup, SMTT(30), Z3T(30)
    <2> QED
      BY <2>1, <2>2
  <1>4. rate * (Ticks + last - s) \in Int /\ rate * (t - last) \in Int
    BY <1>1, Regroup, SMTT(30), Z3T(30)
  <1> QED
    BY <1>2, <1>3, <1>4, SMTT(30), Z3T(30)

\* The invariant, at the start.
LEMMA InitLimiter == LimiterInit => LimiterInv
  BY LimiterAssumption DEF LimiterInit, LimiterInv, LimiterTypeOK, Credit, WindowBound

\* What both kinds of call that look at the buckets share: the refill.
LEMMA Refilled ==
    ASSUME LimiterTypeOK, NEW d \in Step, NEW t, t = now + d
    PROVE  /\ t \in Nat /\ now <= t /\ lastRefill <= t
           /\ Refill(packetTokens, PacketRate, t) \in 0 .. PacketRate
           /\ Refill(byteTokens, ByteRate, t) \in 0 .. ByteRate
           /\ Refill(packetTokens, PacketRate, t) * Ticks
                <= packetTokens * Ticks + PacketRate * (t - lastRefill)
           /\ Refill(byteTokens, ByteRate, t) * Ticks
                <= byteTokens * Ticks + ByteRate * (t - lastRefill)
  <1>1. t \in Nat /\ now <= t /\ lastRefill <= t /\ lastRefill \in Nat
    BY LimiterAssumption DEF LimiterTypeOK
  <1> QED
    BY <1>1, RefillBound, LimiterAssumption, ZenonT(60) DEF LimiterTypeOK

\* A sequence over a set is one over a larger set, and its elements are in it.
LEMMA SeqMono ==
    ASSUME NEW S, NEW T, S \subseteq T, NEW s \in Seq(S)
    PROVE  s \in Seq(T) /\ Len(s) \in Nat /\ \A i \in 1 .. Len(s) : s[i] \in S
  BY SMT

\* The entries of the log are records of numbers.
LEMMA LogEntry ==
    ASSUME LimiterTypeOK, NEW i \in 1 .. Len(log)
    PROVE  log[i].time \in Nat /\ log[i].before \in Nat /\ log[i].length \in Nat
  <1>1. log[i] \in Admission(now) /\ now \in Nat
    BY SeqMono, LimiterAssumption, SMTT(30), Z3T(30) DEF LimiterTypeOK
  <1>2. log[i].time \in 0 .. now /\ log[i].before \in Nat /\ log[i].length \in Size
    BY <1>1 DEF Admission
  <1>3. \A x \in 0 .. now : x \in Nat
    BY <1>1
  <1>4. Size \subseteq Nat
    BY LimiterAssumption, SMTT(30), Z3T(30)
  <1> QED
    BY <1>2, <1>3, <1>4, ZenonT(60)

\* An admitted packet keeps the types.
LEMMA AdmitType ==
    ASSUME LimiterTypeOK, NEW d \in Step, NEW n \in Size, now + d <= Horizon,
           now' = now + d, Admit(now + d, n)
    PROVE  /\ now' \in 0 .. Horizon
           /\ log' \in Seq(Admission(now'))
           /\ bytes' \in Nat /\ since' \in -1 .. now'
  <1>1. now' \in 0 .. Horizon /\ now <= now' /\ now' \in Nat
    BY LimiterAssumption DEF LimiterTypeOK
  <1>2. log \in Seq(Admission(now'))
    <2>1. Admission(now) \subseteq Admission(now')
      BY <1>1 DEF LimiterTypeOK, Admission
    <2>2. log \in Seq(Admission(now))
      BY SMTT(30), Z3T(30) DEF LimiterTypeOK
    <2> QED
      BY <2>1, <2>2, SeqMono, SMTT(30), Z3T(30)
  <1>3. [time |-> now + d, before |-> bytes, length |-> n] \in Admission(now')
    BY <1>1 DEF LimiterTypeOK, Admission
  <1> QED
    BY <1>1, <1>2, <1>3, LimiterAssumption, SMTT(30), Z3T(30) DEF Admit, LimiterTypeOK

\* A packet that is admitted against its buckets.
LEMMA ConsumeStep ==
    ASSUME LimiterInv, ~IsUnlimited, NEW d \in Step, NEW n \in Size, now + d <= Horizon,
           now' = now + d, Consume(now + d, n)
    PROVE  LimiterInv'
  <1> DEFINE t == now + d
             p == Refill(packetTokens, PacketRate, t)
             b == Refill(byteTokens, ByteRate, t)
             len == Len(log)
  <1>1. /\ t \in Nat /\ now <= t /\ lastRefill <= t
        /\ p \in 0 .. PacketRate /\ b \in 0 .. ByteRate
        /\ p * Ticks <= packetTokens * Ticks + PacketRate * (t - lastRefill)
        /\ b * Ticks <= byteTokens * Ticks + ByteRate * (t - lastRefill)
    BY Refilled DEF LimiterInv
  <1>2. Ticks \in Nat
    BY LimiterAssumption, SMTT(30), Z3T(30) DEF Ticks
  <1>3. /\ packetTokens' = Take(p, PacketRate, 1) /\ byteTokens' = Take(b, ByteRate, n)
        /\ Enough(p, PacketRate, 1) /\ Enough(b, ByteRate, n)
        /\ lastRefill' = t /\ Admit(t, n) /\ now' = t
    BY SMTT(30), Z3T(30) DEF Consume, IsUnlimited
  <1> HIDE DEF t, p, b
  <1>4. /\ packetTokens' \in 0 .. PacketRate /\ byteTokens' \in 0 .. ByteRate
        /\ PacketRate > 0 => packetTokens' = p - 1
        /\ ByteRate > 0 => byteTokens' = b - n
    BY <1>1, <1>3, LimiterAssumption, SMTT(30), Z3T(30) DEF Take, Enough
  <1>5. LimiterTypeOK'
    <2>1. LimiterTypeOK /\ Admit(now + d, n)
      BY <1>3, SMTT(30), Z3T(30) DEF LimiterInv, t
    <2>2. /\ now' \in 0 .. Horizon
          /\ log' \in Seq(Admission(now'))
          /\ bytes' \in Nat /\ since' \in -1 .. now'
      BY <2>1, AdmitType, SMTT(30), Z3T(30)
    <2> QED
      BY <1>1, <1>3, <1>4, <2>2, SMTT(30), Z3T(30) DEF LimiterTypeOK
  <1>6. /\ log \in Seq(Admission(now)) /\ len \in Nat
        /\ bytes \in Nat /\ bytes' = bytes + n /\ n \in Nat
        /\ packetTokens \in Nat /\ byteTokens \in Nat /\ lastRefill \in Nat
    BY <1>3, LimiterAssumption, SMTT(30), Z3T(30) DEF LimiterInv, LimiterTypeOK, Admit
  <1>7. /\ Len(log') = len + 1
        /\ \A i \in 1 .. len : log'[i] = log[i]
        /\ log'[len + 1].time = t /\ log'[len + 1].before = bytes
        /\ log'[len + 1].length = n
    BY <1>3, <1>6, SMTT(30), Z3T(30) DEF Admit
  <1>8. \A i \in 1 .. len : log[i].time \in Nat /\ log[i].before \in Nat
    BY LogEntry DEF LimiterInv
  <1>. PacketRate \in Nat /\ ByteRate \in Nat /\ p \in Nat /\ b \in Nat
    BY <1>1, LimiterAssumption, SMTT(30), Z3T(30)
  <1>9. ASSUME NEW i \in 1 .. len + 1
        PROVE  /\ PacketRate > 0 =>
                    (len + 1 - i + 1 + packetTokens') * Ticks
                        <= PacketRate * (Ticks + t - log'[i].time)
               /\ ByteRate > 0 =>
                    (bytes' - log'[i].before + byteTokens') * Ticks
                        <= ByteRate * (Ticks + t - log'[i].time)
    <2>1. CASE i \in 1 .. len
      <3>1. ASSUME PacketRate > 0
            PROVE  (len + 1 - i + 1 + packetTokens') * Ticks
                        <= PacketRate * (Ticks + t - log'[i].time)
        <4> DEFINE c == len - i + 1
        <4>1. c \in Int /\ (c + packetTokens) * Ticks
                    <= PacketRate * (Ticks + lastRefill - log[i].time)
          <5>1. c \in Int
            BY <1>6, SMTT(30), Z3T(30)
          <5>2. (c + packetTokens) * Ticks <= PacketRate * (Ticks + lastRefill - log[i].time)
            BY <2>1, <3>1 DEF LimiterInv, Credit
          <5> QED
            BY <5>1, <5>2
        <4>2. (c + p) * Ticks <= PacketRate * (Ticks + t - log[i].time)
          <5> HIDE DEF c
          <5>1. log[i].time \in Nat
            BY <2>1, <1>8, SMTT(30), Z3T(30)
          <5> QED
            BY <4>1, <5>1, <1>1, <1>6, Carry, ZenonT(60)
        <4>3. len + 1 - i + 1 + packetTokens' = c + p
          BY <3>1, <1>1, <1>4, <1>6, LimiterAssumption, SMTT(30), Z3T(30)
        <4> QED
          BY <4>2, <4>3, <2>1, <1>7, SMTT(30), Z3T(30)
      <3>2. ASSUME ByteRate > 0
            PROVE  (bytes' - log'[i].before + byteTokens') * Ticks
                        <= ByteRate * (Ticks + t - log'[i].time)
        <4> DEFINE c == bytes - log[i].before
        <4>1. c \in Int /\ (c + byteTokens) * Ticks
                    <= ByteRate * (Ticks + lastRefill - log[i].time)
          <5>1. log[i].before \in Nat
            BY <2>1, <1>8
          <5> QED
            BY <5>1, <2>1, <3>2, <1>6, SMTT(30), Z3T(30) DEF LimiterInv, Credit
        <4>2. (c + b) * Ticks <= ByteRate * (Ticks + t - log[i].time)
          <5> HIDE DEF c
          <5>1. log[i].time \in Nat
            BY <2>1, <1>8
          <5> QED
            BY <4>1, <5>1, <1>1, <1>6, Carry, ZenonT(60)
        <4>3. bytes' - log[i].before + byteTokens' = c + b
          <5>1. log[i].before \in Int /\ bytes \in Int /\ n \in Int /\ b \in Int
            BY <2>1, <1>6, <1>8, SMTT(30), Z3T(30)
          <5>2. bytes' = bytes + n /\ byteTokens' = b - n
            BY <3>2, <1>4, <1>6, SMTT(30), Z3T(30)
          <5> QED
            BY <5>1, <5>2, SMTT(30), Z3T(30)
        <4> QED
          BY <4>2, <4>3, <2>1, <1>7, SMTT(30), Z3T(30)
      <3> QED
        BY <3>1, <3>2, SMTT(30), Z3T(30)
    <2>2. CASE i = len + 1
      <3>1. Ticks + t - log'[i].time = Ticks
        BY <2>2, <1>1, <1>2, <1>7, SMTT(30), Z3T(30)
      <3>2. PacketRate > 0 => len + 1 - i + 1 + packetTokens' = p
        BY <2>2, <1>1, <1>4, <1>6, LimiterAssumption, SMTT(30), Z3T(30)
      <3>3. ByteRate > 0 => bytes' - log'[i].before + byteTokens' = b
        BY <2>2, <1>1, <1>4, <1>6, <1>7, LimiterAssumption, SMTT(30), Z3T(30)
      <3>4. p * Ticks <= PacketRate * Ticks /\ b * Ticks <= ByteRate * Ticks
        BY <1>1, <1>2, Scale, LimiterAssumption, SMTT(30), Z3T(30)
      <3> QED
        BY <3>1, <3>2, <3>3, <3>4, SMTT(30), Z3T(30)
    <2>3. i \in 1 .. len \/ i = len + 1
      BY <1>6, SMTT(30), Z3T(30)
    <2> QED
      BY <2>1, <2>2, <2>3, SMTT(30), Z3T(30)
  <1>10. Credit'
    BY <1>3, <1>7, <1>9, SMTT(30), Z3T(30) DEF Credit, Ticks
  <1>11. WindowBound'
    <2> SUFFICES ASSUME NEW i \in 1 .. len + 1, NEW j \in 1 .. len + 1, i <= j
                 PROVE  /\ PacketRate > 0 =>
                            (j - i + 1) * Ticks
                                <= PacketRate * (Ticks + log'[j].time - log'[i].time)
                        /\ ByteRate > 0 =>
                            (log'[j].before + log'[j].length - log'[i].before) * Ticks
                                <= ByteRate * (Ticks + log'[j].time - log'[i].time)
      BY <1>7, SMTT(30), Z3T(30) DEF WindowBound, Ticks
    <2>1. CASE j \in 1 .. len
      <3>1. i \in 1 .. len
        BY <2>1, <1>6, SMTT(30), Z3T(30)
      <3> QED
        BY <2>1, <3>1, <1>7, Zenon DEF LimiterInv, WindowBound, Ticks
    <2>2. CASE j = len + 1
      <3> DEFINE x == j - i + 1
                 y == log'[j].before + log'[j].length - log'[i].before
      <3>1. log'[i].before \in Nat /\ log'[i].time \in Nat
        <4>1. i \in 1 .. len \/ i = len + 1
          BY <1>6
        <4> QED
          BY <4>1, <1>1, <1>6, <1>7, <1>8, ZenonT(60)
      <3>2. x \in Int /\ y \in Int /\ x = len + 1 - i + 1 /\ y = bytes' - log'[i].before
        <4>1. log'[j].before = bytes /\ bytes' = bytes + log'[j].length
          BY <2>2, <1>6, <1>7
        <4>2. bytes \in Nat /\ log'[j].length \in Nat /\ i \in Nat /\ len \in Nat
          BY <2>2, <1>6, <1>7
        <4>3. x \in Int /\ x = len + 1 - i + 1
          BY <2>2, <4>2
        <4>4. y = bytes' - log'[i].before
          <5>1. ASSUME NEW u \in Nat, NEW v \in Nat, NEW w \in Nat PROVE u + (v - w) = (u + v) - w
            OBVIOUS
          <5>2. y = log'[j].before + (log'[j].length - log'[i].before)
            BY Zenon
          <5>3. log'[j].before \in Nat /\ log'[j].length \in Nat /\ log'[i].before \in Nat
            BY <3>1, <4>1, <4>2, ZenonT(60)
          <5> HIDE DEF y
          <5>4. y = (log'[j].before + log'[j].length) - log'[i].before
            BY <5>1, <5>2, <5>3, SMTT(30), Z3T(30)
          <5> QED
            BY <4>1, <5>4, Zenon
        <4>5. y \in Int
          <5>1. bytes' \in Nat
            BY <4>1, <4>2, SMTT(30), Z3T(30)
          <5> HIDE DEF y
          <5> QED
            BY <3>1, <4>4, <5>1
        <4> HIDE DEF x, y
        <4> QED
          BY <4>3, <4>4, <4>5, Zenon
      <3>3. packetTokens' \in Nat /\ byteTokens' \in Nat
        BY <1>4, LimiterAssumption
      <3> HIDE DEF x, y
      <3>4. x * Ticks <= (x + packetTokens') * Ticks /\ y * Ticks <= (y + byteTokens') * Ticks
        <4>1. /\ x <= x + packetTokens' /\ x + packetTokens' \in Int
              /\ y <= y + byteTokens' /\ y + byteTokens' \in Int
              /\ x \in Int /\ y \in Int
          <5>1. x \in Int /\ y \in Int
            BY <3>2
          <5> QED
            BY <5>1, <3>3, Grow, Zenon
        <4> QED
          BY <4>1, <1>2, Scale, SMTT(30), Z3T(30)
      <3>5. /\ x * Ticks \in Int /\ (x + packetTokens') * Ticks \in Int
            /\ y * Ticks \in Int /\ (y + byteTokens') * Ticks \in Int
            /\ PacketRate * (Ticks + t - log'[i].time) \in Int
            /\ ByteRate * (Ticks + t - log'[i].time) \in Int
        <4>1. /\ x + packetTokens' \in Int /\ y + byteTokens' \in Int
              /\ x \in Int /\ y \in Int /\ Ticks + t - log'[i].time \in Int
          <5>1. x \in Int /\ y \in Int
            BY <3>2
          <5>2. Ticks + t - log'[i].time \in Int
            <6>1. Ticks \in Int /\ t \in Int /\ log'[i].time \in Int
              BY <3>1, <1>1, <1>2, SMTT(30), Z3T(30)
            <6> HIDE DEF t
            <6> QED
              BY <6>1
          <5> QED
            BY <5>1, <5>2, <3>3, Grow, ZenonT(60)
        <4>2. Ticks \in Int /\ PacketRate \in Int /\ ByteRate \in Int
          BY <1>2, SMTT(30), Z3T(30)
        <4> HIDE DEF t
        <4> QED
          BY <4>1, <4>2, Regroup, Zenon
      <3>6. /\ PacketRate > 0 => x * Ticks <= PacketRate * (Ticks + t - log'[i].time)
            /\ ByteRate > 0 => y * Ticks <= ByteRate * (Ticks + t - log'[i].time)
        <4>1. /\ PacketRate > 0 =>
                    (x + packetTokens') * Ticks <= PacketRate * (Ticks + t - log'[i].time)
              /\ ByteRate > 0 =>
                    (y + byteTokens') * Ticks <= ByteRate * (Ticks + t - log'[i].time)
          BY <1>9, <3>2, SMTT(30), Z3T(30)
        <4> QED
          BY <4>1, <3>4, <3>5, SMTT(30), Z3T(30)
      <3> QED
        BY <3>6, <2>2, <1>7 DEF x, y
    <2>3. j \in 1 .. len \/ j = len + 1
      BY <1>6
    <2> QED
      BY <2>1, <2>2, <2>3, SMTT(30), Z3T(30)
  <1> QED
    BY <1>5, <1>10, <1>11, SMTT(30), Z3T(30) DEF LimiterInv

\* A refused packet, whose buckets are refilled all the same.
LEMMA RefuseStep ==
    ASSUME LimiterInv, NEW d \in Step, NEW n \in Size, now + d <= Horizon,
           now' = now + d, RefusePacket(now + d, n)
    PROVE  LimiterInv'
  <1> DEFINE t == now + d
             p == Refill(packetTokens, PacketRate, t)
             b == Refill(byteTokens, ByteRate, t)
  <1>1. /\ t \in Nat /\ now <= t /\ lastRefill <= t
        /\ p \in 0 .. PacketRate /\ b \in 0 .. ByteRate
        /\ p * Ticks <= packetTokens * Ticks + PacketRate * (t - lastRefill)
        /\ b * Ticks <= byteTokens * Ticks + ByteRate * (t - lastRefill)
    BY Refilled DEF LimiterInv
  <1>2. /\ packetTokens' = p /\ byteTokens' = b /\ lastRefill' = t /\ now' = t
        /\ log' = log /\ bytes' = bytes /\ since' \in {t, since}
    BY DEF RefusePacket
  <1> HIDE DEF p, b
  <1>3. LimiterTypeOK'
    <2>1. Admission(now) \subseteq Admission(t)
      BY <1>1, SMTT(30), Z3T(30) DEF LimiterInv, LimiterTypeOK, Admission
    <2>2. log \in Seq(Admission(t))
      BY <2>1, SeqMono DEF LimiterInv, LimiterTypeOK
    <2> QED
      BY <1>1, <1>2, <2>2, SMTT(30), Z3T(30) DEF LimiterInv, LimiterTypeOK
  <1>4. /\ log \in Seq(Admission(now))
        /\ bytes \in Nat /\ packetTokens \in Nat /\ byteTokens \in Nat /\ lastRefill \in Nat
    BY LimiterAssumption DEF LimiterInv, LimiterTypeOK
  <1>5. ASSUME NEW i \in 1 .. Len(log)
        PROVE  /\ PacketRate > 0 =>
                    (Len(log) - i + 1 + p) * Ticks <= PacketRate * (Ticks + t - log[i].time)
               /\ ByteRate > 0 =>
                    (bytes - log[i].before + b) * Ticks
                        <= ByteRate * (Ticks + t - log[i].time)
    <2>1. log[i].time \in Nat /\ log[i].before \in Nat /\ Len(log) - i + 1 \in Int
          /\ bytes - log[i].before \in Int
      BY <1>4, LogEntry, SMTT(30), Z3T(30) DEF LimiterInv
    <2>2. /\ PacketRate > 0 =>
                (Len(log) - i + 1 + packetTokens) * Ticks
                    <= PacketRate * (Ticks + lastRefill - log[i].time)
          /\ ByteRate > 0 =>
                (bytes - log[i].before + byteTokens) * Ticks
                    <= ByteRate * (Ticks + lastRefill - log[i].time)
      BY DEF LimiterInv, Credit
    <2>3. PacketRate \in Nat /\ ByteRate \in Nat /\ p \in Nat /\ b \in Nat
      BY <1>1, LimiterAssumption, SMTT(30), Z3T(30)
    <2> QED
      BY <2>1, <2>2, <2>3, <1>1, <1>4, Carry, ZenonT(60)
  <1>6. Credit'
    BY <1>2, <1>5, SMTT(30), Z3T(30) DEF Credit, Ticks
  <1>7. WindowBound'
    BY <1>2 DEF LimiterInv, WindowBound
  <1> QED
    BY <1>3, <1>6, <1>7, SMTT(30), Z3T(30) DEF LimiterInv

\* A packet of a session without limits: no account is kept, none is claimed.
LEMMA UnlimitedStep ==
    ASSUME LimiterInv, NEW d \in Step, NEW n \in Size, now + d <= Horizon,
           now' = now + d, Consume(now + d, n), IsUnlimited
    PROVE  LimiterInv'
  <1>1. LimiterTypeOK'
    <2>1. LimiterTypeOK /\ Admit(now + d, n) /\ PacketRate = 0 /\ ByteRate = 0
      BY DEF LimiterInv, Consume, IsUnlimited
    <2>2. /\ now' \in 0 .. Horizon
          /\ log' \in Seq(Admission(now'))
          /\ bytes' \in Nat /\ since' \in -1 .. now'
      BY <2>1, AdmitType
    <2>3. /\ packetTokens' = Refill(packetTokens, PacketRate, now + d)
          /\ byteTokens' = Refill(byteTokens, ByteRate, now + d)
          /\ lastRefill' = lastRefill
      BY <2>1 DEF Consume, Take, IsUnlimited
    <2>4. packetTokens' \in 0 .. PacketRate /\ byteTokens' \in 0 .. ByteRate /\ now <= now + d
      BY <2>1, <2>3, Refilled, SMTT(30), Z3T(30)
    <2> QED
      BY <2>1, <2>2, <2>3, <2>4, LimiterAssumption DEF LimiterTypeOK
  <1>2. Credit' /\ WindowBound'
    BY DEF IsUnlimited, Credit, WindowBound
  <1> QED
    BY <1>1, <1>2 DEF LimiterInv

\* The invariant holds in every reachable state.
THEOREM LimiterInvariant == LimiterSpec => []LimiterInv
  <1>1. LimiterInv /\ [LimiterNext]_limiter => LimiterInv'
    <2> SUFFICES ASSUME LimiterInv, [LimiterNext]_limiter PROVE LimiterInv'
      OBVIOUS
    <2>1. CASE LimiterNext
      BY <2>1, ConsumeStep, RefuseStep, UnlimitedStep, SMTT(30) DEF LimiterNext
    <2>2. CASE UNCHANGED limiter
      BY <2>2, Zenon DEF limiter, bucket, LimiterInv, LimiterTypeOK, Credit, WindowBound
    <2> QED
      BY <2>1, <2>2
  <1> QED
    BY InitLimiter, <1>1, PTL DEF LimiterSpec

\* The buckets of try_consume_at never wrap below zero nor exceed a second's
\* worth, for every rate and packet size.
THEOREM LimiterTypeCorrect == LimiterSpec => []LimiterTypeOK
  BY LimiterInvariant, PTL DEF LimiterInv

\* In every window, whatever the rates, the sizes and the timing of the calls, a
\* session is admitted at most one burst and what the window's length earns.
THEOREM WindowBounded == LimiterSpec => []WindowBound
  BY LimiterInvariant, PTL DEF LimiterInv
================================================================================
