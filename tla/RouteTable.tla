------------------------------ MODULE RouteTable ------------------------------
(***************************************************************************)
(* The route table of the forwarding engine                                *)
(* (src/src/forwarding/router.rs): assigned client addresses, and the      *)
(* prefix routes that clients advertise for the networks behind them.      *)
(*                                                                         *)
(* Addresses of the two families are disjoint ranges of numbers.  The      *)
(* vector of routes is a set of entries with their rank in it: the         *)
(* advertisement they came with, the range, and the address.               *)
(***************************************************************************)
EXTENDS Prefixes, Sequences

CONSTANTS
    Session, None,      \* sessions, and what is not one
    Pools,              \* the prefixes of the address pools, pool_nets()
    Protocol,           \* protocol numbers, of which two are special:
    AnyProtocol, Icmp,  \* 0 in a range, and ICMP in a packet
    Advertisement,      \* the ROUTE_ADVERTISEMENTs that clients may send: sequences
                        \* of ranges [lo, hi, protocol]
    MaxPrefixes,        \* MAX_CLIENT_ROUTE_PREFIXES
    MaxAdvertisements   \* bound: how many advertisements are processed

ASSUME RouteAssumption ==
    /\ Addr \subseteq Nat /\ IsFiniteSet(Addr) /\ Prefix \subseteq SUBSET Addr /\ Pools \subseteq Prefix
    /\ \A p \in Prefix : \E a \in p : \A b \in p : a <= b
    /\ \A a \in Addr : {a} \in Prefix
    /\ \A p, q \in Prefix : p \cap q = {} \/ p \subseteq q \/ q \subseteq p
    /\ None \notin Session /\ MaxPrefixes \in Nat /\ MaxAdvertisements \in Nat
    /\ Advertisement \subseteq Seq([lo : Addr, hi : Addr, protocol : Protocol])
    /\ \A ranges \in Advertisement : \A i \in DOMAIN ranges : ranges[i].lo .. ranges[i].hi \subseteq Addr

VARIABLES
    clientAddrs,    \* address -> session, or None
    routes,         \* the prefix routes
    adverts,        \* how many advertisements were processed
    latest          \* history: the last advertisement of each session

table == <<clientAddrs, routes, adverts, latest>>

TableInit ==
    /\ clientAddrs = [a \in Addr |-> None]
    /\ routes = {}
    /\ adverts = 0
    /\ latest = [s \in Session |-> <<>>]

-------------------------------------------------------------------------------
\* Mutant of Overlaps: only prefixes inside a pool are noticed.
Overlaps_Inside(a, b) == Network(b) \in a

Overlaps(a, b) == Network(b) \in a \/ Network(a) \in b

\* A range is taken as a whole, if none of its prefixes overlaps a pool.
Accepted(ranges) ==
    {i \in DOMAIN ranges : \A p \in Subnets(ranges[i]), d \in Pools : ~Overlaps(d, p)}

Offered(ranges) ==
    {x \in Accepted(ranges) \X Prefix : x[2] \in Subnets(ranges[x[1]])}

Precedes(x, y) == x[1] < y[1] \/ (x[1] = y[1] /\ Network(x[2]) < Network(y[2]))

\* entries_from_client_ranges: in order, up to the cap.
EntriesFromClientRanges(s, ranges) ==
    {[prefix |-> x[2], protocol |-> ranges[x[1]].protocol, session |-> s,
      rank |-> <<adverts, x[1], Network(x[2])>>] :
        x \in {y \in Offered(ranges) :
                 Cardinality({z \in Offered(ranges) : Precedes(z, y)}) < MaxPrefixes}}

\* Mutant of ReplaceSessionRoutes: the routes of the last advertisement stay.
ReplaceSessionRoutes_Added(s, ranges) ==
    /\ adverts < MaxAdvertisements
    /\ adverts' = adverts + 1
    /\ latest' = [latest EXCEPT ![s] = ranges]
    /\ routes' = routes \cup EntriesFromClientRanges(s, ranges)
    /\ UNCHANGED clientAddrs

\* replace_session_routes, for a ROUTE_ADVERTISEMENT of s.
ReplaceSessionRoutes(s, ranges) ==
    /\ adverts < MaxAdvertisements
    /\ adverts' = adverts + 1
    /\ latest' = [latest EXCEPT ![s] = ranges]
    /\ routes' = {r \in routes : r.session # s} \cup EntriesFromClientRanges(s, ranges)
    /\ UNCHANGED clientAddrs

\* Mutant of InsertClientAddr: an entry that is there stays.
InsertClientAddr_IfAbsent(a, s) ==
    /\ clientAddrs' = [clientAddrs EXCEPT ![a] = IF @ = None THEN s ELSE @]
    /\ UNCHANGED <<routes, adverts, latest>>

InsertClientAddr(a, s) ==
    /\ clientAddrs' = [clientAddrs EXCEPT ![a] = s]
    /\ UNCHANGED <<routes, adverts, latest>>

\* remove_session retains the addresses of the others, and then the routes.
RemoveAddrs(s) ==
    /\ clientAddrs' = [a \in Addr |-> IF clientAddrs[a] = s THEN None ELSE clientAddrs[a]]
    /\ UNCHANGED <<routes, adverts, latest>>

RemoveRoutes(s) ==
    /\ routes' = {r \in routes : r.session # s}
    /\ latest' = [latest EXCEPT ![s] = <<>>]
    /\ UNCHANGED <<clientAddrs, adverts>>

-------------------------------------------------------------------------------
Covers(protocol, proto) == protocol = AnyProtocol \/ protocol = proto \/ proto = Icmp

Matching(dst, proto) == {r \in routes : dst \in r.prefix /\ Covers(r.protocol, proto)}

Later(x, y) ==
    \/ x[1] > y[1]
    \/ x[1] = y[1] /\ (x[2] > y[2] \/ (x[2] = y[2] /\ x[3] > y[3]))

\* The longest prefix, and the last in the table among equals (max_by_key).
LookupRoute(dst, proto) ==
    LET m == Matching(dst, proto)
        best == {r \in m : \A q \in m : Cardinality(r.prefix) <= Cardinality(q.prefix)}
        last == {r \in best : \A q \in best : q # r => Later(r.rank, q.rank)}
    IN  IF last = {} THEN None ELSE (CHOOSE r \in last : TRUE).session

-------------------------------------------------------------------------------
\* "Accepting those would hijack other clients" (entries_from_client_ranges): no
\* prefix route covers an address of a pool, so an address that is not assigned
\* at the moment is routed to nobody rather than to whoever advertised it.
PoolNotHijacked == \A r \in routes, d \in Pools : r.prefix \cap d = {}

\* "Full-state semantics of ROUTE_ADVERTISEMENT" (replace_session_routes): the
\* routes of a session reach exactly the ranges of its last advertisement that
\* keep clear of the pools, or a part of them once the cap is reached.
RoutesAreAdvertised ==
    \A s \in Session, c \in Protocol :
        LET ranges == latest[s]
            kept == {i \in DOMAIN ranges :
                        /\ ranges[i].protocol = c
                        /\ (ranges[i].lo .. ranges[i].hi) \cap UNION Pools = {}}
            claimed == UNION {ranges[i].lo .. ranges[i].hi : i \in kept}
            own == {r \in routes : r.session = s}
            reached == UNION {r.prefix : r \in {q \in own : q.protocol = c}}
        IN  /\ reached \subseteq claimed
            /\ Cardinality(own) <= MaxPrefixes
            /\ Cardinality(own) < MaxPrefixes => claimed \subseteq reached
================================================================================
