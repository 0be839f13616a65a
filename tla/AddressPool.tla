------------------------------ MODULE AddressPool ------------------------------
(***************************************************************************)
(* The proxy's dynamic address pool (src/src/address_pool.rs), shared by    *)
(* every session handler.                                                  *)
(*                                                                         *)
(* The free list and the cursor of a family sit behind one mutex.  The     *)
(* reverse index `allocated` and the per-session lists `allocations` are   *)
(* concurrent maps outside it.  An allocation therefore takes two steps:   *)
(* an address is chosen (under the mutex, or by a bare lookup in           *)
(* `allocated` when the client names the address it wants), and only later *)
(* recorded.  The steps below are the points where other handlers can get  *)
(* in between.                                                             *)
(*                                                                         *)
(* An address is <<family, offset>>: offset 0 is the network address,      *)
(* offset 1 the gateway, and the last offset of the IPv4 network its       *)
(* broadcast address.                                                      *)
(***************************************************************************)
EXTENDS Integers

CONSTANTS
    Session,    \* session handlers; a handler that released stands for a later one
    V4Size,     \* addresses in the IPv4 network, 2^(32 - prefix length)
    V6Size,     \* addresses in the IPv6 network, 0 when none is configured
    V6Reach,    \* how many of them the cursor runs through at most, 2^64 in the code
    Named,      \* the addresses that clients ask for by name
    None        \* not a session, not an address

Family == {4, 6}

Addr == ({4} \X (0 .. V4Size - 1)) \cup ({6} \X (0 .. V6Size - 1))

ASSUME PoolAssumption ==
    /\ V4Size \in Nat \ {0}
    /\ V6Size \in Nat
    /\ V6Reach \in Nat
    /\ Named \subseteq Addr
    /\ None \notin Session
    /\ None \notin Addr

VARIABLES
    cursor,       \* cursor[f]: the next offset never handed out
    free,         \* free[f]: the released offsets
    lock,         \* lock[f]: the handler holding the family's mutex, or None
    allocated,    \* allocated[a]: the reverse index, None when absent
    allocations,  \* allocations[s]: the addresses recorded for s
    pc,           \* pc[s]: what the handler is doing
    fam,          \* fam[s]: the family it is allocating from
    cand,         \* cand[s]: the address in its hands, chosen or being released
    pending       \* pending[s]: the addresses its release still has to return

vars == <<cursor, free, lock, allocated, allocations, pc, fam, cand, pending>>

\* Mutant of Limit: the cursor runs up to the broadcast address.
Limit_Broadcast(f) == IF f = 4 THEN V4Size ELSE IF V6Size < V6Reach THEN V6Size ELSE V6Reach

\* The offset at which the cursor stops: the IPv4 broadcast address, or the
\* end of the IPv6 network, of which it runs through 64 bits at most.
Limit(f) == IF f = 4 THEN V4Size - 1 ELSE IF V6Size < V6Reach THEN V6Size ELSE V6Reach

\* The first offset the cursor still hands out: offsets 0 and 1 are skipped.
FirstFresh(f) == IF cursor[f] < 2 THEN 2 ELSE cursor[f]

\* try_allocate_specific's own test, before it consults the reverse index.
\* The network, broadcast and gateway addresses are excluded for IPv4 only.
Grantable(a) ==
    \/ a[1] = 4 /\ a[2] \in 2 .. V4Size - 2
    \/ a[1] = 6 /\ a[2] \in 0 .. V6Size - 1

Init ==
    /\ cursor = [f \in Family |-> 0]
    /\ free = [f \in Family |-> {}]
    /\ lock = [f \in Family |-> None]
    /\ allocated = [a \in Addr |-> None]
    /\ allocations = [s \in Session |-> {}]
    /\ pc = [s \in Session |-> "idle"]
    /\ fam = [s \in Session |-> 4]
    /\ cand = [s \in Session |-> None]
    /\ pending = [s \in Session |-> {}]

-------------------------------------------------------------------------------
(***************************************************************************)
(* Choosing an address.                                                    *)
(***************************************************************************)

\* allocate_v4, allocate_v6, and a request that names no address.
Allocate(s, f) ==
    /\ pc[s] = "idle"
    /\ pc' = [pc EXCEPT ![s] = "lock"]
    /\ fam' = [fam EXCEPT ![s] = f]
    /\ UNCHANGED <<cursor, free, lock, allocated, allocations, cand, pending>>

\* A request that names an address: it is taken when the reverse index does
\* not hold it, with no lock held until it is recorded; otherwise the handler
\* falls back on the pool.
Request(s, a) ==
    /\ pc[s] = "idle"
    /\ IF Grantable(a) /\ allocated[a] = None
       THEN /\ pc' = [pc EXCEPT ![s] = "record"]
            /\ cand' = [cand EXCEPT ![s] = a]
            /\ UNCHANGED fam
       ELSE /\ pc' = [pc EXCEPT ![s] = "lock"]
            /\ fam' = [fam EXCEPT ![s] = a[1]]
            /\ UNCHANGED cand
    /\ UNCHANGED <<cursor, free, lock, allocated, allocations, pending>>

Lock(s) ==
    /\ pc[s] = "lock"
    /\ lock[fam[s]] = None
    /\ lock' = [lock EXCEPT ![fam[s]] = s]
    /\ pc' = [pc EXCEPT ![s] = "scan"]
    /\ UNCHANGED <<cursor, free, allocated, allocations, fam, cand, pending>>

\* The body of the allocation loop for a candidate: an address the reverse
\* index holds is dropped and the loop goes on, with the mutex held.
Consider(s, a) ==
    IF allocated[a] = None
    THEN /\ pc' = [pc EXCEPT ![s] = "record"]
         /\ cand' = [cand EXCEPT ![s] = a]
         /\ lock' = [lock EXCEPT ![fam[s]] = None]
    ELSE UNCHANGED <<pc, cand, lock>>

\* next() pops the smallest released address ...
PopFree(s) ==
    /\ pc[s] = "scan"
    /\ \E o \in free[fam[s]] :
          /\ \A p \in free[fam[s]] : o <= p
          /\ free' = [free EXCEPT ![fam[s]] = @ \ {o}]
          /\ Consider(s, <<fam[s], o>>)
    /\ UNCHANGED <<cursor, allocated, allocations, fam, pending>>

\* ... or, when there is none, advances the cursor ...
Advance(s) ==
    /\ pc[s] = "scan"
    /\ free[fam[s]] = {}
    /\ FirstFresh(fam[s]) < Limit(fam[s])
    /\ cursor' = [cursor EXCEPT ![fam[s]] = FirstFresh(fam[s]) + 1]
    /\ Consider(s, <<fam[s], FirstFresh(fam[s])>>)
    /\ UNCHANGED <<free, allocated, allocations, fam, pending>>

\* ... until the network is used up and the caller gets no address.
Exhausted(s) ==
    /\ pc[s] = "scan"
    /\ free[fam[s]] = {}
    /\ FirstFresh(fam[s]) >= Limit(fam[s])
    /\ cursor' = [cursor EXCEPT ![fam[s]] = IF @ < Limit(fam[s]) THEN Limit(fam[s]) ELSE @]
    /\ lock' = [lock EXCEPT ![fam[s]] = None]
    /\ pc' = [pc EXCEPT ![s] = "idle"]
    /\ UNCHANGED <<free, allocated, allocations, fam, cand, pending>>

\* record: the reverse index, then the session's own list, which no other
\* handler reads.
Record(s) ==
    /\ pc[s] = "record"
    /\ allocated' = [allocated EXCEPT ![cand[s]] = s]
    /\ allocations' = [allocations EXCEPT ![s] = @ \cup {cand[s]}]
    /\ cand' = [cand EXCEPT ![s] = None]
    /\ pc' = [pc EXCEPT ![s] = "idle"]
    /\ UNCHANGED <<cursor, free, lock, fam, pending>>

-------------------------------------------------------------------------------
(***************************************************************************)
(* Returning the addresses of a session.                                   *)
(***************************************************************************)

\* Mutant of Release: the session's list is read, not removed.
Release_Kept(s) ==
    /\ pc[s] = "idle"
    /\ allocations[s] # {}
    /\ pending' = [pending EXCEPT ![s] = allocations[s]]
    /\ pc' = [pc EXCEPT ![s] = "unmap"]
    /\ UNCHANGED <<cursor, free, lock, allocated, allocations, fam, cand>>

\* release takes the session's whole list, then returns address by address:
\* first out of the reverse index, then, under the mutex, onto the free list.
Release(s) ==
    /\ pc[s] = "idle"
    /\ allocations[s] # {}
    /\ pending' = [pending EXCEPT ![s] = allocations[s]]
    /\ allocations' = [allocations EXCEPT ![s] = {}]
    /\ pc' = [pc EXCEPT ![s] = "unmap"]
    /\ UNCHANGED <<cursor, free, lock, allocated, fam, cand>>

Unmap(s) ==
    /\ pc[s] = "unmap"
    /\ \E a \in pending[s] :
          /\ allocated' = [allocated EXCEPT ![a] = None]
          /\ cand' = [cand EXCEPT ![s] = a]
    /\ pc' = [pc EXCEPT ![s] = "refill"]
    /\ UNCHANGED <<cursor, free, lock, allocations, fam, pending>>

\* Mutant of Refill: the address is never put back.
Refill_Dropped(s) ==
    /\ pc[s] = "refill"
    /\ pending' = [pending EXCEPT ![s] = @ \ {cand[s]}]
    /\ cand' = [cand EXCEPT ![s] = None]
    /\ pc' = [pc EXCEPT ![s] = IF pending[s] = {cand[s]} THEN "idle" ELSE "unmap"]
    /\ UNCHANGED <<cursor, free, lock, allocated, allocations, fam>>

Refill(s) ==
    /\ pc[s] = "refill"
    /\ lock[cand[s][1]] = None
    /\ free' = [free EXCEPT ![cand[s][1]] = @ \cup {cand[s][2]}]
    /\ pending' = [pending EXCEPT ![s] = @ \ {cand[s]}]
    /\ cand' = [cand EXCEPT ![s] = None]
    /\ pc' = [pc EXCEPT ![s] = IF pending[s] = {cand[s]} THEN "idle" ELSE "unmap"]
    /\ UNCHANGED <<cursor, lock, allocated, allocations, fam>>

-------------------------------------------------------------------------------
Step(s) ==
    \/ \E f \in Family : Allocate(s, f)
    \/ \E a \in Named : Request(s, a)
    \/ Lock(s)
    \/ PopFree(s)
    \/ Advance(s)
    \/ Exhausted(s)
    \/ Record(s)
    \/ Release(s)
    \/ Unmap(s)
    \/ Refill(s)

Next == \E s \in Session : Step(s)

Spec == Init /\ [][Next]_vars

-------------------------------------------------------------------------------
(***************************************************************************)
(* Properties.                                                             *)
(***************************************************************************)

\* Every variable has its type; a handler that is choosing or returning an
\* address holds one, and only a handler that releases has addresses pending.
TypeOK ==
    /\ cursor \in [Family -> Nat]
    /\ free \in [Family -> SUBSET Nat]
    /\ \A f \in Family : \A o \in free[f] : <<f, o>> \in Addr
    /\ lock \in [Family -> Session \cup {None}]
    /\ allocated \in [Addr -> Session \cup {None}]
    /\ allocations \in [Session -> SUBSET Addr]
    /\ pc \in [Session -> {"idle", "lock", "scan", "record", "unmap", "refill"}]
    /\ fam \in [Session -> Family]
    /\ cand \in [Session -> Addr \cup {None}]
    /\ pending \in [Session -> SUBSET Addr]
    /\ \A s \in Session :
          /\ pc[s] \in {"record", "refill"} => cand[s] \in Addr
          /\ pc[s] \notin {"unmap", "refill"} => pending[s] = {}
          /\ pc[s] = "refill" => cand[s] \in pending[s]

\* A handler has an address in its hands from the moment it chooses it until
\* it has put it back on the free list.
InHands(s, a) ==
    \/ a \in allocations[s]
    \/ a \in pending[s]
    \/ pc[s] = "record" /\ cand[s] = a

\* No address that clients do not ask for by name is recorded for two
\* sessions at once, although it is chosen under the mutex and recorded after
\* the mutex is gone (allocate_v4 and allocate_v6).
ExclusiveLease ==
    \A s, t \in Session : \A a \in (allocations[s] \cap allocations[t]) \ Named : s = t

\* The same for every address, the ones clients name included.  Comments in
\* address_pool.rs promise it: the reverse index guards "against double
\* allocation of specific requests", and a specific request is to be rejected
\* for "anything already handed out".
ExclusiveNamedLease ==
    \A s, t \in Session : \A a \in allocations[s] \cap allocations[t] : s = t

\* No address is lost: every offset the cursor has passed is on the free list
\* or in some handler's hands, also when the address is dropped by the
\* allocation loop because a session obtained it by name.
NothingLost ==
    \A f \in Family : \A o \in 2 .. cursor[f] - 1 :
        \/ o \in free[f]
        \/ \E s \in Session : InHands(s, <<f, o>>)

\* No session is ever given the IPv4 network, gateway or broadcast address,
\* by the cursor, from the free list or by name.
ReservedV4 ==
    \A s \in Session : \A a \in allocations[s] : a[1] = 4 => a[2] \in 2 .. V4Size - 2

\* No session is ever given a gateway address.  The comment in
\* try_allocate_specific says of both families: "Reject the gateway and
\* anything already handed out."
GatewayKept ==
    \A s \in Session : \A a \in allocations[s] : a[2] # 1

\* The pool implements the abstract one for the addresses nobody names.  The
\* lease starts when a handler picks the address and ends when the address is
\* back on the free list.
Holder(a) ==
    IF \E s \in Session : InHands(s, a)
    THEN CHOOSE s \in Session : InHands(s, a)
    ELSE None

Lease == INSTANCE AddressLease WITH
    Leasable <- Addr \ Named,
    owner <- [a \in Addr \ Named |-> Holder(a)]

\* The steps of the pool, seen through Holder, are the grants and the returns
\* of AddressLease.
Leases == Lease!Spec
================================================================================
