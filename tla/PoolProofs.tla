------------------------------ MODULE PoolProofs ------------------------------
(***************************************************************************)
(* Proofs about AddressPool, for any sessions, network sizes and set of    *)
(* named addresses; and about UdpBind, for any relay addresses and ports.  *)
(***************************************************************************)
EXTENDS AddressPool, UdpBind, TLAPS

\* An address is the pair of its family and its offset, and its family has a
\* pool.
LEMMA AddrPair ==
    ASSUME NEW a \in Addr
    PROVE  a = <<a[1], a[2]>> /\ a[1] \in Family /\ a[2] \in Nat
BY PoolAssumption DEF Addr, Family

\* What the cursor hands out is an address of the family's network.
LEMMA FreshAddr ==
    ASSUME TypeOK, NEW f \in Family, FirstFresh(f) < Limit(f)
    PROVE  <<f, FirstFresh(f)>> \in Addr /\ FirstFresh(f) \in Nat
BY PoolAssumption DEF TypeOK, Family, FirstFresh, Limit, Addr

\* What looking at a candidate leaves behind: the handler goes on scanning, or
\* it has the candidate in its hands and the mutex is released.
Considered(s, a) ==
    /\ lock' \in [Family -> Session \cup {None}]
    /\ pc' \in [Session -> {"idle", "lock", "scan", "record", "unmap", "refill"}]
    /\ cand' \in [Session -> Addr \cup {None}]
    /\ \A t \in Session : t # s => pc'[t] = pc[t] /\ cand'[t] = cand[t]
    /\ \/ pc'[s] = pc[s] /\ cand'[s] = cand[s] /\ allocated[a] # None
       \/ pc'[s] = "record" /\ cand'[s] = a

\* Looking at a candidate (the loops of allocate_v4 and allocate_v6) does that.
LEMMA ConsiderTypes ==
    ASSUME TypeOK, NEW s \in Session, NEW a \in Addr, fam[s] \in Family, Consider(s, a)
    PROVE  Considered(s, a)
<1>1. CASE allocated[a] = None
  BY <1>1, ZenonT(60) DEF TypeOK, Consider, Considered
<1>2. CASE allocated[a] # None
  BY <1>2 DEF TypeOK, Consider, Considered
<1>3. QED BY <1>1, <1>2

\* The handlers' part of TypeOK after a candidate was looked at.
LEMMA ConsideredHands ==
    ASSUME TypeOK, NEW s \in Session, NEW a \in Addr, pc[s] = "scan", Considered(s, a),
           NEW t \in Session
    PROVE  /\ pc'[t] \in {"record", "refill"} => cand'[t] \in Addr
           /\ pc'[t] \notin {"unmap", "refill"} => pending[t] = {}
           /\ pc'[t] = "refill" => cand'[t] \in pending[t]
<1>1. CASE t # s
  BY <1>1 DEF TypeOK, Considered
<1>2. CASE t = s
  BY <1>2 DEF TypeOK, Considered
<1>3. QED BY <1>1, <1>2

\* Every step keeps the types.
LEMMA TypeStep ==
    ASSUME TypeOK, [Next]_vars
    PROVE  TypeOK'
<1> USE PoolAssumption
<1>1. ASSUME NEW s \in Session, NEW f \in Family, Allocate(s, f) PROVE TypeOK'
  BY <1>1 DEF TypeOK, Allocate
<1>2. ASSUME NEW s \in Session, NEW a \in Named, Request(s, a) PROVE TypeOK'
  <2>1. a \in Addr /\ a[1] \in Family
    BY AddrPair
  <2>2. CASE Grantable(a) /\ allocated[a] = None
    BY <1>2, <2>1, <2>2, SMTT(30), Z3T(30) DEF TypeOK, Request
  <2>3. CASE ~(Grantable(a) /\ allocated[a] = None)
    BY <1>2, <2>1, <2>3, SMTT(30), Z3T(30) DEF TypeOK, Request
  <2>4. QED BY <2>2, <2>3
<1>3. ASSUME NEW s \in Session, Lock(s) PROVE TypeOK'
  BY <1>3 DEF TypeOK, Lock
<1>4. ASSUME NEW s \in Session, PopFree(s) PROVE TypeOK'
  <2>1. PICK o \in free[fam[s]] :
           /\ free' = [free EXCEPT ![fam[s]] = @ \ {o}]
           /\ Consider(s, <<fam[s], o>>)
    BY <1>4, Zenon DEF PopFree
  <2> DEFINE a == <<fam[s], o>>
  <2>2. fam[s] \in Family /\ a \in Addr
    BY DEF TypeOK
  <2>3. Considered(s, a)
    BY <2>1, <2>2, ConsiderTypes
  <2>4. /\ free' \in [Family -> SUBSET Nat]
        /\ \A f \in Family : \A p \in free'[f] : <<f, p>> \in Addr
    BY <2>1, <2>2 DEF TypeOK
  <2>5. pc[s] = "scan" /\ UNCHANGED <<cursor, allocated, allocations, fam, pending>>
    BY <1>4 DEF PopFree
  <2>6. \A t \in Session :
           /\ pc'[t] \in {"record", "refill"} => cand'[t] \in Addr
           /\ pc'[t] \notin {"unmap", "refill"} => pending'[t] = {}
           /\ pc'[t] = "refill" => cand'[t] \in pending'[t]
    BY <2>2, <2>3, <2>5, ConsideredHands
  <2>7. QED
    BY <2>3, <2>4, <2>5, <2>6, ZenonT(60) DEF TypeOK, Considered
<1>5. ASSUME NEW s \in Session, Advance(s) PROVE TypeOK'
  <2> DEFINE a == <<fam[s], FirstFresh(fam[s])>>
  <2>1. fam[s] \in Family /\ a \in Addr /\ FirstFresh(fam[s]) \in Nat
    BY <1>5, FreshAddr DEF TypeOK, Advance
  <2>2. cursor' \in [Family -> Nat]
    BY <1>5, <2>1 DEF TypeOK, Advance
  <2>3. Considered(s, a)
    BY <1>5, <2>1, ConsiderTypes DEF Advance
  <2>4. pc[s] = "scan" /\ UNCHANGED <<free, allocated, allocations, fam, pending>>
    BY <1>5 DEF Advance
  <2>5. QED
    BY <2>1, <2>2, <2>3, <2>4, ConsideredHands, ZenonT(60) DEF TypeOK, Considered
<1>6. ASSUME NEW s \in Session, Exhausted(s) PROVE TypeOK'
  <2>1. fam[s] \in Family /\ Limit(fam[s]) \in Nat
    BY DEF TypeOK, Limit, Family
  <2>2. cursor' \in [Family -> Nat]
    BY <1>6, <2>1 DEF TypeOK, Exhausted
  <2>3. QED BY <1>6, <2>1, <2>2 DEF TypeOK, Exhausted
<1>7. ASSUME NEW s \in Session, Record(s) PROVE TypeOK'
  BY <1>7 DEF TypeOK, Record
<1>8. ASSUME NEW s \in Session, Release(s) PROVE TypeOK'
  BY <1>8 DEF TypeOK, Release
<1>9. ASSUME NEW s \in Session, Unmap(s) PROVE TypeOK'
  BY <1>9 DEF TypeOK, Unmap
<1>10. ASSUME NEW s \in Session, Refill(s) PROVE TypeOK'
  <2>1. /\ cand[s] \in Addr /\ cand[s] = <<cand[s][1], cand[s][2]>>
        /\ cand[s][1] \in Family /\ cand[s][2] \in Nat
    BY <1>10, AddrPair DEF TypeOK, Refill
  <2>2. /\ free' \in [Family -> SUBSET Nat]
        /\ \A f \in Family : \A o \in free'[f] : <<f, o>> \in Addr
    BY <1>10, <2>1, SMTT(30), Z3T(30) DEF TypeOK, Refill
  <2>3. QED BY <1>10, <2>1, <2>2 DEF TypeOK, Refill
<1>11. CASE UNCHANGED vars
  BY <1>11 DEF TypeOK, vars
<1>12. QED
  BY <1>1, <1>2, <1>3, <1>4, <1>5, <1>6, <1>7, <1>8, <1>9, <1>10, <1>11 DEF Next, Step

\* Type correctness of the whole pool (all of address_pool.rs).
THEOREM TypeCorrect == Spec => []TypeOK
<1>1. Init => TypeOK
  BY PoolAssumption DEF Init, TypeOK, Family
<1>2. QED
  BY <1>1, TypeStep, PTL DEF Spec

-------------------------------------------------------------------------------
(***************************************************************************)
(* How each action changes who has an address in hands.                    *)
(***************************************************************************)

\* Nothing changes hands while a handler waits for the mutex, finds nothing,
\* records what it has, or walks the list it is releasing.
SameHands == \A t \in Session, b \in Addr : InHands(t, b)' <=> InHands(t, b)

\* Those steps of allocate and release leave every address where it is.
LEMMA QuietHands ==
    ASSUME TypeOK, NEW s \in Session,
           \/ \E f \in Family : Allocate(s, f)
           \/ Lock(s) \/ Exhausted(s) \/ Record(s) \/ Release(s) \/ Unmap(s)
    PROVE  SameHands
<1>1. CASE \E f \in Family : Allocate(s, f)
  BY <1>1 DEF TypeOK, Allocate, InHands, SameHands
<1>2. CASE Lock(s)
  BY <1>2 DEF TypeOK, Lock, InHands, SameHands
<1>3. CASE Exhausted(s)
  BY <1>3 DEF TypeOK, Exhausted, InHands, SameHands
<1>4. CASE Record(s)
  BY <1>4 DEF TypeOK, Record, InHands, SameHands
<1>5. CASE Release(s)
  BY <1>5, SMTT(30), Z3T(30) DEF TypeOK, Release, InHands, SameHands
<1>6. CASE Unmap(s)
  BY <1>6 DEF TypeOK, Unmap, InHands, SameHands
<1>7. QED BY <1>1, <1>2, <1>3, <1>4, <1>5, <1>6

\* A handler takes an address, and nothing else changes hands.
Takes(s, a) ==
    \A t \in Session, b \in Addr : InHands(t, b)' <=> InHands(t, b) \/ (t = s /\ b = a)

\* Looking at a candidate takes it exactly when the reverse index lacks it.
LEMMA ConsiderHands ==
    ASSUME TypeOK, NEW s \in Session, NEW a \in Addr, pc[s] = "scan", Consider(s, a),
           UNCHANGED <<allocations, pending>>
    PROVE  IF allocated[a] = None THEN Takes(s, a) ELSE SameHands
<1>1. CASE allocated[a] = None
  BY <1>1 DEF TypeOK, Consider, InHands, Takes
<1>2. CASE allocated[a] # None
  BY <1>2 DEF TypeOK, Consider, InHands, SameHands
<1>3. QED BY <1>1, <1>2

\* A request by name takes the address it names, or nothing (try_allocate_specific).
LEMMA RequestHands ==
    ASSUME TypeOK, NEW s \in Session, NEW a \in Named, Request(s, a)
    PROVE  SameHands \/ Takes(s, a)
<1>1. CASE Grantable(a) /\ allocated[a] = None
  <2>1. Takes(s, a)
    BY <1>1, PoolAssumption DEF TypeOK, Request, InHands, Takes
  <2>2. QED BY <2>1
<1>2. CASE ~(Grantable(a) /\ allocated[a] = None)
  <2>1. SameHands
    BY <1>2, PoolAssumption DEF TypeOK, Request, InHands, SameHands
  <2>2. QED BY <2>1
<1>3. QED BY <1>1, <1>2

\* Putting an address back on the free list is the only way out of a handler's
\* hands; it holds because release took the session's whole list away first.
LEMMA RefillHands ==
    ASSUME TypeOK, NEW s \in Session, Refill(s), allocations[s] = {}
    PROVE  \A t \in Session, b \in Addr :
              InHands(t, b)' <=> InHands(t, b) /\ ~(t = s /\ b = cand[s])
BY SMTT(30), Z3T(30) DEF TypeOK, Refill, InHands

-------------------------------------------------------------------------------
(***************************************************************************)
(* Exclusive leases.                                                       *)
(***************************************************************************)

\* ExclusiveLease is not inductive: it says nothing about an address that was
\* chosen and not yet recorded.  The strengthening places every address that
\* nobody names: it is on the free list, or not reached by the cursor, or in
\* the hands of one handler.
Placed(a) ==
    /\ \A s, t \in Session : InHands(s, a) /\ InHands(t, a) => s = t
    /\ a[2] \in free[a[1]] => \A s \in Session : ~InHands(s, a)
    /\ a[2] >= cursor[a[1]] => \A s \in Session : ~InHands(s, a)
    /\ a[2] >= cursor[a[1]] => a[2] \notin free[a[1]]

LeaseInv ==
    /\ \A a \in Addr \ Named : Placed(a)
    /\ \A s \in Session : pc[s] \in {"unmap", "refill"} => allocations[s] = {}

\* The second conjunct: release empties the session's list, and only record
\* adds to it.
LEMMA ListEmptied ==
    ASSUME TypeOK, LeaseInv, [Next]_vars
    PROVE  \A t \in Session : pc'[t] \in {"unmap", "refill"} => allocations'[t] = {}
<1> USE DEF TypeOK, LeaseInv
<1>1. ASSUME NEW s \in Session, NEW f \in Family, Allocate(s, f)
      PROVE  \A t \in Session : pc'[t] \in {"unmap", "refill"} => allocations'[t] = {}
  BY <1>1 DEF Allocate
<1>2. ASSUME NEW s \in Session, NEW a \in Named, Request(s, a)
      PROVE  \A t \in Session : pc'[t] \in {"unmap", "refill"} => allocations'[t] = {}
  BY <1>2 DEF Request
<1>3. ASSUME NEW s \in Session, NEW a, Consider(s, a), UNCHANGED allocations
      PROVE  \A t \in Session : pc'[t] \in {"unmap", "refill"} => allocations'[t] = {}
  BY <1>3 DEF Consider
<1>4. ASSUME NEW s \in Session, PopFree(s) \/ Advance(s)
      PROVE  \A t \in Session : pc'[t] \in {"unmap", "refill"} => allocations'[t] = {}
  BY <1>3, <1>4, ZenonT(60) DEF PopFree, Advance
<1>5. ASSUME NEW s \in Session,
             Lock(s) \/ Exhausted(s) \/ Record(s) \/ Release(s) \/ Unmap(s) \/ Refill(s)
      PROVE  \A t \in Session : pc'[t] \in {"unmap", "refill"} => allocations'[t] = {}
  BY <1>5 DEF Lock, Exhausted, Record, Release, Unmap, Refill
<1>6. CASE UNCHANGED vars
  BY <1>6 DEF vars
<1>7. QED BY <1>1, <1>2, <1>4, <1>5, <1>6 DEF Next, Step

\* The inductive invariant behind ExclusiveLease.
THEOREM LeaseInvariant == Spec => []LeaseInv
<1>1. Init => LeaseInv
  BY PoolAssumption, AddrPair DEF Init, LeaseInv, Placed, InHands, Family
<1>2. TypeOK /\ LeaseInv /\ [Next]_vars => LeaseInv'
  <2> SUFFICES ASSUME TypeOK, LeaseInv, [Next]_vars PROVE LeaseInv'
    OBVIOUS
  <2> SUFFICES ASSUME NEW b \in Addr \ Named PROVE Placed(b)'
    BY ListEmptied DEF LeaseInv
  <2>b. /\ b \in Addr /\ b = <<b[1], b[2]>> /\ b[1] \in Family /\ b[2] \in Nat
        /\ Placed(b)
    BY AddrPair DEF LeaseInv
  <2>1. ASSUME SameHands, UNCHANGED <<free, cursor>> PROVE Placed(b)'
    BY <2>1, <2>b DEF Placed, SameHands
  <2>2. ASSUME NEW s \in Session, NEW f \in Family, Allocate(s, f) PROVE Placed(b)'
    BY <2>1, <2>2, QuietHands, Zenon DEF Allocate
  <2>3. ASSUME NEW s \in Session, NEW a \in Named, Request(s, a) PROVE Placed(b)'
    <3>1. UNCHANGED <<free, cursor>> /\ b # a
      BY <2>3 DEF Request
    <3>2. CASE SameHands
      BY <2>1, <3>1, <3>2
    <3>3. CASE Takes(s, a)
      BY <2>b, <3>1, <3>3, SMTT(30), Z3T(30) DEF Placed, Takes
    <3>4. QED BY <2>3, <3>2, <3>3, RequestHands
  <2>4. ASSUME NEW s \in Session, Lock(s) \/ Record(s) \/ Release(s) \/ Unmap(s)
        PROVE  Placed(b)'
    BY <2>1, <2>4, QuietHands DEF Lock, Record, Release, Unmap
  <2>5. ASSUME NEW s \in Session, Exhausted(s) PROVE Placed(b)'
    <3>1. SameHands /\ free' = free
      BY <2>5, QuietHands, Zenon DEF Exhausted
    <3>2. cursor'[b[1]] >= cursor[b[1]] /\ cursor'[b[1]] \in Nat /\ cursor[b[1]] \in Nat
      <4>1. fam[s] \in Family /\ Limit(fam[s]) \in Nat /\ cursor \in [Family -> Nat]
        BY PoolAssumption DEF TypeOK, Limit, Family
      <4>2. QED BY <2>5, <2>b, <4>1 DEF Exhausted
    <3>3. b[2] >= cursor'[b[1]] => b[2] >= cursor[b[1]]
      BY <2>b, <3>2, SMTT(30), Z3T(30)
    <3>4. QED BY <2>b, <3>1, <3>3 DEF Placed, SameHands
  <2>6. ASSUME NEW s \in Session, PopFree(s) PROVE Placed(b)'
    <3>1. PICK o \in free[fam[s]] :
             /\ free' = [free EXCEPT ![fam[s]] = @ \ {o}]
             /\ Consider(s, <<fam[s], o>>)
      BY <2>6, Zenon DEF PopFree
    <3> DEFINE a == <<fam[s], o>>
    <3>2. /\ fam[s] \in Family /\ a \in Addr /\ pc[s] = "scan"
          /\ UNCHANGED <<cursor, allocations, pending>>
      BY <2>6 DEF TypeOK, PopFree
    <3>3. b[2] \in free'[b[1]] <=> b[2] \in free[b[1]] /\ b # a
      BY <2>b, <3>1, <3>2 DEF TypeOK
    <3>4. b = a => /\ b[2] \in free[b[1]]
                   /\ ~(b[2] >= cursor[b[1]])
      BY <2>b DEF Placed
    <3>5. CASE SameHands
      BY <2>b, <3>2, <3>3, <3>5 DEF Placed, SameHands
    <3>6. CASE Takes(s, a)
      BY <2>b, <3>2, <3>3, <3>4, <3>6 DEF Placed, Takes
    <3>7. QED BY <3>1, <3>2, <3>5, <3>6, ConsiderHands
  <2>7. ASSUME NEW s \in Session, Advance(s) PROVE Placed(b)'
    <3> DEFINE f == fam[s]
               a == <<f, FirstFresh(f)>>
    <3>1. /\ f \in Family /\ a \in Addr /\ pc[s] = "scan" /\ Consider(s, a)
          /\ UNCHANGED <<free, allocations, pending>>
      BY <2>7, FreshAddr, SMTT(30), Z3T(30) DEF TypeOK, Advance
    <3>2. /\ cursor[f] \in Nat /\ FirstFresh(f) \in Nat /\ FirstFresh(f) >= cursor[f]
          /\ cursor' = [cursor EXCEPT ![f] = FirstFresh(f) + 1]
          /\ cursor \in [Family -> Nat]
      BY <2>7, <3>1 DEF TypeOK, FirstFresh, Advance
    <3>3. b[2] >= cursor'[b[1]] => b[2] >= cursor[b[1]] /\ b # a
      BY <2>b, <3>1, <3>2
    <3>4. b = a => /\ b[2] >= cursor[b[1]]
                   /\ ~(b[2] >= cursor'[b[1]])
      BY <2>b, <3>1, <3>2
    <3>5. CASE SameHands
      BY <2>b, <3>1, <3>3, <3>5 DEF Placed, SameHands
    <3>6. CASE Takes(s, a)
      BY <2>b, <3>1, <3>3, <3>4, <3>6 DEF Placed, Takes
    <3>7. QED BY <3>1, <3>5, <3>6, ConsiderHands, SMTT(30), Z3T(30)
  <2>8. ASSUME NEW s \in Session, Refill(s) PROVE Placed(b)'
    <3> DEFINE a == cand[s]
    <3>1. /\ a \in Addr /\ a = <<a[1], a[2]>> /\ a[1] \in Family
          /\ a \in pending[s] /\ allocations[s] = {} /\ cursor' = cursor
          /\ free' = [free EXCEPT ![a[1]] = @ \cup {a[2]}]
      BY <2>8, AddrPair DEF TypeOK, LeaseInv, Refill
    <3>2. \A t \in Session : InHands(t, b)' <=> InHands(t, b) /\ ~(t = s /\ b = a)
      BY <2>8, <2>b, <3>1, RefillHands
    <3>3. b[2] \in free'[b[1]] <=> b[2] \in free[b[1]] \/ b = a
      BY <2>b, <3>1, SMTT(30), Z3T(30) DEF TypeOK
    <3>4. InHands(s, a)
      BY <3>1 DEF InHands
    <3>5. QED BY <2>b, <3>1, <3>2, <3>3, <3>4 DEF Placed
  <2>9. CASE UNCHANGED vars
    <3>1. SameHands /\ UNCHANGED <<free, cursor>>
      BY <2>9 DEF vars, SameHands, InHands
    <3>2. QED BY <2>1, <3>1
  <2>10. QED
    BY <2>2, <2>3, <2>4, <2>5, <2>6, <2>7, <2>8, <2>9 DEF Next, Step
<1>3. QED
  BY <1>1, <1>2, TypeCorrect, PTL DEF Spec

\* Two sessions never hold the same address, unless a client named it
\* (allocate_v4, allocate_v6, record and release against each other).
THEOREM LeaseExclusive == Spec => []ExclusiveLease
<1>1. TypeOK /\ LeaseInv => ExclusiveLease
  BY DEF TypeOK, LeaseInv, Placed, InHands, ExclusiveLease
<1>2. QED
  BY <1>1, TypeCorrect, LeaseInvariant, PTL

-------------------------------------------------------------------------------
(***************************************************************************)
(* The pool implements AddressLease.                                       *)
(***************************************************************************)

\* Under the invariant, Holder(a) is the one handler with a in its hands.
LEMMA HolderIs ==
    LeaseInv => \A a \in Addr \ Named :
        /\ \A s \in Session : InHands(s, a) => Holder(a) = s
        /\ (\A s \in Session : ~InHands(s, a)) => Holder(a) = None
<1> SUFFICES ASSUME LeaseInv, NEW a \in Addr \ Named
             PROVE  /\ \A s \in Session : InHands(s, a) => Holder(a) = s
                    /\ (\A s \in Session : ~InHands(s, a)) => Holder(a) = None
  OBVIOUS
<1>1. ASSUME NEW s \in Session, InHands(s, a) PROVE Holder(a) = s
  <2>1. \E t \in Session : InHands(t, a)
    BY <1>1
  <2>2. /\ (CHOOSE t \in Session : InHands(t, a)) \in Session
        /\ InHands(CHOOSE t \in Session : InHands(t, a), a)
    BY <2>1
  <2>3. QED BY <1>1, <2>1, <2>2 DEF Holder, LeaseInv, Placed
<1>2. (\A s \in Session : ~InHands(s, a)) => Holder(a) = None
  BY DEF Holder
<1>3. QED BY <1>1, <1>2

\* Through Holder, every step of the pool is a grant, a return or nothing at
\* all, for the addresses nobody names.
THEOREM PoolLeases == Spec => Leases
<1> DEFINE owner == [a \in Addr \ Named |-> Holder(a)]
<1>1. Init => Lease!Init
  BY PoolAssumption DEF Init, Lease!Init, Holder, InHands
<1>2. TypeOK /\ LeaseInv /\ LeaseInv' /\ [Next]_vars => [Lease!Next]_owner
  <2> SUFFICES ASSUME TypeOK, LeaseInv, LeaseInv', [Next]_vars
               PROVE  Lease!Next \/ owner' = owner
    OBVIOUS
  <2>a. \A a \in Addr \ Named :
           /\ \A s \in Session : InHands(s, a) => Holder(a) = s
           /\ (\A s \in Session : ~InHands(s, a)) => Holder(a) = None
    BY HolderIs
  <2>b. (LeaseInv => \A a \in Addr \ Named :
           /\ \A s \in Session : InHands(s, a) => Holder(a) = s
           /\ (\A s \in Session : ~InHands(s, a)) => Holder(a) = None)'
    BY HolderIs, PTL
  <2>c. \A a \in Addr \ Named :
           /\ \A s \in Session : InHands(s, a)' => Holder(a)' = s
           /\ (\A s \in Session : ~InHands(s, a)') => Holder(a)' = None
    BY <2>b
  <2>1. ASSUME NEW b \in Addr \ Named,
               \A t \in Session : InHands(t, b)' <=> InHands(t, b)
        PROVE  Holder(b)' = Holder(b)
    BY <2>1, <2>a, <2>c
  <2>2. ASSUME SameHands PROVE owner' = owner
    <3>1. \A b \in Addr \ Named : Holder(b)' = Holder(b)
      BY <2>1, <2>2 DEF SameHands
    <3>2. QED BY <3>1
  <2>3. ASSUME NEW s \in Session, NEW a \in Addr, Takes(s, a) PROVE Lease!Next \/ owner' = owner
    <3>1. \A b \in Addr \ Named : b # a => Holder(b)' = Holder(b)
      BY <2>1, <2>3 DEF Takes
    <3>2. CASE a \in Named \/ InHands(s, a)
      <4>1. \A b \in Addr \ Named : Holder(b)' = Holder(b)
        BY <2>1, <2>3, <3>1, <3>2 DEF Takes
      <4>2. QED BY <4>1
    <3>3. CASE a \notin Named /\ ~InHands(s, a)
      <4>1. InHands(s, a)' /\ Holder(a)' = s
        BY <2>3, <2>c, <3>3, SMTT(30), Z3T(30) DEF Takes
      <4>2. \A t \in Session : ~InHands(t, a)
        BY <2>3, <3>3, <4>1 DEF Takes, LeaseInv, Placed
      <4>3. Holder(a) = None
        BY <2>a, <3>3, <4>2
      <4>4. owner[a] = None /\ owner' = [owner EXCEPT ![a] = s]
        BY <3>1, <3>3, <4>1, <4>3, Zenon
      <4>5. Lease!Grant(s, a)
        BY <4>4 DEF Lease!Grant
      <4>6. QED BY <3>3, <4>5 DEF Lease!Next
    <3>4. QED BY <3>2, <3>3
  <2>4. ASSUME NEW s \in Session, Refill(s) PROVE Lease!Next \/ owner' = owner
    <3>0. PICK a \in Addr : a = cand[s]
      BY <2>4, SMTT(30), Z3T(30) DEF TypeOK, Refill
    <3>1. a \in pending[s] /\ allocations[s] = {}
      BY <2>4, <3>0, SMTT(30), Z3T(30) DEF TypeOK, LeaseInv, Refill
    <3>2. \A t \in Session, b \in Addr :
             InHands(t, b)' <=> InHands(t, b) /\ ~(t = s /\ b = a)
      BY <2>4, <3>0, <3>1, RefillHands
    <3>3. \A b \in Addr \ Named : b # a => Holder(b)' = Holder(b)
      BY <2>1, <3>2
    <3>4. CASE a \in Named
      <4>1. \A b \in Addr \ Named : Holder(b)' = Holder(b)
        BY <3>3, <3>4
      <4>2. QED BY <4>1
    <3>5. CASE a \notin Named
      <4>1. InHands(s, a)
        BY <3>1 DEF InHands
      <4>2. Holder(a) = s
        BY <2>a, <3>1, <3>5, <4>1, SMTT(30), Z3T(30)
      <4>3. \A t \in Session : ~InHands(t, a)'
        BY <3>1, <3>2, <3>5, <4>1 DEF LeaseInv, Placed
      <4>4. Holder(a)' = None
        BY <2>c, <3>1, <3>5, <4>3
      <4>5. owner[a] = s /\ owner' = [owner EXCEPT ![a] = None]
        BY <3>1, <3>3, <3>5, <4>2, <4>4, ZenonT(30)
      <4>6. Lease!Return(s, a)
        BY <4>5 DEF Lease!Return
      <4>7. QED BY <3>1, <3>5, <4>6 DEF Lease!Next
    <3>6. QED BY <3>4, <3>5
  <2>5. ASSUME NEW s \in Session, NEW a \in Named, Request(s, a)
        PROVE  Lease!Next \/ owner' = owner
    <3>1. a \in Addr
      BY PoolAssumption
    <3>2. QED BY <2>2, <2>3, <2>5, <3>1, RequestHands
  <2>6. ASSUME NEW s \in Session, PopFree(s) PROVE Lease!Next \/ owner' = owner
    <3>1. PICK o \in free[fam[s]] : Consider(s, <<fam[s], o>>)
      BY <2>6 DEF PopFree
    <3>2. <<fam[s], o>> \in Addr /\ pc[s] = "scan" /\ UNCHANGED <<allocations, pending>>
      BY <2>6 DEF TypeOK, PopFree
    <3>3. SameHands \/ Takes(s, <<fam[s], o>>)
      BY <3>1, <3>2, ConsiderHands, SMTT(30), Z3T(30)
    <3>4. QED BY <2>2, <2>3, <3>2, <3>3
  <2>7. ASSUME NEW s \in Session, Advance(s) PROVE Lease!Next \/ owner' = owner
    <3> DEFINE a == <<fam[s], FirstFresh(fam[s])>>
    <3>1. a \in Addr /\ pc[s] = "scan" /\ Consider(s, a) /\ UNCHANGED <<allocations, pending>>
      BY <2>7, FreshAddr, SMTT(30), Z3T(30) DEF TypeOK, Advance
    <3>2. SameHands \/ Takes(s, a)
      BY <3>1, ConsiderHands
    <3>3. QED BY <2>2, <2>3, <3>1, <3>2, SMTT(30), Z3T(30)
  <2>8. CASE UNCHANGED vars
    <3>1. SameHands
      BY <2>8, SMTT(30), Z3T(30) DEF vars, SameHands, InHands
    <3>2. QED BY <2>2, <3>1, SMTT(30), Z3T(30)
  <2>9. QED
    BY <2>2, <2>4, <2>5, <2>6, <2>7, <2>8, QuietHands DEF Next, Step
<1>3. QED
  BY <1>1, <1>2, TypeCorrect, LeaseInvariant, PTL DEF Spec, Leases, Lease!Spec

-------------------------------------------------------------------------------
(***************************************************************************)
(* No address is lost.                                                     *)
(***************************************************************************)

\* The allocation loop drops a candidate that the reverse index holds.  That
\* loses no address because whoever the index names still has it in hands and
\* will put it back; a handler about to do so is no longer named.
IndexInv ==
    /\ \A a \in Addr, s \in Session : allocated[a] = s => InHands(s, a)
    /\ \A a \in Addr, s \in Session : pc[s] = "refill" /\ cand[s] = a => allocated[a] # s

\* Both conjuncts, one action at a time.
LEMMA IndexStep ==
    ASSUME TypeOK, LeaseInv, IndexInv, [Next]_vars
    PROVE  IndexInv'
<1> SUFFICES ASSUME NEW b \in Addr, NEW t \in Session
             PROVE  /\ allocated'[b] = t => InHands(t, b)'
                    /\ pc'[t] = "refill" /\ cand'[t] = b => allocated'[b] # t
  BY DEF IndexInv
<1>a. /\ allocated[b] = t => InHands(t, b)
      /\ pc[t] = "refill" /\ cand[t] = b => allocated[b] # t
  BY DEF IndexInv
<1> DEFINE Goal == /\ allocated'[b] = t => InHands(t, b)'
                   /\ pc'[t] = "refill" /\ cand'[t] = b => allocated'[b] # t
<1> HIDE DEF Goal
<1>1. ASSUME InHands(t, b) => InHands(t, b)', allocated' = allocated,
             pc'[t] = "refill" => pc[t] = "refill" /\ cand'[t] = cand[t]
      PROVE  Goal
  BY <1>1, <1>a, SMTT(30), Z3T(30) DEF Goal
<1>2. ASSUME NEW s \in Session, NEW f \in Family, Allocate(s, f) PROVE Goal
  <2>1. SameHands
    BY <1>2, QuietHands, SMTT(30), Z3T(30)
  <2>2. QED BY <1>1, <1>2, <2>1 DEF SameHands, Allocate, TypeOK
<1>3. ASSUME NEW s \in Session, NEW a \in Named, Request(s, a) PROVE Goal
  <2>1. InHands(t, b) => InHands(t, b)'
    BY <1>3, RequestHands, SMTT(30), Z3T(30) DEF SameHands, Takes
  <2>2. QED BY <1>1, <1>3, <2>1 DEF Request, TypeOK
<1>4. ASSUME NEW s \in Session, Lock(s) \/ Exhausted(s) PROVE Goal
  <2>1. SameHands
    BY <1>4, QuietHands, SMTT(30), Z3T(30)
  <2>2. QED BY <1>1, <1>4, <2>1 DEF SameHands, Lock, Exhausted, TypeOK
<1>5. ASSUME NEW s \in Session, NEW a \in Addr, pc[s] = "scan", Consider(s, a),
             UNCHANGED <<allocated, allocations, pending>>
      PROVE  Goal
  <2>1. InHands(t, b) => InHands(t, b)'
    BY <1>5, ConsiderHands, SMTT(30), Z3T(30) DEF SameHands, Takes
  <2>2. pc'[t] = "refill" => pc[t] = "refill" /\ cand'[t] = cand[t]
    <3>1. CASE allocated[a] = None
      BY <1>5, <3>1 DEF Consider, TypeOK
    <3>2. CASE allocated[a] # None
      BY <1>5, <3>2 DEF Consider
    <3>3. QED BY <3>1, <3>2
  <2>3. QED BY <1>1, <1>5, <2>1, <2>2
<1>6. ASSUME NEW s \in Session, PopFree(s) PROVE Goal
  <2>1. PICK o \in free[fam[s]] : Consider(s, <<fam[s], o>>)
    BY <1>6 DEF PopFree
  <2>2. <<fam[s], o>> \in Addr
    BY SMTT(30), Z3T(30) DEF TypeOK
  <2>3. QED BY <1>5, <1>6, <2>1, <2>2 DEF PopFree
<1>7. ASSUME NEW s \in Session, Advance(s) PROVE Goal
  BY <1>5, <1>7, FreshAddr DEF Advance, TypeOK
<1>8. ASSUME NEW s \in Session, Record(s) PROVE Goal
  <2>1. SameHands
    BY <1>8, QuietHands
  <2>2. allocated'[b] = t => InHands(t, b)'
    BY <1>8, <1>a, <2>1 DEF Record, TypeOK, SameHands, InHands
  <2>3. pc'[t] = "refill" /\ cand'[t] = b => allocated'[b] # t
    BY <1>8, <1>a DEF Record, TypeOK
  <2>4. QED BY <2>2, <2>3 DEF Goal
<1>9. ASSUME NEW s \in Session, Release(s) PROVE Goal
  <2>1. SameHands
    BY <1>9, QuietHands
  <2>2. QED BY <1>1, <1>9, <2>1 DEF SameHands, Release, TypeOK
<1>10. ASSUME NEW s \in Session, Unmap(s) PROVE Goal
  <2>1. SameHands
    BY <1>10, QuietHands
  <2>2. PICK a \in pending[s] : /\ allocated' = [allocated EXCEPT ![a] = None]
                                /\ cand' = [cand EXCEPT ![s] = a]
    BY <1>10, ZenonT(60) DEF Unmap
  <2>3. allocated'[b] = t => InHands(t, b)'
    BY <1>a, <2>1, <2>2, PoolAssumption, SMTT(30), Z3T(30) DEF TypeOK, SameHands
  <2>4. pc'[t] = "refill" /\ cand'[t] = b => allocated'[b] # t
    BY <1>10, <1>a, <2>2, PoolAssumption, SMTT(30), Z3T(30) DEF Unmap, TypeOK
  <2>5. QED BY <2>3, <2>4 DEF Goal
<1>11. ASSUME NEW s \in Session, Refill(s) PROVE Goal
  <2>1. allocations[s] = {}
    BY <1>11 DEF Refill, LeaseInv
  <2>2. InHands(t, b)' <=> InHands(t, b) /\ ~(t = s /\ b = cand[s])
    BY <1>11, <2>1, RefillHands, SMTT(30), Z3T(30)
  <2>3. allocated'[b] = t => InHands(t, b)'
    BY <1>11, <1>a, <2>2, SMTT(30), Z3T(30) DEF Refill
  <2>4. pc'[t] = "refill" /\ cand'[t] = b => allocated'[b] # t
    BY <1>11, <1>a, SMTT(30), Z3T(30) DEF Refill, TypeOK
  <2>5. QED BY <2>3, <2>4 DEF Goal
<1>12. ASSUME UNCHANGED vars PROVE Goal
  <2>1. InHands(t, b)' <=> InHands(t, b)
    BY <1>12 DEF vars, InHands
  <2>2. QED BY <1>1, <1>12, <2>1, SMTT(30), ZenonT(60) DEF vars
<1>13. Goal
  BY <1>2, <1>3, <1>4, <1>6, <1>7, <1>8, <1>9, <1>10, <1>11, <1>12 DEF Next, Step
<1>14. QED BY <1>13, SMTT(30), ZenonT(60) DEF Goal

\* Every address the cursor has passed is free or in some handler's hands
\* (next, the loop of allocate_v4 and allocate_v6, and release).
THEOREM NoAddressLost == Spec => []NothingLost
<1>1. Init => IndexInv /\ NothingLost
  BY PoolAssumption DEF Init, IndexInv, NothingLost, InHands, Family
<1>2. TypeOK /\ LeaseInv /\ IndexInv /\ NothingLost /\ [Next]_vars => NothingLost'
  <2> SUFFICES ASSUME TypeOK, LeaseInv, IndexInv, NothingLost, [Next]_vars,
                      NEW g \in Family, NEW o \in 2 .. cursor'[g] - 1
               PROVE  o \in free'[g] \/ \E t \in Session : InHands(t, <<g, o>>)'
    BY SMTT(30), Z3T(30) DEF NothingLost
  <2> DEFINE Goal == o \in free'[g] \/ \E t \in Session : InHands(t, <<g, o>>)'
  <2> HIDE DEF Goal
  <2>a. /\ cursor \in [Family -> Nat] /\ cursor' \in [Family -> Nat]
        /\ o \in Nat /\ 2 <= o /\ o < cursor'[g]
    BY TypeStep, SMTT(30), Z3T(30) DEF TypeOK
  <2>b. o < cursor[g] => o \in free[g] \/ \E t \in Session : InHands(t, <<g, o>>)
    BY <2>a DEF NothingLost
  <2>1. ASSUME o < cursor[g], o \in free[g] => o \in free'[g],
               \A t \in Session : InHands(t, <<g, o>>) => InHands(t, <<g, o>>)'
        PROVE  Goal
    BY <2>1, <2>b DEF Goal
  <2>2. ASSUME SameHands, UNCHANGED <<free, cursor>> PROVE Goal
    <3>1. o < cursor[g] /\ (o \in free[g] => o \in free'[g])
      BY <2>2, <2>a, SMTT(30), Z3T(30)
    <3>2. \A t \in Session : InHands(t, <<g, o>>) => <<g, o>> \in Addr
      BY SMTT(30), Z3T(30) DEF TypeOK, InHands
    <3>3. QED BY <2>1, <2>2, <3>1, <3>2 DEF SameHands
  <2>3. ASSUME NEW s \in Session, NEW f \in Family, Allocate(s, f) PROVE Goal
    BY <2>2, <2>3, QuietHands, Zenon DEF Allocate
  <2>4. ASSUME NEW s \in Session, Lock(s) \/ Record(s) \/ Release(s) \/ Unmap(s) PROVE Goal
    <3>1. SameHands
      BY <2>4, QuietHands, ZenonT(30)
    <3>2. UNCHANGED <<free, cursor>>
      BY <2>4 DEF Lock, Record, Release, Unmap
    <3>3. QED BY <2>2, <3>1, <3>2, Zenon
  <2>5. ASSUME NEW s \in Session, NEW a \in Named, Request(s, a) PROVE Goal
    <3>1. UNCHANGED <<free, cursor>>
      BY <2>5, SMTT(30), Z3T(30) DEF Request
    <3>2. o < cursor[g] /\ (o \in free[g] => o \in free'[g])
      BY <2>a, <3>1
    <3>3. \A t \in Session : InHands(t, <<g, o>>) => <<g, o>> \in Addr
      BY SMTT(30), Z3T(30) DEF TypeOK, InHands
    <3>4. QED BY <2>1, <2>5, <3>2, <3>3, RequestHands, ZenonT(60) DEF SameHands, Takes
  <2>6. ASSUME NEW s \in Session, Exhausted(s) PROVE Goal
    <3>1. SameHands /\ free' = free
      BY <2>6, QuietHands, ZenonT(60) DEF Exhausted
    <3>2. fam[s] \in Family /\ Limit(fam[s]) \in Nat
      BY PoolAssumption, SMTT(30), Z3T(30) DEF TypeOK, Limit, Family
    <3>3. o < cursor[g]
      BY <2>6, <2>a, <3>2, SMTT(30), Z3T(30) DEF Exhausted, FirstFresh
    <3>4. \A t \in Session : InHands(t, <<g, o>>) => <<g, o>> \in Addr
      BY SMTT(30), Z3T(30) DEF TypeOK, InHands
    <3>5. QED BY <2>1, <3>1, <3>3, <3>4 DEF SameHands
  <2>7. ASSUME NEW s \in Session, NEW a \in Addr, pc[s] = "scan", Consider(s, a),
               UNCHANGED <<allocations, pending>>
        PROVE  /\ a = <<g, o>> => Goal
               /\ \A t \in Session : InHands(t, <<g, o>>) => InHands(t, <<g, o>>)'
    <3>1. \A t \in Session : InHands(t, <<g, o>>) => <<g, o>> \in Addr
      BY SMTT(30), Z3T(30) DEF TypeOK, InHands
    <3>2. CASE allocated[a] = None
      <4>1. Takes(s, a)
        BY <2>7, <3>2, ConsiderHands, SMTT(30), Z3T(30)
      <4>2. QED BY <3>1, <4>1, SMTT(30), ZenonT(60) DEF Takes, Goal
    <3>3. CASE allocated[a] # None
      <4>1. SameHands
        BY <2>7, <3>3, ConsiderHands, SMTT(30), Z3T(30)
      <4>2. PICK t \in Session : allocated[a] = t
        BY <3>3, SMTT(30), Z3T(30) DEF TypeOK
      <4>3. InHands(t, a)
        BY <4>2, SMTT(30), Z3T(30) DEF IndexInv
      <4>4. QED BY <3>1, <4>1, <4>3 DEF SameHands, Goal
    <3>4. QED BY <3>2, <3>3, SMTT(30), Z3T(30)
  <2>8. ASSUME NEW s \in Session, PopFree(s) PROVE Goal
    <3>1. PICK p \in free[fam[s]] :
             /\ free' = [free EXCEPT ![fam[s]] = @ \ {p}]
             /\ Consider(s, <<fam[s], p>>)
      BY <2>8, ZenonT(60) DEF PopFree
    <3>2. /\ <<fam[s], p>> \in Addr /\ pc[s] = "scan"
          /\ UNCHANGED <<cursor, allocations, pending>>
      BY <2>8, SMTT(30), Z3T(30) DEF TypeOK, PopFree
    <3>3. /\ <<fam[s], p>> = <<g, o>> => Goal
          /\ \A t \in Session : InHands(t, <<g, o>>) => InHands(t, <<g, o>>)'
      BY <2>7, <3>1, <3>2, SMTT(30), Z3T(30)
    <3>4. CASE <<fam[s], p>> # <<g, o>>
      <4>1. o < cursor[g] /\ (o \in free[g] => o \in free'[g])
        BY <2>a, <3>1, <3>2, <3>4, SMTT(30), Z3T(30) DEF TypeOK
      <4>2. QED BY <2>1, <3>3, <4>1, SMTT(30), Z3T(30)
    <3>5. QED BY <3>3, <3>4
  <2>9. ASSUME NEW s \in Session, Advance(s) PROVE Goal
    <3> DEFINE f == fam[s]
               a == <<f, FirstFresh(f)>>
    <3>1. /\ f \in Family /\ a \in Addr /\ pc[s] = "scan" /\ Consider(s, a)
          /\ UNCHANGED <<free, allocations, pending>> /\ FirstFresh(f) \in Nat
      BY <2>9, FreshAddr, SMTT(30), Z3T(30) DEF TypeOK, Advance
    <3>2. /\ a = <<g, o>> => Goal
          /\ \A t \in Session : InHands(t, <<g, o>>) => InHands(t, <<g, o>>)'
      BY <2>7, <3>1, SMTT(30), Z3T(30)
    <3>3. a # <<g, o>> => o < cursor[g]
      BY <2>9, <2>a, <3>1, SMTT(30) DEF Advance, FirstFresh
    <3>4. QED BY <2>1, <3>1, <3>2, <3>3, SMTT(30), Z3T(30)
  <2>10. ASSUME NEW s \in Session, Refill(s) PROVE Goal
    <3>0. PICK a \in Addr : a = cand[s]
      BY <2>10, SMTT(30), Z3T(30) DEF TypeOK, Refill
    <3>1. /\ a = <<a[1], a[2]>> /\ a[1] \in Family
          /\ allocations[s] = {} /\ cursor' = cursor
          /\ free' = [free EXCEPT ![a[1]] = @ \cup {a[2]}]
      BY <2>10, <3>0, AddrPair, SMTT(30), Z3T(30) DEF LeaseInv, Refill
    <3>2. o < cursor[g] /\ (o \in free[g] => o \in free'[g])
      BY <2>a, <3>1, SMTT(30), Z3T(30) DEF TypeOK
    <3>3. CASE a = <<g, o>>
      BY <3>1, <3>3, SMTT(30), Z3T(30) DEF TypeOK, Goal
    <3>4. CASE a # <<g, o>>
      <4>1. \A t \in Session : InHands(t, <<g, o>>) => <<g, o>> \in Addr
        BY DEF TypeOK, InHands
      <4>2. \A t \in Session : InHands(t, <<g, o>>) => InHands(t, <<g, o>>)'
        BY <2>10, <3>0, <3>1, <3>4, <4>1, RefillHands
      <4>3. QED BY <2>1, <3>2, <4>2, SMTT(30), Z3T(30)
    <3>5. QED BY <3>3, <3>4, SMTT(30), Z3T(30)
  <2>11. ASSUME UNCHANGED vars PROVE Goal
    <3>1. SameHands /\ UNCHANGED <<free, cursor>>
      BY <2>11 DEF vars, SameHands, InHands
    <3>2. QED BY <2>2, <3>1, SMTT(30), Z3T(30)
  <2>12. Goal
    BY <2>3, <2>4, <2>5, <2>6, <2>8, <2>9, <2>10, <2>11 DEF Next, Step
  <2>13. QED BY <2>12, SMTT(30), Z3T(30) DEF Goal
<1>3. QED
  BY <1>1, <1>2, IndexStep, TypeCorrect, LeaseInvariant, PTL DEF Spec

-------------------------------------------------------------------------------
(***************************************************************************)
(* Reserved addresses.                                                     *)
(***************************************************************************)

Usable(a) == a[1] = 4 => a[2] \in 2 .. V4Size - 2

\* What is in a handler's hands or on the free list is usable; the free list
\* is part of it because it is handed out again without a test.
UsableInv ==
    /\ \A s \in Session, a \in Addr : InHands(s, a) => Usable(a)
    /\ \A o \in free[4] : Usable(<<4, o>>)

\* No session gets the IPv4 network, gateway or broadcast address (next,
\* try_allocate_specific and release).
THEOREM ReservedKept == Spec => []ReservedV4
<1>1. Init => UsableInv
  BY PoolAssumption DEF Init, UsableInv, InHands, Family
<1>2. TypeOK /\ LeaseInv /\ UsableInv /\ [Next]_vars => UsableInv'
  <2> SUFFICES ASSUME TypeOK, LeaseInv, UsableInv, [Next]_vars PROVE UsableInv'
    BY SMTT(30), Z3T(30)
  <2>1. ASSUME SameHands, free'[4] \subseteq free[4] PROVE UsableInv'
    BY <2>1, SMTT(30), Z3T(30) DEF SameHands, UsableInv, Usable
  <2>2. ASSUME NEW s \in Session, NEW a \in Addr, Takes(s, a), Usable(a),
               free'[4] \subseteq free[4]
        PROVE  UsableInv'
    BY <2>2 DEF Takes, UsableInv, Usable
  <2>3. ASSUME NEW s \in Session,
               \/ \E f \in Family : Allocate(s, f)
               \/ Lock(s) \/ Exhausted(s) \/ Record(s) \/ Release(s) \/ Unmap(s)
        PROVE  UsableInv'
    <3>1. SameHands
      BY <2>3, QuietHands, SMTT(30), Z3T(30)
    <3>2. free' = free
      BY <2>3 DEF Allocate, Lock, Exhausted, Record, Release, Unmap
    <3>3. QED BY <2>1, <3>1, <3>2
  <2>4. ASSUME NEW s \in Session, NEW a \in Named, Request(s, a) PROVE UsableInv'
    <3>1. a \in Addr /\ free' = free
      BY <2>4, PoolAssumption, ZenonT(30) DEF Request
    <3>2. CASE Grantable(a)
      <4>1. Usable(a)
        BY <3>2, PoolAssumption, SMTT(30), Z3T(30) DEF Grantable, Usable
      <4>2. QED BY <2>1, <2>2, <2>4, <3>1, <4>1, RequestHands, Zenon
    <3>3. CASE ~Grantable(a)
      <4>1. SameHands
        BY <2>4, <3>3, PoolAssumption, SMTT(30) DEF TypeOK, Request, InHands, SameHands
      <4>2. QED BY <2>1, <3>1, <4>1, SMTT(30), Z3T(30)
    <3>4. QED BY <3>2, <3>3, SMTT(30)
  <2>5. ASSUME NEW s \in Session, PopFree(s) PROVE UsableInv'
    <3>1. PICK o \in free[fam[s]] :
             /\ free' = [free EXCEPT ![fam[s]] = @ \ {o}]
             /\ Consider(s, <<fam[s], o>>)
      BY <2>5, ZenonT(60) DEF PopFree
    <3>2. /\ <<fam[s], o>> \in Addr /\ pc[s] = "scan" /\ free'[4] \subseteq free[4]
          /\ UNCHANGED <<allocations, pending>>
      BY <2>5, <3>1, SMTT(30), Z3T(30) DEF TypeOK, PopFree, Family
    <3>3. Usable(<<fam[s], o>>)
      <4>1. CASE fam[s] = 4
        BY <4>1, Zenon DEF UsableInv
      <4>2. CASE fam[s] # 4
        BY <4>2 DEF Usable
      <4>3. QED BY <4>1, <4>2
    <3>4. QED BY <2>1, <2>2, <3>1, <3>2, <3>3, ConsiderHands, Zenon
  <2>6. ASSUME NEW s \in Session, Advance(s) PROVE UsableInv'
    <3> DEFINE a == <<fam[s], FirstFresh(fam[s])>>
    <3>1. /\ a \in Addr /\ pc[s] = "scan" /\ Consider(s, a) /\ free'[4] \subseteq free[4]
          /\ UNCHANGED <<allocations, pending>>
      BY <2>6, FreshAddr, SMTT(30), Z3T(30) DEF TypeOK, Advance
    <3>2. Usable(a)
      BY <2>6, PoolAssumption, SMTT(30), Z3T(30) DEF Advance, Usable, FirstFresh, Limit, TypeOK, Family
    <3>3. QED BY <2>1, <2>2, <3>1, <3>2, ConsiderHands, ZenonT(60)
  <2>7. ASSUME NEW s \in Session, Refill(s) PROVE UsableInv'
    <3>0. PICK a \in Addr : a = cand[s]
      BY <2>7, SMTT(30), Z3T(30) DEF TypeOK, Refill
    <3>1. /\ a = <<a[1], a[2]>> /\ a[1] \in Family /\ a \in pending[s]
          /\ allocations[s] = {}
          /\ free' = [free EXCEPT ![a[1]] = @ \cup {a[2]}]
      BY <2>7, <3>0, AddrPair DEF TypeOK, LeaseInv, Refill
    <3>2. Usable(a)
      BY <3>1, SMTT(30), Z3T(30) DEF UsableInv, InHands
    <3>3. \A o \in free'[4] : Usable(<<4, o>>)
      BY <3>1, <3>2 DEF UsableInv, TypeOK, Usable, Family
    <3>4. \A t \in Session, b \in Addr : InHands(t, b)' => InHands(t, b)
      BY <2>7, <3>1, RefillHands, SMTT(30)
    <3>5. QED BY <3>3, <3>4, SMTT(30), Z3T(30) DEF UsableInv, Usable
  <2>8. CASE UNCHANGED vars
    <3>1. SameHands
      BY <2>8 DEF vars, SameHands, InHands
    <3>2. QED BY <2>1, <2>8, <3>1, ZenonT(30) DEF vars
  <2>9. QED
    BY <2>3, <2>4, <2>5, <2>6, <2>7, <2>8 DEF Next, Step
<1>3. TypeOK /\ UsableInv => ReservedV4
  BY DEF TypeOK, UsableInv, InHands, Usable, ReservedV4
<1>4. QED
  BY <1>1, <1>2, <1>3, TypeCorrect, LeaseInvariant, PTL DEF Spec

-------------------------------------------------------------------------------
(***************************************************************************)
(* The public tuples of bind sessions.                                     *)
(***************************************************************************)

\* The remainder of a natural number by a positive one.
LEMMA ModRange ==
    ASSUME NEW n \in Nat, NEW d \in Nat \ {0}
    PROVE  n % d \in 0 .. d - 1
OBVIOUS

\* The quotient of a natural number by a positive one.
LEMMA DivRange ==
    ASSUME NEW n \in Nat, NEW d \in Nat \ {0}
    PROVE  n \div d \in Nat
OBVIOUS

\* Wherever the cursors are, allocate examines tuples of the pool.
LEMMA CandidateInPool ==
    ASSUME BindTypeOK, NEW i \in Nat
    PROVE  Candidate(i) \in Tuple
<1> USE BindAssumption
<1>1. Ips \in Nat \ {0} /\ Span \in Nat \ {0}
  BY DEF Span
<1>2. nextIp + (i % Ips) \in Nat
  BY <1>1, ModRange DEF BindTypeOK
<1>3. nextPort - PortLo + (i \div Ips) \in Nat
  BY <1>1, DivRange, SMTT(30), Z3T(30) DEF BindTypeOK
<1>4. (nextIp + (i % Ips)) % Ips \in 0 .. Ips - 1
  BY <1>1, <1>2, ModRange, Zenon
<1>5. (nextPort - PortLo + (i \div Ips)) % Span \in 0 .. Span - 1
  BY <1>1, <1>3, ModRange
<1>6. PortLo + ((nextPort - PortLo + (i \div Ips)) % Span) \in PortLo .. PortHi
  BY <1>5 DEF Span
<1>7. QED BY <1>4, <1>6 DEF Candidate, Tuple

\* What allocate does, without the scan: it takes a tuple that was not in use.
LEMMA AllocateTakes ==
    ASSUME BindTypeOK, NEW s \in BindSession, AllocatePort(s)
    PROVE  \E c \in Tuple :
              /\ c \notin inUse
              /\ inUse' = inUse \cup {c} /\ others' = others
              /\ addr' = [addr EXCEPT ![s] = c]
              /\ nextIp' = (c[1] + 1) % Ips
              /\ nextPort' = IF nextIp' = 0 THEN SuccPort(c[2]) ELSE c[2]
<1>1. PICK i \in 0 .. Ips * Span - 1 :
         /\ Candidate(i) \notin inUse
         /\ inUse' = inUse \cup {Candidate(i)} /\ others' = others
         /\ addr' = [addr EXCEPT ![s] = Candidate(i)]
         /\ nextIp' = (Candidate(i)[1] + 1) % Ips
         /\ nextPort' = IF nextIp' = 0 THEN SuccPort(Candidate(i)[2]) ELSE Candidate(i)[2]
  BY Zenon DEF AllocatePort
<1>2. i \in Nat
  BY BindAssumption DEF Span
<1>3. Candidate(i) \in Tuple
  BY <1>2, CandidateInPool, SMTT(30), Z3T(30)
<1>4. QED BY <1>1, <1>3, Zenon

\* Every step keeps the types.
LEMMA BindTypeStep ==
    ASSUME BindTypeOK, [BindNext]_bindVars
    PROVE  BindTypeOK'
<1> USE BindAssumption, TupleAssumption DEF Holding
<1>1. ASSUME NEW s \in BindSession, Refuse(s) PROVE BindTypeOK'
  BY <1>1, SMTT(30), Z3T(30) DEF BindTypeOK, Refuse, Move, Goto, allocator, tasks
<1>2. ASSUME NEW s \in BindSession, Begin(s) PROVE BindTypeOK'
  BY <1>2, SMTT(30), Z3T(30) DEF BindTypeOK, Begin, Move, Goto, allocator, tasks
<1>3. ASSUME NEW s \in BindSession, CapsulesEnd(s) PROVE BindTypeOK'
  BY <1>3, SMTT(30), Z3T(30) DEF BindTypeOK, CapsulesEnd, Move, Goto, allocator, tasks
<1>4. ASSUME NEW s \in BindSession, AllocatePort(s) PROVE BindTypeOK'
  <2>1. PICK c \in Tuple :
           /\ inUse' = inUse \cup {c} /\ others' = others
           /\ addr' = [addr EXCEPT ![s] = c]
           /\ nextIp' = (c[1] + 1) % Ips
           /\ nextPort' = IF nextIp' = 0 THEN SuccPort(c[2]) ELSE c[2]
    BY <1>4, AllocateTakes, Zenon
  <2>3. c[1] \in Nat /\ c[2] \in PortLo .. PortHi
    BY DEF Tuple
  <2>4. nextIp' \in 0 .. Ips - 1
    <3>1. c[1] + 1 \in Nat /\ Ips \in Nat \ {0}
      BY <2>3
    <3>2. (c[1] + 1) % Ips \in 0 .. Ips - 1
      BY <3>1, ModRange, Zenon
    <3>3. QED BY <2>1, <3>2, Zenon
  <2>5. nextPort' \in PortLo .. PortHi
    BY <2>1, <2>3, SMTT(30), Z3T(30) DEF SuccPort
  <2>6. inUse' \subseteq Tuple /\ others' \subseteq Tuple /\ addr' = [addr EXCEPT ![s] = c]
    BY <2>1, SMTT(30), Z3T(30) DEF BindTypeOK
  <2>7. QED
    BY <1>4, <2>4, <2>5, <2>6 DEF BindTypeOK, AllocatePort, Goto, tasks
<1>5. ASSUME NEW s \in BindSession, PoolFull(s) PROVE BindTypeOK'
  BY <1>5, SMTT(30), Z3T(30) DEF BindTypeOK, PoolFull, Move, Goto, allocator, tasks
<1>6. ASSUME NEW s \in BindSession, BindOk(s) PROVE BindTypeOK'
  BY <1>6, SMTT(30), Z3T(30) DEF BindTypeOK, BindOk, Move, Goto, allocator, tasks
<1>7. ASSUME NEW s \in BindSession, BindFails(s) PROVE BindTypeOK'
  BY <1>7, SMTT(30), Z3T(30) DEF BindTypeOK, BindFails, Goto, tasks
<1>8. ASSUME NEW s \in BindSession, Respond(s) \/ RespondFails(s) PROVE BindTypeOK'
  BY <1>8, SMTT(30), Z3T(30) DEF BindTypeOK, Respond, RespondFails, Move, Goto, allocator, tasks
<1>9. ASSUME NEW s \in BindSession, Wire(s) \/ Abort(s) PROVE BindTypeOK'
  BY <1>9, SMTT(30), Z3T(30) DEF BindTypeOK, Wire, Abort, Move, Goto, allocator
<1>10. ASSUME NEW s \in BindSession, Unregister(s) \/ ReleasePort(s) PROVE BindTypeOK'
  BY <1>10 DEF BindTypeOK, Unregister, ReleasePort, Move, Goto, allocator, tasks
<1>11. ASSUME NEW s \in BindSession, Tasks(s) \/ InboundFails(s) PROVE BindTypeOK'
  BY <1>11 DEF BindTypeOK, Tasks, StartRun, DropRun, FinishRun, InboundFails, allocator
<1>12. CASE UNCHANGED bindVars
  BY <1>12 DEF BindTypeOK, bindVars, allocator, tasks
<1>13. QED
  BY <1>1, <1>2, <1>3, <1>4, <1>5, <1>6, <1>7, <1>8, <1>9, <1>10, <1>11, <1>12, SMTT(30), Z3T(30) DEF BindNext, Handler

\* Type correctness of the allocator and the bind handlers.
THEOREM BindTypeCorrect == BindSpec => []BindTypeOK
<1>1. BindInit => BindTypeOK
  BY BindAssumption, TupleAssumption DEF BindInit, BindTypeOK, Holding
<1>2. QED
  BY <1>1, BindTypeStep, PTL DEF BindSpec

\* A tuple belongs to one session from allocate to release (PortAllocator and
\* the bind loop and teardown of handle_connect_udp_bind_stream).
THEOREM TuplesExclusive == BindSpec => []TupleExclusive
<1>1. BindInit => TupleExclusive
  BY DEF BindInit, TupleExclusive, Holding
<1>2. BindTypeOK /\ TupleExclusive /\ [BindNext]_bindVars => TupleExclusive'
  <2> SUFFICES ASSUME BindTypeOK, TupleExclusive, [BindNext]_bindVars PROVE TupleExclusive'
    OBVIOUS
  <2> USE DEF Holding
  <2>1. ASSUME NEW s \in BindSession, AllocatePort(s) PROVE TupleExclusive'
    <3>1. PICK c \in Tuple :
             /\ c \notin inUse
             /\ inUse' = inUse \cup {c} /\ others' = others
             /\ addr' = [addr EXCEPT ![s] = c]
      BY <2>1, AllocateTakes, Zenon
    <3>2. where' = [where EXCEPT ![s] = "bind"]
      BY <2>1 DEF AllocatePort, Goto
    <3>3. QED
      BY <3>1, <3>2 DEF BindTypeOK, TupleExclusive
  <2>2. ASSUME NEW s \in BindSession, BindFails(s) PROVE TupleExclusive'
    BY <2>2 DEF BindTypeOK, TupleExclusive, BindFails, Goto
  <2>3. ASSUME NEW s \in BindSession, ReleasePort(s) PROVE TupleExclusive'
    BY <2>3 DEF BindTypeOK, TupleExclusive, ReleasePort, Move, Goto
  <2>4. ASSUME UNCHANGED <<inUse, others, addr>>,
               \A t \in BindSession : where'[t] \in Holding => where[t] \in Holding
        PROVE  TupleExclusive'
    BY <2>4, SMTT(30), Z3T(30) DEF TupleExclusive
  <2>5. ASSUME NEW s \in BindSession, Refuse(s) \/ Begin(s) \/ CapsulesEnd(s) \/ PoolFull(s) \/ BindOk(s)
        PROVE  TupleExclusive'
    BY <2>4, <2>5 DEF BindTypeOK, Refuse, Begin, CapsulesEnd, PoolFull, BindOk, Move, Goto, allocator
  <2>6. ASSUME NEW s \in BindSession, Respond(s) \/ RespondFails(s) \/ Wire(s) \/ Abort(s) \/ Unregister(s)
        PROVE  TupleExclusive'
    BY <2>4, <2>6, SMTT(30) DEF BindTypeOK, Respond, RespondFails, Wire, Abort, Unregister, Move, Goto, allocator
  <2>7. ASSUME NEW s \in BindSession, Tasks(s) \/ InboundFails(s) PROVE TupleExclusive'
    BY <2>4, <2>7, Zenon DEF Tasks, StartRun, DropRun, FinishRun, InboundFails, allocator
  <2>8. CASE UNCHANGED bindVars
    BY <2>4, <2>8 DEF bindVars, allocator
  <2>9. QED
    BY <2>1, <2>2, <2>3, <2>5, <2>6, <2>7, <2>8 DEF BindNext, Handler
<1>3. QED
  BY <1>1, <1>2, BindTypeCorrect, PTL DEF BindSpec

\* The demultiplexer knows a session only while its handler serves it
\* (register_sink and unregister in handle_connect_udp_bind_stream).
THEOREM SinksServed == BindSpec => []SinksAreServed
<1>1. BindInit => SinksAreServed
  BY SMTT(30), Z3T(30) DEF BindInit, SinksAreServed
<1>2. BindTypeOK /\ SinksAreServed /\ [BindNext]_bindVars => SinksAreServed'
  <2> SUFFICES ASSUME BindTypeOK, SinksAreServed, [BindNext]_bindVars PROVE SinksAreServed'
    OBVIOUS
  <2> USE DEF BindTypeOK, SinksAreServed, Goto, Move, tasks
  <2>1. ASSUME NEW s \in BindSession,
               \/ Refuse(s) \/ Begin(s) \/ CapsulesEnd(s) \/ AllocatePort(s) \/ PoolFull(s)
               \/ BindOk(s) \/ BindFails(s) \/ Respond(s) \/ RespondFails(s)
        PROVE  SinksAreServed'
    BY <2>1, SMTT(30), Z3T(30)
    DEF Refuse, Begin, CapsulesEnd, AllocatePort, PoolFull, BindOk, BindFails, Respond, RespondFails
  <2>2. ASSUME NEW s \in BindSession, Wire(s) \/ Abort(s) \/ Unregister(s) \/ ReleasePort(s)
        PROVE  SinksAreServed'
    BY <2>2, SMTT(30) DEF Wire, Abort, Unregister, ReleasePort
  <2>3. CASE UNCHANGED <<where, sinks>>
    BY <2>3
  <2> QED
    BY <2>1, <2>2, <2>3, SMTT(30), Z3T(30) DEF BindNext, Handler, Tasks, StartRun, DropRun, FinishRun, InboundFails, bindVars
<1> QED
  BY <1>1, <1>2, BindTypeCorrect, PTL DEF BindSpec

-------------------------------------------------------------------------------
(***************************************************************************)
(* The scan of PortAllocator.                                                 *)
(***************************************************************************)

\* A number is told by its quotient and its remainder.
LEMMA DivMod ==
    ASSUME NEW n \in Nat \ {0}, NEW j \in 0 .. n - 1, NEW k \in Nat
    PROVE  (n * k + j) % n = j /\ (n * k + j) \div n = k
<1> DEFINE x == n * k + j
<1> DEFINE q == x \div n
<1>0. x \in Nat /\ x = n * k + j
  OBVIOUS
<1> HIDE DEF x
<1>1. q \in Nat /\ x % n \in 0 .. n - 1
  BY <1>0, ModRange, DivRange, Zenon
<1>2. x = n * q + (x % n)
  BY <1>0
<1> HIDE DEF q
<1>3. ASSUME q = k PROVE x % n = j /\ q = k
  BY <1>0, <1>1, <1>2, <1>3
<1>4. ASSUME q < k PROVE FALSE
  <2>1. n * (k - q) >= n
    BY <1>1, <1>4
  <2> QED
    BY <1>0, <1>1, <1>2, <2>1
<1>5. ASSUME q > k PROVE FALSE
  <2>1. n * (q - k) >= n
    BY <1>1, <1>5
  <2> QED
    BY <1>0, <1>1, <1>2, <2>1
<1> QED
  BY <1>0, <1>1, <1>3, <1>4, <1>5 DEF x, q

\* Counting on from any position, wrapping around, every position is reached.
LEMMA WrapReaches ==
    ASSUME NEW n \in Nat \ {0}, NEW a \in 0 .. n - 1, NEW m \in 0 .. n - 1
    PROVE  \E j \in 0 .. n - 1 : (a + j) % n = m
<1>1. CASE m >= a
  <2>1. m - a \in 0 .. n - 1 /\ a + (m - a) = n * 0 + m
    BY <1>1
  <2> QED
    BY <2>1, DivMod, ZenonT(30)
<1>2. CASE m < a
  <2>1. m - a + n \in 0 .. n - 1 /\ a + (m - a + n) = n * 1 + m
    BY <1>2
  <2> QED
    BY <2>1, DivMod, ZenonT(60)
<1> QED
  BY <1>1, <1>2

\* From any position of the cursors, every tuple of the pool is a candidate.
LEMMA TupleIsCandidate ==
    ASSUME BindTypeOK, NEW c \in Tuple
    PROVE  \E i \in 0 .. Ips * Span - 1 : Candidate(i) = c
<1>1. Ips \in Nat \ {0} /\ Span \in Nat \ {0} /\ PortLo \in Nat
  BY BindAssumption DEF Span
<1>2. nextIp \in 0 .. Ips - 1 /\ nextPort - PortLo \in 0 .. Span - 1
  BY BindAssumption DEF BindTypeOK, Span
<1>3. c = <<c[1], c[2]>> /\ c[1] \in 0 .. Ips - 1 /\ c[2] - PortLo \in 0 .. Span - 1 /\ c[2] \in Int
  BY BindAssumption DEF Tuple, Span
<1>4. PICK j \in 0 .. Ips - 1 : (nextIp + j) % Ips = c[1]
  BY <1>1, <1>2, <1>3, WrapReaches
<1>5. PICK k \in 0 .. Span - 1 : (nextPort - PortLo + k) % Span = c[2] - PortLo
  BY <1>1, <1>2, <1>3, WrapReaches
<1> DEFINE i == Ips * k + j
<1>6. i % Ips = j /\ i \div Ips = k
  BY <1>1, DivMod
<1>7. i \in 0 .. Ips * Span - 1
  <2>1. Ips * k + Ips <= Ips * Span /\ Ips * k \in Nat /\ Ips * Span \in Nat
    BY <1>1
  <2> QED
    BY <1>1, <2>1
<1> HIDE DEF i
<1>8. Candidate(i) = <<c[1], PortLo + (c[2] - PortLo)>>
  BY <1>4, <1>5, <1>6 DEF Candidate
<1>9. PortLo + (c[2] - PortLo) = c[2]
  BY <1>1, <1>3
<1> QED
  BY <1>3, <1>7, <1>8, <1>9

\* Counting on, wrapping around, no position is reached twice within a round.
LEMMA WrapsOnce ==
    ASSUME NEW n \in Nat \ {0}, NEW a \in 0 .. n - 1, NEW x \in 0 .. n - 1, NEW y \in 0 .. n - 1,
           (a + x) % n = (a + y) % n
    PROVE  x = y
<1>1. ASSUME NEW z \in 0 .. n - 1
      PROVE  IF a + z < n THEN (a + z) % n = a + z ELSE (a + z) % n = a + z - n
  <2>1. CASE a + z < n
    <3>1. a + z \in 0 .. n - 1 /\ a + z = n * 0 + (a + z)
      BY <2>1
    <3>2. (n * 0 + (a + z)) % n = a + z
      BY <3>1, DivMod
    <3> QED
      BY <2>1, <3>1, <3>2
  <2>2. CASE ~(a + z < n)
    <3>1. a + z - n \in 0 .. n - 1 /\ a + z = n * 1 + (a + z - n)
      BY <2>2
    <3>2. (n * 1 + (a + z - n)) % n = a + z - n
      BY <3>1, DivMod, SMTT(30), Z3T(30)
    <3> QED
      BY <2>2, <3>1, <3>2
  <2> QED
    BY <2>1, <2>2
<1>2. /\ IF a + x < n THEN (a + x) % n = a + x ELSE (a + x) % n = a + x - n
      /\ IF a + y < n THEN (a + y) % n = a + y ELSE (a + y) % n = a + y - n
  BY <1>1, Zenon
<1> QED
  BY <1>2

\* From any position of the cursors, the scan examines no tuple twice.
LEMMA CandidateOnce ==
    ASSUME BindTypeOK, NEW i \in 0 .. Ips * Span - 1, NEW j \in 0 .. Ips * Span - 1,
           Candidate(i) = Candidate(j)
    PROVE  i = j
<1>1. Ips \in Nat \ {0} /\ Span \in Nat \ {0} /\ PortLo \in Nat
  BY BindAssumption DEF Span
<1>2. nextIp \in 0 .. Ips - 1 /\ nextPort - PortLo \in 0 .. Span - 1
  BY BindAssumption DEF BindTypeOK, Span
<1>3. ASSUME NEW k \in 0 .. Ips * Span - 1
      PROVE  /\ k % Ips \in 0 .. Ips - 1 /\ k \div Ips \in 0 .. Span - 1
             /\ k = Ips * (k \div Ips) + (k % Ips)
  <2>1. k \in Nat /\ k < Ips * Span
    BY <1>1
  <2>2. k % Ips \in 0 .. Ips - 1 /\ k \div Ips \in Nat
    BY <1>1, <2>1, ModRange, DivRange, Zenon
  <2>3. k = Ips * (k \div Ips) + (k % Ips)
    BY <1>1, <2>1
  <2>4. ASSUME k \div Ips >= Span PROVE FALSE
    <3> DEFINE q == k \div Ips
    <3>1. q \in Nat /\ q >= Span /\ k >= Ips * q
      BY <1>1, <2>2, <2>3, <2>4
    <3> HIDE DEF q
    <3>2. Ips * q >= Ips * Span
      BY <1>1, <3>1
    <3> QED
      BY <1>1, <2>1, <3>1, <3>2
  <2> QED
    BY <1>1, <2>2, <2>3, <2>4
<1>4. /\ (nextIp + (i % Ips)) % Ips = (nextIp + (j % Ips)) % Ips
      /\ PortLo + ((nextPort - PortLo + (i \div Ips)) % Span) = PortLo + ((nextPort - PortLo + (j \div Ips)) % Span)
  BY Zenon DEF Candidate
<1>5. i % Ips = j % Ips
  BY <1>1, <1>2, <1>3, <1>4, WrapsOnce, Zenon
<1>6. i \div Ips = j \div Ips
  <2>1. \A k \in 0 .. Span - 1 : (nextPort - PortLo + k) % Span \in Int
    BY <1>1, <1>2
  <2>2. (nextPort - PortLo + (i \div Ips)) % Span = (nextPort - PortLo + (j \div Ips)) % Span
    BY <1>1, <1>3, <1>4, <2>1
  <2> QED
    BY <1>1, <1>2, <1>3, <2>2, WrapsOnce, Zenon
<1> QED
  BY <1>3, <1>5, <1>6

\* allocate fails only when the pool is full: for every pool and wherever the
\* cursors are, its scan examines every tuple, and each of them once.
THEOREM ScanIsComplete == BindSpec => []ScanCoversPool
<1>1. BindTypeOK => {Candidate(i) : i \in 0 .. Ips * Span - 1} = Tuple
  <2> SUFFICES ASSUME BindTypeOK PROVE {Candidate(i) : i \in 0 .. Ips * Span - 1} = Tuple
    OBVIOUS
  <2>1. \A i \in 0 .. Ips * Span - 1 : Candidate(i) \in Tuple
    BY CandidateInPool, BindAssumption DEF Span
  <2> QED
    BY <2>1, TupleIsCandidate, Zenon
<1>2. BindTypeOK => \A i, j \in 0 .. Ips * Span - 1 : Candidate(i) = Candidate(j) => i = j
  BY CandidateOnce, Zenon
<1> QED
  BY <1>1, <1>2, BindTypeCorrect, PTL DEF ScanCoversPool
================================================================================
