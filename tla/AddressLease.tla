----------------------------- MODULE AddressLease -----------------------------
(***************************************************************************)
(* What an address pool promises its users, free of cursors, free lists    *)
(* and locks: an address is leased to at most one session at a time, is    *)
(* granted only while nobody leases it, and comes back only from the       *)
(* session that leases it.                                                 *)
(*                                                                         *)
(* AddressPool implements this specification (see the property Leases      *)
(* there) for the addresses no client asks for by name.  SessionLifecycle  *)
(* uses Grant and Return as its pool.                                      *)
(***************************************************************************)
CONSTANTS
    Session,    \* the sessions that lease addresses
    Leasable,   \* the addresses that can be leased
    None        \* not a session

VARIABLE
    owner       \* owner[a]: the session that leases a, or None

Init == owner = [a \in Leasable |-> None]

Grant(s, a) ==
    /\ owner[a] = None
    /\ owner' = [owner EXCEPT ![a] = s]

Return(s, a) ==
    /\ owner[a] = s
    /\ owner' = [owner EXCEPT ![a] = None]

Next == \E s \in Session, a \in Leasable : Grant(s, a) \/ Return(s, a)

Spec == Init /\ [][Next]_owner
===============================================================================
