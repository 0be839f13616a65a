------------------------------- MODULE Prefixes -------------------------------
(***************************************************************************)
(* Addresses and prefixes, as the crate ipnet has them.  A prefix is the   *)
(* set of its addresses.  Two prefixes are nested or disjoint, the longer  *)
(* one is the smaller set, and its network address is its least member.    *)
(***************************************************************************)
EXTENDS Integers, FiniteSets

CONSTANTS
    Addr,       \* addresses, as numbers
    Prefix      \* the prefixes

\* The least address of a set.
Network(p) == CHOOSE a \in p : \A b \in p : a <= b

\* The fewest prefixes that make up the range r.lo .. r.hi.
Subnets(r) ==
    LET inside == {p \in Prefix : p \subseteq r.lo .. r.hi}
    IN  {p \in inside : \A q \in inside : p \subseteq q => p = q}
===============================================================================
