-------------------------- MODULE MCSessionLifecycle --------------------------
(* Instances of SessionLifecycle for TLC. *)
EXTENDS SessionLifecycle, TLC

CONSTANTS a1, a2

OneAddress == {{a1}}
TwoAddresses == {{a1, a2}}

Symmetry == Permutations(Session) \cup Permutations({a1, a2})
===============================================================================
