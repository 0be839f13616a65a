----------------------------- MODULE MCAddressPool -----------------------------
(* Instances of AddressPool for TLC. *)
EXTENDS AddressPool

\* IPv4: the gateway (refused by name) and a usable address.
SomeNamed == {<<4, 1>>, <<4, 2>>}

\* The same, and the IPv6 gateway.
AllNamed == SomeNamed \cup {<<6, 1>>}
================================================================================
