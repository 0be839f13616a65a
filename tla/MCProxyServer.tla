---------------------------- MODULE MCProxyServer ----------------------------
(* Instances of ProxyServer for TLC. *)
EXTENDS ProxyServer

CONSTANTS a1, c1

OneAddress == {{a1}}
TwoFamilies == <<"v4", "v6">>
OneConnection == [s \in Session \cup BindSession |-> c1]
===============================================================================
