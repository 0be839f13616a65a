----------------------------- MODULE MCForwarding -----------------------------
(***************************************************************************)
(* Two clients of a pool of two addresses, one of which is leased to one   *)
(* client after the other in some behaviours; a network of two addresses   *)
(* behind the clients, and two addresses beyond the TUN device.            *)
(***************************************************************************)
EXTENDS Forwarding, TLC

CONSTANTS s1, s2

MCAddr == 0 .. 7
MCPrefix == {{a} : a \in MCAddr} \cup {{0, 1}, {2, 3}, {4, 5}, {6, 7}, 0 .. 3, 4 .. 7, MCAddr}
MCPools == {{2, 3}}
MCDeployment == {[home |-> s1 :> 3 @@ s2 :> 2, tun |-> FALSE], [home |-> s1 :> 3 @@ s2 :> 3, tun |-> TRUE]}
MCPathSize == s1 :> {2} @@ s2 :> {1, 2}

Span(lo, hi, c) == [lo |-> lo, hi |-> hi, protocol |-> c]
MCAdvertisement == {<<Span(4, 4, 17)>>}
MCAdvertisements ==
    {<<>>, <<Span(1, 2, 0), Span(4, 6, 0)>>, <<Span(4, 4, 17), Span(5, 4, 0)>>, <<Span(0, 7, 17)>>,
     <<Span(4, 6, 0), Span(5, 7, 17)>>}

Ranges(addrs, c) == [addrs |-> addrs, protocol |-> c]
MCScope == s1 :> {Ranges(MCAddr, 0)} @@ s2 :> {Ranges({3, 4}, 17)}

Msg(src, dst, c, n, ttl, e) ==
    [src |-> src, dst |-> dst, protocol |-> c, length |-> n, ttl |-> ttl, error |-> e]
MCPacket ==
    {Msg(2, 3, 17, 2, 2, FALSE), Msg(3, 4, 17, 2, 2, FALSE), Msg(3, 4, 17, 3, 1, FALSE),
     Msg(7, 3, 17, 1, 2, FALSE), Msg(3, 6, 1, 1, 1, TRUE), Msg(3, 0, 17, 1, 2, FALSE)}
================================================================================
