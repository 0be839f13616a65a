--------------------------- MODULE MCClientPrograms ---------------------------
(***************************************************************************)
(* Four addresses, of which the proxy is the last.  The proxy may advertise*)
(* everything, a range that is no prefix, itself, or one protocol.         *)
(***************************************************************************)
EXTENDS ClientPrograms

MCAddr == 0 .. 3
MCPrefix == {{a} : a \in MCAddr} \cup {{0, 1}, {2, 3}, MCAddr}

Span(lo, hi, c) == [lo |-> lo, hi |-> hi, protocol |-> c]
Assign(v) == [type |-> "assign", value |-> v]
Routes(v) == [type |-> "routes", value |-> v]
MCCapsule ==
    {Assign(<<0>>), Assign(<<1>>),
     Routes(<<Span(0, 3, 0)>>), Routes(<<Span(1, 1, 0), Span(3, 3, 0), Span(0, 1, 17)>>),
     [type |-> "other"], [type |-> "malformed"]}

Started(p, pin, install) == [program |-> p, pin |-> pin, installRoutes |-> install]
MCOption ==
    {Started("strawc", TRUE, TRUE), Started("strawc", FALSE, FALSE), Started("vpn", FALSE, TRUE),
     Started("ping", FALSE, FALSE), Started("library", FALSE, FALSE)}
===============================================================================
