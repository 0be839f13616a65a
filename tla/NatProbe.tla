-------------------------------- MODULE NatProbe --------------------------------
(***************************************************************************)
(* What a peer asks the network about its NAT before it offers an address: *)
(* the mapping behaviour, in up to three STUN transactions with a          *)
(* dual-address server (src/src/p2p/stun.rs), and a port forward from the  *)
(* gateway by PCP or else NAT-PMP (p2p/portmap.rs).                        *)
(*                                                                         *)
(* Every transaction is a request that is sent again after a timeout, and  *)
(* the first datagram that comes is its answer.  The network loses, delays *)
(* and reorders datagrams, so the answer to a request that was sent twice  *)
(* may come again in a later transaction on the same socket.               *)
(***************************************************************************)
EXTENDS Naturals, Sequences, FiniteSets

CONSTANT Attempts   \* ATTEMPTS, 3 in the code

ASSUME ProbeAssumption == Attempts \in Nat \ {0}

Tests == {"test1", "test2", "test3"}
Asks == {"pcp", "external", "map"}

VARIABLES
    nat,        \* what the NAT does: "open", "eim", "adm" or "apdm"
    dual,       \* the STUN server has two addresses and says so
    step,       \* the transaction that runs, or "idle"
    attempt,    \* how often its request was sent
    net,        \* datagrams under way
    ma1,        \* the reflexive address that Test I learned
    verdict,    \* what detect_mapping returned, "none" before and on an error
    forwards,   \* the external ports that the gateway forwards to the peer
    mapping     \* what map_udp returned, 0 before and on an error

probe == <<nat, dual, step, attempt, net, ma1, verdict, forwards, mapping>>

NoAddr == <<>>

ProbeInit ==
    /\ nat \in {"open", "eim", "adm", "apdm"}
    /\ dual \in BOOLEAN
    /\ step = "idle" /\ attempt = 0
    /\ net = {}
    /\ ma1 = NoAddr
    /\ verdict = "none"
    /\ forwards = {} /\ mapping = 0

-------------------------------------------------------------------------------
(***************************************************************************)
(* The servers and the network.                                            *)
(***************************************************************************)

\* The STUN server listens on the four combinations of two IPs and two ports,
\* and names the diagonally opposite one as its OTHER-ADDRESS.
Primary == <<"a", 1>>
Other(listen) == <<IF listen[1] = "a" THEN "b" ELSE "a", IF listen[2] = 1 THEN 2 ELSE 1>>

\* Where the three tests go.
Target(s) ==
    CASE s = "test1" -> Primary
      [] s = "test2" -> Other(Primary)
      [] s = "test3" -> <<Primary[1], Other(Primary)[2]>>

\* The source address that the NAT gives to a packet for dst.
Reflexive(dst) ==
    CASE nat = "open" -> <<"host">>
      [] nat = "eim"  -> <<"ext">>
      [] nat = "adm"  -> <<"ext", dst[1]>>
      [] nat = "apdm" -> <<"ext", dst[1], dst[2]>>

Request(s, n) == [type |-> "request", step |-> s, copy |-> n, ok |-> TRUE, addr |-> NoAddr, port |-> 0]
Response(m, ok, addr, port) ==
    [type |-> "answer", step |-> m.step, copy |-> m.copy, ok |-> ok, addr |-> addr, port |-> port]

\* serve_socket answers with the source it sees.
StunServer(m) ==
    /\ m.step \in Tests
    /\ net' = (net \ {m}) \cup {Response(m, TRUE, Reflexive(Target(m.step)), 0)}
    /\ UNCHANGED <<nat, dual, step, attempt, ma1, verdict, forwards, mapping>>

\* The gateway refuses, in its own way when it does not speak the protocol, or
\* installs a forward; the two protocols give different ports.
GatewayRefuses(m) ==
    /\ m.step \in Asks
    /\ net' = (net \ {m}) \cup {Response(m, FALSE, NoAddr, 3)}
    /\ UNCHANGED <<nat, dual, step, attempt, ma1, verdict, forwards, mapping>>

GatewayGrants(m) ==
    LET port == CASE m.step = "pcp" -> 1 [] m.step = "map" -> 2 [] OTHER -> 0 IN
    /\ m.step \in Asks
    /\ net' = (net \ {m}) \cup {Response(m, TRUE, NoAddr, port)}
    /\ forwards' = forwards \cup ({port} \ {0})
    /\ UNCHANGED <<nat, dual, step, attempt, ma1, verdict, mapping>>

Servers ==
    \E m \in net : m.type = "request" /\ (StunServer(m) \/ GatewayRefuses(m) \/ GatewayGrants(m))

-------------------------------------------------------------------------------
(***************************************************************************)
(* One transaction.                                                        *)
(***************************************************************************)

\* The function is called on a fresh socket; a new transaction has a new id.
Begin(s, under) ==
    /\ step' = s
    /\ attempt' = 1
    /\ net' = under \cup {Request(s, 1)}

\* Mutant of ParseBinding: the transaction id is not compared.
ParseBinding_AnyId(m) == m.ok

\* parse_binding_response: a success response with the cookie and the
\* transaction id of the request.
ParseBinding(m) == m.step = step /\ m.ok

\* Mutant of ParsePcpMap: the result code is not looked at.
ParsePcpMap_AnyResult(m) == m.step = "pcp"

\* parse_pcp_map: version, opcode, result and nonce.
ParsePcpMap(m) == m.step = "pcp" /\ m.ok

\* parse_natpmp_external and parse_natpmp_map: version, opcode and result; there
\* is nothing that names the request.
ParseNatPmp(m) == m.step = step /\ m.ok

Matches(m) ==
    \/ step \in Tests /\ ParseBinding(m)
    \/ step = "pcp" /\ ParsePcpMap(m)
    \/ step \in {"external", "map"} /\ ParseNatPmp(m)

\* The timeout of an attempt, with another one to go.
Resend ==
    /\ step # "idle" /\ attempt < Attempts
    /\ attempt' = attempt + 1
    /\ net' = net \cup {Request(step, attempt + 1)}
    /\ UNCHANGED <<nat, dual, step, ma1, verdict, forwards, mapping>>

\* The datagram m is the first to arrive.  One that is lost stays under way, and
\* so does one that comes after the timeout, until a later transaction has it.
Take(m, good) ==
    /\ m.type = "answer"
    /\ Matches(m) = good

\* The function returns: its socket is dropped, and nothing that is under way
\* reaches another one.
Finish == step' = "idle" /\ attempt' = 0 /\ net' = {}

\* The last attempt timed out.
NoAnswer == attempt = Attempts

-------------------------------------------------------------------------------
(***************************************************************************)
(* detect_mapping.                                                         *)
(***************************************************************************)
Detect ==
    /\ step = "idle"
    /\ Begin("test1", net)
    /\ UNCHANGED <<nat, dual, ma1, verdict, forwards, mapping>>

\* The socket is bound to 0.0.0.0, which no reflexive address equals: the early
\* return of Open is never taken, and a host without a NAT goes on to Test II.
Test1(m) ==
    /\ step = "test1" /\ Take(m, TRUE) /\ dual
    /\ ma1' = m.addr
    /\ Begin("test2", net \ {m})
    /\ UNCHANGED <<nat, dual, verdict, forwards, mapping>>

Test2Same(m) ==
    /\ step = "test2" /\ Take(m, TRUE) /\ m.addr = ma1
    /\ verdict' = "eim"
    /\ Finish
    /\ UNCHANGED <<nat, dual, ma1, forwards, mapping>>

Test2Differs(m) ==
    /\ step = "test2" /\ Take(m, TRUE) /\ m.addr # ma1
    /\ Begin("test3", net \ {m})
    /\ UNCHANGED <<nat, dual, ma1, verdict, forwards, mapping>>

Test3(m) ==
    /\ step = "test3" /\ Take(m, TRUE)
    /\ verdict' = IF m.addr = ma1 THEN "adm" ELSE "apdm"
    /\ Finish
    /\ UNCHANGED <<nat, dual, ma1, forwards, mapping>>

\* No OTHER-ADDRESS, another answer than the one asked for, or no answer.
DetectFails ==
    /\ step \in Tests
    /\ \/ NoAnswer
       \/ \E m \in net : Take(m, FALSE) \/ (step = "test1" /\ Take(m, TRUE) /\ ~dual)
    /\ Finish
    /\ UNCHANGED <<nat, dual, ma1, verdict, forwards, mapping>>

-------------------------------------------------------------------------------
(***************************************************************************)
(* map_udp_via.                                                            *)
(***************************************************************************)
MapUdp ==
    /\ step = "idle"
    /\ Begin("pcp", net)
    /\ UNCHANGED <<nat, dual, ma1, verdict, forwards, mapping>>

Mapped(m) ==
    /\ step \in {"pcp", "map"} /\ Take(m, TRUE)
    /\ mapping' = m.port
    /\ Finish
    /\ UNCHANGED <<nat, dual, ma1, verdict, forwards>>

\* Whatever went wrong with PCP, NAT-PMP is tried.
PcpFails ==
    /\ step = "pcp"
    /\ \/ NoAnswer /\ Begin("external", net)
       \/ \E m \in net : Take(m, FALSE) /\ Begin("external", net \ {m})
    /\ UNCHANGED <<nat, dual, ma1, verdict, forwards, mapping>>

External(m) ==
    /\ step = "external" /\ Take(m, TRUE)
    /\ Begin("map", net \ {m})
    /\ UNCHANGED <<nat, dual, ma1, verdict, forwards, mapping>>

NatPmpFails ==
    /\ step \in {"external", "map"}
    /\ NoAnswer \/ \E m \in net : Take(m, FALSE)
    /\ Finish
    /\ UNCHANGED <<nat, dual, ma1, verdict, forwards, mapping>>

Transaction ==
    \/ \E m \in net : \/ Test1(m) \/ Test2Same(m) \/ Test2Differs(m) \/ Test3(m)
                      \/ Mapped(m) \/ External(m)
    \/ DetectFails \/ PcpFails \/ NatPmpFails
    \/ Resend

-------------------------------------------------------------------------------
(***************************************************************************)
(* Properties.                                                             *)
(***************************************************************************)

\* A verdict is the behaviour of the NAT, however the answers of the three
\* tests were lost, late, repeated or mixed up; of a host without a NAT it is
\* one of the two that is_punchable accepts.  punch_is_futile gives up on a
\* direct path on the strength of it.
VerdictIsRight ==
    verdict # "none" => IF nat = "open" THEN verdict \in {"open", "eim"} ELSE verdict = nat

\* "No NAT: the reflexive equals the local address" (NatMapping::Open): a host
\* without a NAT is reported as open.
OpenIsReported == verdict # "none" /\ nat = "open" => verdict = "open"

\* The port that a peer advertises as mapped is one that the gateway forwards,
\* also when the answer that came was that of an earlier request.
MappingIsForwarded == mapping # 0 => mapping \in forwards
================================================================================
