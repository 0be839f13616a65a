------------------------------- MODULE Requests -------------------------------
(***************************************************************************)
(* What the proxy answers to a request: the handler it goes to             *)
(* (src/src/server.rs), its validation (src/src/session/handler.rs,        *)
(* src/src/udp_bind/handler.rs), the scope that its path asks for          *)
(* (src/src/uri_template.rs), the authentication, and the routes that the  *)
(* proxy advertises for the scope.                                         *)
(*                                                                         *)
(* A path is a record of its root, target and protocol segments, each      *)
(* tagged with the kind of text it holds.  A prefix may be written with a  *)
(* slash or with %2F: the last slash of the path separates the protocol.   *)
(***************************************************************************)
EXTENDS Capsules, Settings

MaxPlen(v) == AddrBits(v)

\* parse_target: the prefix or hostname, None for any, or Fail.
ParseTarget(t) ==
    CASE t.is = "star" -> Parsed(None, <<>>)
      [] t.is = "net"  -> IF t.plen > MaxPlen(t.ver) THEN Fail
                          ELSE Parsed([net |-> [ver |-> t.ver, addr |-> t.addr, plen |-> t.plen]], <<>>)
      [] t.is = "ip"   -> Parsed([net |-> [ver |-> t.ver, addr |-> t.addr, plen |-> MaxPlen(t.ver)]], <<>>)
      [] t.is = "host" -> Parsed([host |-> t.name], <<>>)
      [] OTHER         -> Fail

\* parse_ipproto: a byte, None for any, or Fail.
ParseProto(p) ==
    CASE p.is = "star"                         -> Parsed(None, <<>>)
      [] p.is = "num" /\ p.n < 2^ByteBits       -> Parsed(p.n, <<>>)
      [] OTHER                                 -> Fail

\* parse_connect_ip_path.
ParsePath(path) ==
    LET target == ParseTarget(path.target)
        proto  == ParseProto(path.proto)
    IN  IF path.root # "ip" \/ ~target.ok \/ ~proto.ok THEN Fail
        ELSE Parsed([target |-> target.val, proto |-> proto.val], <<>>)

\* The two validate_request.
ValidConnect(req, protocol) ==
    /\ req.method = "CONNECT"
    /\ req.protocol = protocol
    /\ req.capsules = "?1"
ValidIp(req) == ValidConnect(req, "connect-ip") /\ ParsePath(req.path).ok
ValidBind(req) == ValidConnect(req, "connect-udp") /\ req.bind = "?1" /\ req.path.root = "udp"

-------------------------------------------------------------------------------
(***************************************************************************)
(* The advertised routes.                                                  *)
(***************************************************************************)

FullTunnel(v6, proto) ==
    <<Range_(4, 0, 2^AddrBits(4) - 1, proto)>>
    \o IF v6 THEN <<Range_(6, 0, 2^AddrBits(6) - 1, proto)>> ELSE <<>>

PoolNets(c) == <<c.ipv4_pool>> \o IF c.ipv6_pool = None THEN <<>> ELSE <<c.ipv6_pool>>

\* The answers of the resolver, in the families that addresses are assigned in.
HostRanges(c, dns, proto) ==
    LET usable == SelectSeq(dns, LAMBDA a : a.ver = 4 \/ c.ipv6_pool # None)
    IN  [i \in 1 .. Len(usable) |-> Range_(usable[i].ver, usable[i].addr, usable[i].addr, proto)]

\* resolve_advertised_routes before the merge; dns answers for a hostname.
Ranges(c, scope, dns) ==
    LET proto    == IF scope.proto = None THEN 0 ELSE scope.proto
        nets(ns) == [i \in 1 .. Len(ns) |-> FromNet(ns[i], proto)]
    IN  IF scope.target = None
        THEN nets(PoolNets(c)) \o (IF c.split_routes = <<>>
                                   THEN FullTunnel(c.ipv6_pool # None, proto)
                                   ELSE nets(c.split_routes))
        ELSE IF "net" \in DOMAIN scope.target THEN <<FromNet(scope.target.net, proto)>>
        ELSE HostRanges(c, dns, proto)

AdvertisedRoutes(c, scope, dns) == MergeRanges(Ranges(c, scope, dns))

-------------------------------------------------------------------------------
(***************************************************************************)
(* The answer: a status, and the routes of an accepted tunnel.             *)
(***************************************************************************)

Status(code) == [status |-> code, routes |-> <<>>]

\* A request finds the proxy with a number of sessions, and with a public tuple
\* that can be bound or without: load is the record of the two.

\* SessionManager::insert.
Inserts(c, load) == c.max_sessions > 0 => load.sessions < c.max_sessions

\* handle_connect_ip_stream; a name that does not resolve has no dns answers.
IpAnswer(c, req, dns, load) ==
    IF ~ValidIp(req) THEN Status(400)
    ELSE IF ~Authenticate(c, req.authorization, PeerCert(c, req.cert)) THEN Status(401)
    ELSE LET routes == AdvertisedRoutes(c, ParsePath(req.path).val, dns)
         IN  IF routes = <<>> THEN Status(502)
             ELSE IF ~Inserts(c, load) THEN Status(503)
             ELSE [status |-> 200, routes |-> routes]

\* handle_connect_udp_bind_stream: the allocation ends with a bound tuple, or
\* without one when none is free or BIND_ATTEMPTS of them cannot be bound.
BindAnswer(c, req, load) ==
    IF ~ValidBind(req) THEN Status(400)
    ELSE IF ~c.udp_bind THEN Status(501)
    ELSE IF ~Authenticate(c, req.authorization, PeerCert(c, req.cert)) THEN Status(401)
    ELSE IF ~load.tuple THEN Status(503)
    ELSE Status(200)

\* handle_connection: everything but connect-udp goes to the CONNECT-IP handler.
Answer(c, req, dns, load) ==
    IF req.protocol = "connect-udp" THEN BindAnswer(c, req, load) ELSE IpAnswer(c, req, dns, load)
===============================================================================
