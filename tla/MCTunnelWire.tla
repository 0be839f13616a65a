----------------------------- MODULE MCTunnelWire -----------------------------
(***************************************************************************)
(* An instance of TunnelWire for TLC: bytes of four bits, IPv4 addresses   *)
(* of one byte, IPv6 addresses of two.                                     *)
(***************************************************************************)
EXTENDS TunnelWire, TLC

Net(v, a, n) == [ver |-> v, addr |-> a, plen |-> n]
V4Pool == Net(4, 8, 2)
V6Pool == Net(6, 32, 4)

\* Files with one purpose each: a complete relay, Basic authentication, a
\* site with IPv6 and split routes that overlap, and one with an unknown key.
OperatorFiles == {
    None,
    [auth |-> [mode |-> "bearer", bearer_tokens |-> {"t1"}],
     udp_bind |-> [enabled |-> TRUE, public_ips |-> {"203.0.113.1"}]],
    [auth |-> [mode |-> "basic", basic_credentials |-> {<<"ann", "p1">>}], tunnel |-> [mtu |-> 1280]],
    [address_pool |-> [ipv6_range |-> V6Pool],
     routing |-> [split_routes |-> <<Net(4, 6, 3), Net(4, 4, 2), Net(6, 16, 3)>>],
     limits |-> [max_sessions |-> 1]],
    [udp_bind |-> [enabled |-> TRUE, public_addresses |-> {"203.0.113.1"}]]}

OperatorCommandLines == {
    <<>>,
    "auth_mode" :> "none",
    "auth_mode" :> "bearer",
    "auth_token" :> {"t2"},
    "auth_mode" :> "bearer" @@ "auth_token" :> {"t2"},
    "auth_mode" :> "basic",
    "auth_basic" :> {<<"bob", "p2">>},
    "auth_basic" :> {<<"bob">>},
    "auth_mode" :> "mtls" @@ "client_ca" :> "ca",
    "auth_mode" :> "none" @@ "client_ca" :> "ca",
    "auth_mode" :> "mtls",
    "udp_bind" :> TRUE,
    "udp_bind_port_lo" :> 61000,
    "nat_interface" :> "eth0",
    "nat_interface" :> "eth0" @@ "tun" :> TRUE,
    "mtu" :> 1279,
    "max_sessions" :> 0,
    "max_sessions" :> 2,
    "ipv6_pool" :> V6Pool,
    "split_routes" :> <<Net(4, 8, 1), Net(4, 0, 2)>>,
    "cert" :> "cert.pem"}

Star == [is |-> "star"]
Targets == {Star, [is |-> "ip", ver |-> 4, addr |-> 5],
            [is |-> "net", ver |-> 4, addr |-> 7, plen |-> 2],
            [is |-> "net", ver |-> 6, addr |-> 40, plen |-> 6],
            [is |-> "net", ver |-> 4, addr |-> 7, plen |-> 5],
            [is |-> "host", name |-> "h"], [is |-> "empty"], [is |-> "junk"]}
Protos == {Star, [is |-> "num", n |-> 2], [is |-> "num", n |-> 17], [is |-> "text"]}
Headers == {None} \cup [scheme : {"bearer"}, value : {"t1", "t2"}]
                  \cup [scheme : {"basic"}, value : {<<"ann", "p1">>, <<"bob", "p1">>, <<"bob">>}]
Certs == {None, "ca", "otherca"}

Path(root, target, proto) == [root |-> root, target |-> target, proto |-> proto]
IpRequest == [method |-> "CONNECT", protocol |-> "connect-ip", capsules |-> "?1", bind |-> None,
              path |-> Path("ip", Star, Star), authorization |-> None, cert |-> None]
BindRequest == [IpRequest EXCEPT !.protocol = "connect-udp", !.bind = "?1",
                                 !.path = Path("udp", Star, Star)]

\* All paths and all credentials, and every other way to be refused.
ClientRequests ==
    {[IpRequest EXCEPT !.path = Path("ip", t, p), !.authorization = h, !.cert = x] :
        t \in Targets, p \in Protos, h \in {None, [scheme |-> "bearer", value |-> "t2"]}, x \in {None, "ca"}}
    \cup {[r EXCEPT !.authorization = h, !.cert = x] : r \in {IpRequest, BindRequest}, h \in Headers, x \in Certs}
    \cup {[r EXCEPT !.method = "GET"] : r \in {IpRequest, BindRequest}}
    \cup {[r EXCEPT !.capsules = None] : r \in {IpRequest, BindRequest}}
    \cup {[r EXCEPT !.protocol = p] : r \in {IpRequest, BindRequest}, p \in {None, "websocket"}}
    \cup {[r EXCEPT !.path.root = "other"] : r \in {IpRequest, BindRequest}}
    \cup {[BindRequest EXCEPT !.bind = None]}

Resolved == {<<>>, <<[ver |-> 6, addr |-> 9]>>,
             <<[ver |-> 4, addr |-> 4], [ver |-> 6, addr |-> 9], [ver |-> 4, addr |-> 3], [ver |-> 4, addr |-> 4]>>}

SomeLoads == {[sessions |-> 0, tuple |-> TRUE], [sessions |-> 1, tuple |-> FALSE],
              [sessions |-> 2, tuple |-> TRUE]}

Listed(id, v, ip, n) == [id |-> id, ver |-> v, ip |-> ip, plen |-> n]
SomeCapsules == {
    [type |-> 1, items |-> <<Listed(0, 4, 9, 4), Listed(4, 6, 33, 8)>>],
    [type |-> 1, items |-> <<>>],
    [type |-> 1, items |-> <<Listed(1, 4, 9, 5)>>],
    [type |-> 2, items |-> <<Listed(64, 4, 0, 4)>>],
    [type |-> 2, items |-> <<Listed(0, 4, 0, 4)>>],
    [type |-> 2, items |-> <<>>],
    [type |-> Routes, items |-> <<Range_(6, 0, 255, 0), Range_(4, 8, 15, 3), Range_(4, 9, 9, 1)>>],
    [type |-> Routes, items |-> <<Range_(4, 3, 3, 0), Range_(4, 3, 3, 0)>>],
    [type |-> Routes, items |-> <<Range_(4, 9, 8, 0)>>],
    [type |-> 20, data |-> <<>>]}
Sayings == {<<>>} \cup {<<c, [type |-> 20, data |-> <<1, 2, 3>>]>> : c \in SomeCapsules}

\* A frame as the kernel hands it over: with its checksums, or one of them left open.
Frame(v, id, seq, flags, bytes, partial, short) ==
    LET f == [ver |-> v, addrs |-> 301, id |-> id, seq |-> seq, flags |-> flags, data |-> bytes,
              len |-> TcpLen + Len(bytes) + IF v = 4 THEN IpLen(4) ELSE 0,
              partial |-> partial, short |-> short, sum |-> 0, ipsum |-> 0]
    IN  [f EXCEPT !.ipsum = IF v = 4 THEN InternetChecksum(IpSum(f, 0)) ELSE 0,
                  !.sum = IF partial THEN 0 ELSE InternetChecksum(TcpSum(f, 0))]

KernelFrames ==
    {Frame(v, Word - 1, seq, flags, SubSeq(<<15, 1, 0, 15, 15, 7, 8>>, 1, n), partial, short) :
        v \in {4, 6}, seq \in {0, SeqSpace - 3}, flags \in {{"ACK"}, {"ACK", "FIN", "PSH", "CWR"}},
        n \in 0 .. 7, partial \in BOOLEAN, short \in BOOLEAN}

===============================================================================
