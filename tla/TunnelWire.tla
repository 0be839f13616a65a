------------------------------ MODULE TunnelWire ------------------------------
(***************************************************************************)
(* One CONNECT-IP session from the configuration of its proxy to its       *)
(* packets: the proxy resolves and validates its settings, answers a       *)
(* request, its capsules cross the request stream, which cuts them up as   *)
(* it likes, and frames of its TUN device become packets and datagrams.    *)
(* Each stage is one step of the code or a loop of them; the algorithms    *)
(* are those of Settings, Requests, Capsules and Segments, and the         *)
(* properties compare them with what they are for.                         *)
(***************************************************************************)
EXTENDS Requests, Segments

CONSTANTS
    CommandLines, Files,    \* the command lines and files of the operator
    RequestSet,             \* requests of clients
    DnsAnswers,             \* lists of addresses that a resolver may return
    Loads,                  \* sessions and tuples that a request may find
    CapsuleLists,           \* what a sender may have to say
    Frames, Mss,            \* frames of the device, segment sizes of the kernel
    MaxDatagrams, Streams   \* what the path carries, and request streams

VARIABLES
    stage,      \* where the session is
    asked,      \* the command line and the file the proxy was started with
    conf,       \* its effective configuration
    exchange,   \* the request, what it found and the answer
    stream,     \* the capsules sent, the bytes under way and the receiver's buffer
    data        \* a frame, the packets it becomes, the datagrams that are sent

vars == <<stage, asked, conf, exchange, stream, data>>

NoStream == [sent |-> <<>>, wire |-> <<>>, buf |-> <<>>, got |-> <<>>, failed |-> FALSE]

Init ==
    /\ stage = "boot"
    /\ asked = None /\ conf = None /\ exchange = None
    /\ stream = NoStream
    /\ data = None

-------------------------------------------------------------------------------
(***************************************************************************)
(* main: ProxyConfig::resolve and validate.                                *)
(***************************************************************************)

Starts(cli, file) == Resolves(cli, file) /\ Validate(Resolve(cli, file))

StartUp(cli, file) ==
    /\ stage = "boot" /\ Starts(cli, file)
    /\ stage' = "up"
    /\ asked' = [cli |-> cli, file |-> file]
    /\ conf' = Resolve(cli, file)
    /\ UNCHANGED <<exchange, stream, data>>

ConfigError(cli, file) ==
    /\ stage = "boot" /\ ~Starts(cli, file)
    /\ stage' = "down"
    /\ asked' = [cli |-> cli, file |-> file]
    /\ UNCHANGED <<conf, exchange, stream, data>>

\* What lookup_host returns; an error has no addresses either.
DnsOf(req) == IF req.path.target.is = "host" THEN DnsAnswers ELSE {<<>>}

\* The handshake, and the request that the connection carries.
HandleRequest(req, dns, load) ==
    /\ stage = "up" /\ Handshakes(conf, req.cert)
    /\ stage' = "answered"
    /\ exchange' = [req |-> req, dns |-> dns, load |-> load,
                     answer |-> Answer(conf, req, dns, load)]
    /\ UNCHANGED <<asked, conf, stream, data>>

RefuseHandshake(req) ==
    /\ stage = "up" /\ ~Handshakes(conf, req.cert)
    /\ stage' = "answered"
    /\ exchange' = [req |-> req, dns |-> <<>>, load |-> None, answer |-> Status(0)]
    /\ UNCHANGED <<asked, conf, stream, data>>

-------------------------------------------------------------------------------
(***************************************************************************)
(* The capsules of an accepted tunnel.                                     *)
(***************************************************************************)

Encoded(capsules) == FoldLeft(LAMBDA bytes, c : bytes \o EncodeCapsule(c), <<>>, capsules)

\* send_capsule: the routes, then whatever else there is to say.
OpenTunnel(more) ==
    LET sent == <<[type |-> Routes, items |-> exchange.answer.routes]>> \o more
    IN  /\ stage = "answered"
        /\ exchange.answer.status = 200 /\ exchange.req.protocol = "connect-ip"
        /\ stage' = "capsules"
        /\ stream' = [NoStream EXCEPT !.sent = sent, !.wire = Encoded(sent)]
        /\ asked' = None /\ conf' = None /\ exchange' = None
        /\ UNCHANGED data

\* while let Some(capsule) = buffer.next_capsule()?
RECURSIVE Drained(_, _)
Drained(buf, got) ==
    LET next == NextCapsule(buf)
    IN  CASE next.state = "none" -> [buf |-> buf, got |-> got, failed |-> FALSE]
          [] next.state = "err"  -> [buf |-> <<>>, got |-> got, failed |-> TRUE]
          [] next.state = "some" -> Drained(next.rest, Append(got, next.capsule))

\* recv_data returns the next n bytes; they are pushed and the buffer drained.
ReceiveChunk(n) ==
    LET d == Drained(stream.buf \o SubSeq(stream.wire, 1, n), stream.got)
    IN  /\ stage = "capsules" /\ ~stream.failed
        /\ stream' = [stream EXCEPT !.wire = Drop(@, n), !.buf = d.buf,
                                    !.got = d.got, !.failed = d.failed]
        /\ UNCHANGED <<stage, asked, conf, exchange, data>>

\* The tunnel carries packets once its capsules are through.
Established ==
    /\ stage = "capsules" /\ stream.wire = <<>> /\ ~stream.failed
    /\ stage' = "packets"
    /\ stream' = NoStream
    /\ UNCHANGED <<asked, conf, exchange, data>>

-------------------------------------------------------------------------------
(***************************************************************************)
(* The data plane.                                                         *)
(***************************************************************************)

\* spawn_tun's read pump.
ReadFrame(f, gso, mss) ==
    /\ stage = "packets"
    /\ stage' = "read"
    /\ data' = [frame |-> f, gso |-> gso, mss |-> mss,
                packets |-> Expand(f, gso, mss), datagrams |-> <<>>, path |-> None]
    /\ UNCHANGED <<asked, conf, exchange, stream>>

\* Packets up to the tunnel's MTU are framed and handed to QUIC.  Here the
\* payload stands for the packet.
SendPackets(max, id) ==
    LET qsid == QuarterStreamId(id)
        mtu  == MaxIpPacketSize(max, qsid)
        fits == SelectSeq(data.packets, LAMBDA p : mtu.ok /\ Len(p.data) <= mtu.val)
    IN  /\ stage = "read"
        /\ stage' = "sent"
        /\ data' = [data EXCEPT
                !.path = [max |-> max, qsid |-> qsid],
                !.datagrams = [i \in 1 .. Len(fits) |->
                                  EncodeDatagram(qsid, ContextIdIpPacket, fits[i].data)]]
        /\ UNCHANGED <<asked, conf, exchange, stream>>

Next ==
    \/ \E cli \in CommandLines, file \in Files : StartUp(cli, file) \/ ConfigError(cli, file)
    \/ \E req \in RequestSet : \E dns \in DnsOf(req), load \in Loads :
           HandleRequest(req, dns, load)
    \/ \E req \in RequestSet : RefuseHandshake(req)
    \/ \E more \in CapsuleLists : OpenTunnel(more)
    \/ \E n \in 1 .. Len(stream.wire) : ReceiveChunk(n)
    \/ Established
    \/ \E f \in Frames, gso \in {"none", "tcp4", "tcp6", "other"}, mss \in Mss :
           ReadFrame(f, gso, mss)
    \/ \E max \in MaxDatagrams, id \in Streams : SendPackets(max, id)

Spec == Init /\ [][Next]_vars

-------------------------------------------------------------------------------
(***************************************************************************)
(* Properties.                                                             *)
(***************************************************************************)

\* The bytes, packets and answers are of the kinds that the code declares.
WireTypeOK ==
    /\ stage \in {"boot", "down", "up", "answered", "capsules", "packets", "read", "sent"}
    /\ \A i \in 1 .. Len(stream.wire) : stream.wire[i] \in 0 .. 2^ByteBits - 1
    /\ exchange # None => exchange.answer.status \in {0, 200, 400, 401, 501, 502, 503}
    /\ data # None =>
         \A i \in 1 .. Len(data.packets) : LET p == data.packets[i] IN
             /\ p.seq \in 0 .. SeqSpace - 1 /\ p.id \in 0 .. Word - 1
             /\ p.sum \in 0 .. Word - 1 /\ p.ipsum \in 0 .. Word - 1

-----------------------------------------------------------------------------
\* The value the operator asked for: the command line decides, then the file.
Asked(f) ==
    IF f \in DOMAIN asked.cli THEN asked.cli[f]
    ELSE IF asked.file # None /\ InFile(asked.file, f) THEN FromFile(asked.file, f)
    ELSE Default[f]

\* The client can prove who it is in the way that the operator asked for.
Entitled(req) ==
    \/ Asked("auth_mode") = "none"
    \/ /\ Asked("auth_mode") = "bearer" /\ req.authorization # None
       /\ req.authorization.scheme = "bearer" /\ req.authorization.value \in Asked("auth_token")
    \/ /\ Asked("auth_mode") = "basic" /\ req.authorization # None
       /\ req.authorization.scheme = "basic" /\ req.authorization.value \in Asked("auth_basic")
    \/ Asked("auth_mode") = "mtls" /\ req.cert # None /\ req.cert = Asked("client_ca")

\* The request is what RFC 9484 or the bind draft define.
Understood(req) ==
    /\ req.method = "CONNECT" /\ req.capsules = "?1"
    /\ \/ /\ req.protocol = "connect-ip" /\ req.path.root = "ip"
          /\ req.path.proto.is = "num" => req.path.proto.n < 2^ByteBits
          /\ req.path.proto.is # "text" /\ req.path.target.is \notin {"empty", "junk"}
          /\ req.path.target.is = "net" => req.path.target.plen <= AddrBits(req.path.target.ver)
       \/ req.protocol = "connect-udp" /\ req.bind = "?1" /\ req.path.root = "udp"

\* The addresses that the scope of an understood tunnel request stands for.
ScopeAddrs(req, dns) ==
    LET t == req.path.target
        members(net) == {<<net.ver, a>> : a \in {a \in AllAddrs(net.ver) :
            a \div 2^(AddrBits(net.ver) - net.plen) =
                net.addr \div 2^(AddrBits(net.ver) - net.plen)}}
        v6 == Asked("ipv6_pool") # None
        split == Asked("split_routes")
    IN  CASE t.is = "net"  -> members(t)
          [] t.is = "ip"   -> {<<t.ver, t.addr>>}
          [] t.is = "host" -> {<<dns[i].ver, dns[i].addr>> : i \in
                                  {i \in 1 .. Len(dns) : dns[i].ver = 4 \/ v6}}
          [] t.is = "star" ->
                 members(Asked("ipv4_pool"))
                 \cup (IF v6 THEN members(Asked("ipv6_pool")) ELSE {})
                 \cup (IF split = <<>>
                       THEN ({4} \X AllAddrs(4)) \cup (IF v6 THEN {6} \X AllAddrs(6) ELSE {})
                       ELSE UNION {members(split[i]) : i \in 1 .. Len(split)})

\* A request is answered as the command line and the file together ask for:
\* what is not understood is refused, then a bind when bind mode is off, then a
\* client that does not authenticate, then a name without a usable address,
\* then a session over the limit or a bind that finds no tuple, and exactly the
\* rest is accepted (config.rs, auth.rs and the two handlers).  And whatever
\* the layers of the configuration, the relay binds no socket for a client
\* that proved nothing (config.rs: "no anonymous bind mode").
AnswerIsRight ==
    exchange # None =>
        LET req  == exchange.req
            bind == req.protocol = "connect-udp"
            code == exchange.answer.status
            open == Understood(req) /\ Entitled(req) /\ (bind => Asked("udp_bind"))
            lost == ~bind /\ ScopeAddrs(req, exchange.dns) = {}
            busy == IF bind THEN ~exchange.load.tuple
                    ELSE Asked("max_sessions") \in 1 .. exchange.load.sessions
        IN  /\ code = 0 <=> Asked("auth_mode") = "mtls" /\ ~Entitled(req)
            /\ code = 400 <=> ~Understood(req) /\ code # 0
            /\ code = 501 <=> Understood(req) /\ bind /\ ~Asked("udp_bind") /\ code # 0
            /\ code = 401 <=> /\ Understood(req) /\ ~Entitled(req) /\ code # 0
                              /\ bind => Asked("udp_bind")
            /\ code = 502 <=> open /\ lost
            /\ code = 503 <=> open /\ ~lost /\ busy
            /\ code = 200 <=> open /\ ~lost /\ ~busy
            /\ code = 200 /\ bind => req.authorization # None \/ req.cert # None

\* The advertised routes cover the addresses of the scope and no others, for
\* the protocol asked for and for ICMP, and are apart from each other, as
\* RFC 9484 demands (resolve_advertised_routes, merge_ranges).
RoutesAreTheScope ==
    exchange # None =>
        LET req == exchange.req
            routes == exchange.answer.routes
            proto == IF req.path.proto.is = "num" THEN req.path.proto.n ELSE 0
            scope == ScopeAddrs(req, exchange.dns)
            covered(v, a, p) == \E i \in 1 .. Len(routes) : Covers(routes[i], v, a, p)
        IN  routes # <<>> =>
              /\ \A v \in {4, 6} : \A a \in AllAddrs(v) : \A p \in {1, 2, 3, 58} :
                     covered(v, a, p) <=>
                         /\ <<v, a>> \in scope
                         /\ proto \in {0, p} \/ p = IcmpProto[v]
              /\ \A i, j \in 1 .. Len(routes) :
                     i < j /\ routes[i].ver = routes[j].ver => routes[i].end + 1 < routes[j].start

-----------------------------------------------------------------------------
\* A capsule that its receiver has to accept.
WellFormed(c) ==
    /\ c.type \in AddressLists =>
         \A i \in 1 .. Len(c.items) : LET x == c.items[i] IN
             x.ver \in {4, 6} /\ x.plen <= AddrBits(x.ver) /\ (c.type = 2 => x.id > 0)
    /\ c.type = 2 => c.items # <<>>
    /\ c.type = Routes =>
         /\ \A i \in 1 .. Len(c.items) : c.items[i].start <= c.items[i].end
         /\ \A i, j \in 1 .. Len(c.items) :
                i < j /\ WireKey(c.items[i]) = WireKey(c.items[j]) => c.items[i].end < c.items[j].end

\* However the stream cuts up the bytes, the receiver has exactly the capsules
\* that have arrived in full, as they were sent, and has failed exactly when
\* the next of these is one it must refuse (CapsuleBuffer, encode and decode).
CapsulesArriveIntact ==
    stage = "capsules" =>
        LET total == Len(Encoded(stream.sent)) - Len(stream.wire)
            sent(k) == SubSeq(stream.sent, 1, k)
            arrived == {k \in 0 .. Len(stream.sent) : Len(Encoded(sent(k))) <= total}
            good == {k \in arrived : \A i \in 1 .. k : WellFormed(stream.sent[i])}
            n == CHOOSE k \in good : \A m \in good : m <= k
        IN  /\ stream.got = [i \in 1 .. n |-> Canonical(stream.sent[i])]
            /\ stream.failed <=> good # arrived
            /\ ~stream.failed => Len(stream.buf) = total - Len(Encoded(sent(n)))

-----------------------------------------------------------------------------
\* The bytes of a packet with their places in the TCP stream.
Placed(p) == {<<(p.seq + i - 1) % SeqSpace, p.data[i]>> : i \in 1 .. Len(p.data)}

\* The packets of a frame are the frame to a TCP receiver: every byte once and
\* in its place, none longer than the segment size, the stream ended and pushed
\* where the sender did, the window reduction announced once, and no two IPv4
\* packets with the same identification (segment_tcp).
SegmentsCarryTheStream ==
    data # None /\ data.packets # <<>> =>
        LET f == data.frame
            p == data.packets
            has(flag) == {i \in 1 .. Len(p) : flag \in p[i].flags}
        IN  /\ UNION {Placed(p[i]) : i \in 1 .. Len(p)} = Placed(f)
            /\ FoldLeft(LAMBDA n, q : n + Len(q.data), 0, p) = Len(f.data)
            /\ Segmented(data.gso) => \A i \in 1 .. Len(p) : Len(p[i].data) \in 1 .. data.mss
            /\ has("FIN") = IF "FIN" \in f.flags THEN {Len(p)} ELSE {}
            /\ has("PSH") = IF "PSH" \in f.flags THEN {Len(p)} ELSE {}
            /\ has("CWR") = IF "CWR" \in f.flags THEN {1} ELSE {}
            /\ f.ver = 4 => Cardinality({p[i].id : i \in 1 .. Len(p)}) = Len(p)

\* What the receiver of a packet adds up, byte by byte.
ReceivedTcpSum(p) ==
    LET places == 1 .. Len(p.data)
        high   == {i \in places : i % 2 = 1}
    IN  p.addrs + TcpProto + TcpLen + Len(p.data)
        + (p.seq \div Word) + (p.seq % Word) + FlagWord(p.flags) + p.sum
        + 2^ByteBits * MapThenSumSet(LAMBDA i : p.data[i], high)
        + MapThenSumSet(LAMBDA i : p.data[i], places \ high)

\* The checksums of every packet that leaves the device verify: the sum over
\* all that they cover, themselves included, is all ones (internet_checksum).
ChecksumsVerify ==
    data # None =>
        \A i \in 1 .. Len(data.packets) : LET p == data.packets[i] IN
            /\ Folded(ReceivedTcpSum(p)) = Word - 1
            /\ p.ver = 4 => Folded(IpSum(p, p.ipsum)) = Word - 1

\* A packet is sent exactly when its datagram fits what the path carries, and
\* the other side reads the stream, the context and the packet back
\* (datagram_overhead, max_ip_packet_size, encode_ and decode_quic_datagram).
DatagramsFit ==
    stage = "sent" =>
        LET framed(p) == EncodeDatagram(data.path.qsid, ContextIdIpPacket, p.data)
            fit == SelectSeq(data.packets, LAMBDA p : Len(framed(p)) <= data.path.max)
        IN  data.datagrams = [i \in 1 .. Len(fit) |-> framed(fit[i])]
            /\ \A i \in 1 .. Len(fit) :
                   DecodeDatagram(data.datagrams[i]) =
                       Parsed(<<data.path.qsid, ContextIdIpPacket>>, fit[i].data)

\* A frame that the kernel hands over arrives at the other end of the tunnel as
\* the same piece of the TCP stream: its packets carry the stream and verify,
\* and those that fit the path are the datagrams (segment_tcp,
\* internet_checksum, encode_quic_datagram).
FrameArrivesIntact == SegmentsCarryTheStream /\ ChecksumsVerify /\ DatagramsFit
===============================================================================
