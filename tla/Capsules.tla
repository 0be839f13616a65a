------------------------------- MODULE Capsules -------------------------------
(***************************************************************************)
(* The wire format of CONNECT-IP: variable-length integers                 *)
(* (src/src/capsule/codec.rs), the three capsules and their envelope       *)
(* (capsule/mod.rs, address_assign.rs, address_request.rs,                 *)
(* route_advertisement.rs), address ranges, and the framing of an IP       *)
(* packet in a QUIC DATAGRAM (datagram/mod.rs).                            *)
(*                                                                         *)
(* A byte has ByteBits bits (8 in the code) and an address V4Octets or     *)
(* V6Octets bytes (4 and 16), so that TLC can enumerate short addresses    *)
(* and meet all four varint lengths.  A parser takes bytes and returns     *)
(* what it read with the rest, or Fail.                                    *)
(***************************************************************************)
EXTENDS Integers, Sequences, SequencesExt

CONSTANTS ByteBits, V4Octets, V6Octets

ASSUME WidthAssumption ==
    /\ ByteBits \in Nat /\ ByteBits >= 4    \* a byte holds the version number 6
    /\ V4Octets \in 1 .. V6Octets

Fail == [ok |-> FALSE]
Parsed(val, rest) == [ok |-> TRUE, val |-> val, rest |-> rest]

\* A parser goes on with what another one read, or fails with it: the `?' of the code.
Then(parsed, Rest(_, _)) == IF parsed.ok THEN Rest(parsed.val, parsed.rest) ELSE Fail

Drop(s, n) == SubSeq(s, n + 1, Len(s))

\* v in n bytes, and back: the most significant byte comes first.
BigEndian(v, n) == [i \in 1 .. n |-> (v \div 2^(ByteBits * (n - i))) % 2^ByteBits]
Number(bytes) == FoldLeft(LAMBDA acc, b : acc * 2^ByteBits + b, 0, bytes)

-------------------------------------------------------------------------------
(***************************************************************************)
(* Variable-length integers: the two high bits of the first byte are the   *)
(* logarithm of the length.                                                *)
(***************************************************************************)

LengthTag == [n \in {1, 2, 4, 8} |-> CHOOSE t \in 0 .. 3 : 2^t = n]
Tagged(v, n) == [BigEndian(v, n) EXCEPT ![1] = @ + LengthTag[n] * 2^(ByteBits - 2)]

VarintLen(v) ==
    CHOOSE n \in {1, 2, 4, 8} :
        /\ v < 2^(ByteBits * n - 2)
        /\ \A m \in {1, 2, 4, 8} : v < 2^(ByteBits * m - 2) => n <= m

WriteVarint(v) == Tagged(v, VarintLen(v))

ReadVarint(buf) ==
    IF buf = <<>> THEN Fail
    ELSE LET n     == 2^(buf[1] \div 2^(ByteBits - 2))
             first == buf[1] % 2^(ByteBits - 2)
         IN  IF Len(buf) < n THEN Fail
             ELSE Parsed(Number(<<first>> \o SubSeq(buf, 2, n)), Drop(buf, n))

-------------------------------------------------------------------------------
(***************************************************************************)
(* Address ranges.                                                         *)
(***************************************************************************)

IcmpProto == [v \in {4, 6} |-> IF v = 4 THEN 1 ELSE 58]
Octets(v) == IF v = 4 THEN V4Octets ELSE V6Octets
AddrBits(v) == ByteBits * Octets(v)
AllAddrs(v) == 0 .. 2^AddrBits(v) - 1

Range_(v, first, last, proto) == [ver |-> v, start |-> first, end |-> last, proto |-> proto]

\* IpAddressRange::from_net, of a prefix whose host bits need not be zero.
FromNet(net, proto) ==
    LET size == 2^(AddrBits(net.ver) - net.plen)
        low  == net.addr - (net.addr % size)
    IN  Range_(net.ver, low, low + size - 1, proto)

Covers(r, v, addr, proto) ==
    /\ r.ver = v
    /\ r.proto = 0 \/ r.proto = proto \/ proto = IcmpProto[v]
    /\ addr \in r.start .. r.end

\* The order that the fields of IpAddressRange derive, and the one of RFC 9484.
LexLess(s, t) ==
    \E i \in 1 .. Len(s) : s[i] < t[i] /\ \A j \in 1 .. i - 1 : s[j] = t[j]
FieldKey(r) == <<r.ver, r.start, r.end, r.proto>>
WireKey(r) == <<r.ver, r.proto, r.start>>

\* A stable sort of a list of ranges.
SortedBy(ranges, Key(_)) ==
    LET insert(done, r) ==
            LET before == SelectSeq(done, LAMBDA q : ~LexLess(Key(r), Key(q)))
                after  == SelectSeq(done, LAMBDA q : LexLess(Key(r), Key(q)))
            IN  before \o <<r>> \o after
    IN  FoldLeft(insert, <<>>, ranges)

\* r overlaps or touches the range merged before it.
Joins(last, r) ==
    /\ last.ver = r.ver /\ last.proto = r.proto
    /\ r.start <= last.end + 1

\* Mutant of MergeRanges: the later end wins, even when it is the smaller one.
MergeRanges_LastEnd(ranges) ==
    LET add(merged, r) ==
            IF merged # <<>> /\ Joins(Last(merged), r)
            THEN [merged EXCEPT ![Len(merged)].end = r.end]
            ELSE Append(merged, r)
    IN  FoldLeft(add, <<>>, SortedBy(ranges, FieldKey))

MergeRanges(ranges) ==
    LET add(merged, r) ==
            IF merged # <<>> /\ Joins(Last(merged), r)
            THEN [merged EXCEPT ![Len(merged)].end = IF r.end > @ THEN r.end ELSE @]
            ELSE Append(merged, r)
    IN  FoldLeft(add, <<>>, SortedBy(ranges, FieldKey))

-------------------------------------------------------------------------------
(***************************************************************************)
(* Capsules.  An ADDRESS_ASSIGN (type 1) and an ADDRESS_REQUEST (2) list   *)
(* addresses, a ROUTE_ADVERTISEMENT (3) lists ranges, and any other type   *)
(* carries bytes.                                                          *)
(***************************************************************************)

AddressLists == {1, 2}
Routes == 3

EncodeItem(type, x) ==
    IF type \in AddressLists
    THEN WriteVarint(x.id) \o <<x.ver>> \o BigEndian(x.ip, Octets(x.ver)) \o <<x.plen>>
    ELSE <<x.ver>> \o BigEndian(x.start, Octets(x.ver))
                   \o BigEndian(x.end, Octets(x.ver)) \o <<x.proto>>

\* The lengths are computed before the bytes are written.
ItemLen(type, x) ==
    IF type \in AddressLists THEN VarintLen(x.id) + 1 + Octets(x.ver) + 1
    ELSE 1 + Octets(x.ver) + Octets(x.ver) + 1

\* What the sender writes for a capsule: routes are sorted first.
Canonical(c) ==
    IF c.type = Routes THEN [c EXCEPT !.items = SortedBy(@, WireKey)] ELSE c

EncodeCapsule(c) ==
    WriteVarint(c.type) \o
    IF c.type \in AddressLists \cup {Routes}
    THEN LET items == Canonical(c).items
         IN  WriteVarint(FoldLeft(LAMBDA n, x : n + ItemLen(c.type, x), 0, items))
             \o FoldLeft(LAMBDA bytes, x : bytes \o EncodeItem(c.type, x), <<>>, items)
    ELSE WriteVarint(Len(c.data)) \o c.data

ReadByte(buf) == IF buf = <<>> THEN Fail ELSE Parsed(Head(buf), Tail(buf))

ReadAddress(v, buf) ==
    IF v \notin {4, 6} \/ Len(buf) < Octets(v) THEN Fail
    ELSE Parsed(Number(SubSeq(buf, 1, Octets(v))), Drop(buf, Octets(v)))

ReadListed(type, buf) ==
    Then(ReadVarint(buf), LAMBDA id, afterId :
    Then(ReadByte(afterId), LAMBDA v, afterVer :
    Then(ReadAddress(v, afterVer), LAMBDA ip, afterIp :
    Then(ReadByte(afterIp), LAMBDA plen, rest :
        IF (type = 2 /\ id = 0) \/ plen > AddrBits(v) THEN Fail
        ELSE Parsed([id |-> id, ver |-> v, ip |-> ip, plen |-> plen], rest)))))

ReadRange(buf) ==
    Then(ReadByte(buf), LAMBDA v, afterVer :
    Then(ReadAddress(v, afterVer), LAMBDA first, afterFirst :
    Then(ReadAddress(v, afterFirst), LAMBDA last, afterLast :
    Then(ReadByte(afterLast), LAMBDA proto, rest :
        IF first > last THEN Fail ELSE Parsed(Range_(v, first, last, proto), rest)))))

\* The items of a payload, which must be used up.
RECURSIVE ReadItems(_, _)
ReadItems(type, buf) ==
    IF buf = <<>> THEN Parsed(<<>>, <<>>)
    ELSE Then(IF type = Routes THEN ReadRange(buf) ELSE ReadListed(type, buf),
              LAMBDA x, rest : Then(ReadItems(type, rest),
                                    LAMBDA more, none : Parsed(<<x>> \o more, none)))

\* Two neighbours are refused when both orders are broken.
InOrder(ranges) ==
    \A i \in 1 .. Len(ranges) - 1 :
        \/ LexLess(FieldKey(ranges[i]), FieldKey(ranges[i + 1]))
        \/ LexLess(WireKey(ranges[i]), WireKey(ranges[i + 1]))

DecodePayload(type, payload) ==
    IF type \notin AddressLists \cup {Routes}
    THEN Parsed([type |-> type, data |-> payload], <<>>)
    ELSE Then(ReadItems(type, payload), LAMBDA items, none :
             IF (type = 2 /\ items = <<>>) \/ (type = Routes /\ ~InOrder(items)) THEN Fail
             ELSE Parsed([type |-> type, items |-> items], none))

\* The two varints before a payload.
Envelope(buf) ==
    Then(ReadVarint(buf), LAMBDA type, afterType :
    Then(ReadVarint(afterType), LAMBDA size, rest : Parsed([type |-> type, size |-> size], rest)))

Incomplete == [state |-> "none"]

\* A malformed payload in a complete envelope is fatal.
Decoded(payload, rest) ==
    IF payload.ok THEN [state |-> "some", capsule |-> payload.val, rest |-> rest]
    ELSE [state |-> "err"]

\* Mutant of NextCapsule: an envelope whose payload is not there yet is decoded.
NextCapsule_Eager(buf) ==
    LET head == Envelope(buf)
    IN  IF ~head.ok THEN Incomplete
        ELSE LET there == Min({head.val.size, Len(head.rest)})
             IN  Decoded(DecodePayload(head.val.type, SubSeq(head.rest, 1, there)),
                         Drop(head.rest, there))

\* CapsuleBuffer::next_capsule: nothing is consumed before all of it is there.
NextCapsule(buf) ==
    LET head == Envelope(buf)
    IN  IF ~head.ok THEN Incomplete
        ELSE IF Len(head.rest) < head.val.size THEN Incomplete
        ELSE Decoded(DecodePayload(head.val.type, SubSeq(head.rest, 1, head.val.size)),
                     Drop(head.rest, head.val.size))

-------------------------------------------------------------------------------
(***************************************************************************)
(* The framing of an IP packet in a QUIC DATAGRAM.                         *)
(***************************************************************************)

ContextIdIpPacket == 0

EncodeDatagram(qsid, context, packet) == WriteVarint(qsid) \o WriteVarint(context) \o packet

DecodeDatagram(bytes) ==
    Then(ReadVarint(bytes), LAMBDA qsid, afterId :
    Then(ReadVarint(afterId), LAMBDA context, rest : Parsed(<<qsid, context>>, rest)))

DatagramOverhead(qsid) == VarintLen(qsid) + VarintLen(ContextIdIpPacket)

\* The largest packet that fits, or Fail when not even the framing does.
MaxIpPacketSize(maxDatagram, qsid) ==
    IF maxDatagram < DatagramOverhead(qsid) THEN Fail
    ELSE Parsed(maxDatagram - DatagramOverhead(qsid), <<>>)

QuarterStreamId(stream) == stream \div 4
===============================================================================
