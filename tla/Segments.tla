------------------------------- MODULE Segments -------------------------------
(***************************************************************************)
(* Frames read from the TUN device with a virtio-net header                *)
(* (src/src/forwarding/vnet.rs): the kernel may hand over one TCP          *)
(* aggregate for many segments and may leave a checksum to be filled in.   *)
(*                                                                         *)
(* A frame is a record: the IP version, identification and addresses (the  *)
(* sum of their words), the lengths of the headers, the TCP sequence       *)
(* number and flags, the payload as bytes, and the two checksums.  A word  *)
(* has two bytes, a sequence number two words.  `short' says that the      *)
(* frame ends before its headers do, `partial' that the checksum is left   *)
(* to the reader.                                                          *)
(***************************************************************************)
EXTENDS Capsules, FiniteSetsExt

Word == 2^(2 * ByteBits)
SeqSpace == Word * Word
IpLen(v) == IF v = 4 THEN 20 ELSE 40
TcpLen == 20
TcpProto == 6

FlagBit == [ACK |-> 8, FIN |-> 1, PSH |-> 4, CWR |-> 2]
FlagWord(flags) == MapThenSumSet(LAMBDA x : FlagBit[x], flags)

-------------------------------------------------------------------------------
(***************************************************************************)
(* The internet checksum: the complement of the sum of the words with its  *)
(* carries added back.                                                     *)
(***************************************************************************)

\* The words of a payload; the odd byte at its end is the high one of a word.
Pairs(bytes) ==
    [i \in 1 .. (Len(bytes) + 1) \div 2 |->
        bytes[2 * i - 1] * 2^ByteBits + IF 2 * i <= Len(bytes) THEN bytes[2 * i] ELSE 0]

RECURSIVE Folded(_)
Folded(sum) == IF sum < Word THEN sum ELSE Folded((sum % Word) + (sum \div Word))

InternetChecksum(sum) == Word - 1 - Folded(sum)

\* pseudo_sum: addresses, protocol and length.
PseudoSum(p, l4) == p.addrs + TcpProto + l4
\* What the TCP checksum covers, with its own field as given.
TcpSum(p, own) ==
    PseudoSum(p, TcpLen + Len(p.data))
    + (p.seq \div Word) + (p.seq % Word) + FlagWord(p.flags) + FoldLeft(+, 0, Pairs(p.data)) + own
\* What the checksum of an IPv4 header covers.
IpSum(p, own) == p.addrs + TcpProto + p.len + p.id + own

-------------------------------------------------------------------------------
(***************************************************************************)
(* expand and segment_tcp.  None of a frame's segments is handed on when   *)
(* it is malformed.                                                        *)
(***************************************************************************)

Segmented(gso) == gso \in {"tcp4", "tcp6"}

Chunk(data, mss, i) ==
    SubSeq(data, (i - 1) * mss + 1, IF i * mss < Len(data) THEN i * mss ELSE Len(data))

SegmentSeq(base, offset) == (base + offset) % SeqSpace

\* Mutant of SegmentFlags: only PSH is kept back for the last segment.
SegmentFlags_EarlyFin(flags, first, last) ==
    flags \ ((IF last THEN {} ELSE {"PSH"}) \cup (IF first THEN {} ELSE {"CWR"}))

\* FIN and PSH stay on the last segment, CWR on the first.
SegmentFlags(flags, first, last) ==
    flags \ ((IF last THEN {} ELSE {"FIN", "PSH"}) \cup (IF first THEN {} ELSE {"CWR"}))

\* The headers of one segment, and its checksums last.
Segment(f, mss, count, i) ==
    LET data  == Chunk(f.data, mss, i)
        built == [f EXCEPT
            !.data = data,
            !.len = TcpLen + Len(data) + IF f.ver = 4 THEN IpLen(4) ELSE 0,
            !.id = IF f.ver = 4 THEN (@ + i - 1) % Word ELSE @,
            !.seq = SegmentSeq(@, (i - 1) * mss),
            !.flags = SegmentFlags(@, i = 1, i = count)]
    IN  [built EXCEPT !.ipsum = IF f.ver = 4 THEN InternetChecksum(IpSum(built, 0)) ELSE @,
                      !.sum = InternetChecksum(TcpSum(built, 0))]

Malformed(f, gso, mss) ==
    \/ gso = "other"
    \/ gso = "none" /\ f.partial /\ f.short
    \/ Segmented(gso) /\ (mss = 0 \/ f.short \/ f.data = <<>>)

Expand(f, gso, mss) ==
    IF Malformed(f, gso, mss) THEN <<>>
    ELSE IF gso = "none"
    THEN <<IF f.partial THEN [f EXCEPT !.sum = InternetChecksum(TcpSum(f, 0))] ELSE f>>
    ELSE LET count == (Len(f.data) + mss - 1) \div mss
         IN  [i \in 1 .. count |-> Segment(f, mss, count, i)]
===============================================================================
