----------------------------- MODULE TunnelClient -----------------------------
(***************************************************************************)
(* The CONNECT-IP client (src/src/client.rs: Tunnel): the request, the     *)
(* capsules of the request stream, folded into the assigned addresses and  *)
(* the routes, and the queue of inbound packets.                           *)
(*                                                                         *)
(* The bytes of a capsule travel in Pieces pieces, and a chunk that the    *)
(* client reads is any run of pieces that have arrived, so a position in   *)
(* the stream is a number of pieces.  The chunk goes to the CapsuleBuffer  *)
(* (src/src/capsule/mod.rs) and leaves it as whole capsules.               *)
(***************************************************************************)
EXTENDS Integers, Sequences, FiniteSets, FiniteSetsExt

CONSTANTS
    Capsule,        \* what a proxy may write: records with a type
    MaxCapsules,    \* bound: how many it writes
    Pieces,         \* how many pieces a capsule travels in
    QueueDepth      \* TUNNEL_QUEUE_DEPTH

ASSUME ClientAssumption ==
    /\ Pieces \in Nat \ {0} /\ QueueDepth \in Nat \ {0} /\ MaxCapsules \in Nat
    /\ \A c \in Capsule : c.type \in {"assign", "routes", "other", "malformed"}

VARIABLES
    wire,       \* the capsules the proxy has written
    fin,        \* it has ended the stream
    arrived,    \* how many pieces have reached the client's transport
    taken,      \* how many pieces were pushed into the capsule buffer
    parsed,     \* how many capsules were decoded from it
    assigned,   \* Tunnel.assigned
    routes,     \* Tunnel.routes
    demux,      \* where the demux task puts packets: "none", "queue" or "sink"
    queue       \* the packets in the tunnel's queue

stream == <<wire, fin, arrived>>
capsules == <<taken, parsed>>
tunnel == <<capsules, assigned, routes>>
inbound == <<demux, queue>>

ClientInit ==
    /\ wire = <<>> /\ fin = FALSE /\ arrived = 0
    /\ taken = 0 /\ parsed = 0
    /\ assigned = <<>> /\ routes = <<>>
    /\ demux = "none" /\ queue = <<>>

-------------------------------------------------------------------------------
(***************************************************************************)
(* The proxy and the network.                                              *)
(***************************************************************************)
ProxyWrites(c) ==
    /\ ~fin /\ Len(wire) < MaxCapsules
    /\ wire' = Append(wire, c)
    /\ UNCHANGED <<fin, arrived>>

ProxyEnds ==
    /\ ~fin
    /\ fin' = TRUE
    /\ UNCHANGED <<wire, arrived>>

Arrive ==
    /\ arrived < Pieces * Len(wire)
    /\ arrived' = arrived + 1
    /\ UNCHANGED <<wire, fin>>

-------------------------------------------------------------------------------
(***************************************************************************)
(* The capsules.                                                           *)
(***************************************************************************)

\* Mutant of Chunk: a short read waits for more to come.
Chunk_Large(n) ==
    /\ n \in taken + Pieces .. arrived
    /\ taken' = n

\* recv_data: the next chunk of what has arrived.  The poll that takes it from
\* the transport returns it, so that a read whose `select!` gives up waiting for
\* it has taken nothing, and dropping it is no step.
Chunk(n) ==
    /\ n \in taken + 1 .. arrived
    /\ taken' = n

\* next_capsule: an incomplete envelope waits for more.
Complete(n) == n \div Pieces

\* The capsules that next_capsule returns in a row, up to a malformed one.
Decodable(n) ==
    LET bad == {i \in parsed + 1 .. Complete(n) : wire[i].type = "malformed"}
    IN  IF bad = {} THEN Complete(n) ELSE Min(bad) - 1

\* apply_capsule, for the capsules up to n: a capsule replaces the whole state.
LastOf(type, n, old) ==
    LET seen == {i \in parsed + 1 .. n : wire[i].type = type}
    IN  IF seen = {} THEN old ELSE wire[Max(seen)].value

\* process_next_capsules, when the chunk that ends at n is there: there is no
\* await between the push and the last apply_capsule.
ReadChunk(n) ==
    /\ Chunk(n)
    /\ parsed' = Decodable(n)
    /\ assigned' = LastOf("assign", parsed', assigned)
    /\ routes' = LastOf("routes", parsed', routes)

\* What that call is left with: an error, the capsules it has seen, or neither.
DecodeFails(n) == Decodable(n) < Complete(n)
Seen(n) == {wire[i].type : i \in parsed + 1 .. Decodable(n)}

AtEnd == fin /\ taken = Pieces * Len(wire)

\* recv_data is None: "proxy closed the tunnel".
ReadEnd ==
    /\ AtEnd
    /\ UNCHANGED <<taken, parsed, assigned, routes>>

-------------------------------------------------------------------------------
(***************************************************************************)
(* The packets.                                                            *)
(***************************************************************************)

\* After the 200 of establish; packets that came before it were dropped.
DemuxInsert ==
    /\ demux' = "queue"
    /\ queue' = <<>>

\* dispatch_client_datagram: no entry, or a full queue, drops the packet.
Dispatch(p) ==
    /\ queue' = IF demux = "queue" /\ Len(queue) < QueueDepth THEN Append(queue, p) ELSE queue
    /\ UNCHANGED demux

RecvPacket ==
    /\ queue # <<>>
    /\ queue' = Tail(queue)
    /\ UNCHANGED demux

\* set_packet_sink drops the queue with what is in it.
SetPacketSink ==
    /\ demux' = "sink"
    /\ queue' = <<>>

\* Tunnel::close.
Close ==
    /\ demux' = "none"
    /\ queue' = <<>>
===============================================================================
