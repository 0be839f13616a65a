------------------------------- MODULE RelayPath -------------------------------
(***************************************************************************)
(* The data plane of a bind session, while its contexts change.  At one    *)
(* end is the socket that inner QUIC runs over: PathMuxSocket, which also  *)
(* has a direct UDP socket, or the relay-only RelaySocket                  *)
(* (src/src/p2p/relay_socket.rs).  In the middle are the client's pump     *)
(* (client.rs) and the relay's bound socket (udp_bind/socket.rs).  At the  *)
(* other end are the remotes that send to the bound port.                  *)
(*                                                                         *)
(* Packets ride in QUIC DATAGRAMs, which are lost, and overtake each other *)
(* and the capsules of RelayLockdown.  A packet carries, besides what is   *)
(* on the wire, the address it was meant for or really came from.          *)
(***************************************************************************)
EXTENDS RelayLockdown

CONSTANTS
    Peer,           \* the relay address of the peer of this session
    Stranger,       \* any other address that sends to the bound port
    Candidate,      \* an address of the peer to reach it directly
    ZeroPort, DeniedNets, AllowedNets, LocalNets,  \* addresses as the policy tells them
    ChannelCap,     \* the channel from the pump to the socket, 256 in the code
    MaxOut, MaxIn,  \* bounds: packets sent in each direction
    None

ASSUME ChannelAssumption == ChannelCap \in Nat

Address == {Peer, Stranger, Candidate}

VARIABLES
    bound,      \* bound[end]: the address of the compressed context in the table of that end
    queueTo,    \* queueTo[i]: the address that the capsule queue[i] binds, or None
    upTo,       \* upTo[i]: the same of up[i]
    role,       \* "dialer", "acceptor" or "relay_only"
    remotes,    \* relay_remotes: the addresses reached through the tunnel
    upDg,       \* datagrams from the client to the relay
    downDg,     \* datagrams from the relay to the client
    channel,    \* packets the pump has handed to the socket
    last,       \* the last packet given to inner QUIC, sent by the relay or sent directly
    socket,     \* "open", or "broken" after the socket reported its end
    packets     \* packets[way]: how many were sent

bindings == <<bound, queueTo, upTo>>
data == <<role, remotes, upDg, downDg, channel, last, socket, packets>>

\* The dialer knows its peer, and lockdown_for names that of a relay-only
\* socket; the acceptor has nothing to preset.
Preset(r) == IF r = "acceptor" THEN {} ELSE {Peer}

\* mux_endpoint, after connect has proposed the uncompressed context.
DataInit ==
    /\ bound = [end \in {"client", "relay"} |-> None]
    /\ queueTo = <<>> /\ upTo = <<None>>
    /\ role \in {"dialer", "acceptor", "relay_only"}
    /\ remotes = Preset(role)
    /\ upDg = {} /\ downDg = {} /\ channel = <<>>
    /\ last = None
    /\ socket = "open"
    /\ packets = [way \in {"out", "in"} |-> 0]

PathInit == Init /\ DataInit

Packet(at, addr, real) == [at |-> at, addr |-> addr, real |-> real]

\* RelayLockdown::peer: what engage binds the compressed context to.
PeerOf(known) == CHOOSE r \in known : TRUE

Count(way) ==
    /\ packets[way] < (IF way = "out" THEN MaxOut ELSE MaxIn)
    /\ packets' = [packets EXCEPT ![way] = @ + 1]

\* compressed_context_for, else uncompressed_context: the context of a table that
\* carries a packet to or from a, as a set of at most one.  b is what the table
\* binds the compressed context to.
ContextFor(table, b, a) ==
    IF Narrow \in table /\ a = b THEN {Narrow} ELSE table \cap {Open}

\* encode_datagram spells the address out in the uncompressed context only.
EncodeDatagram(id, a) == [id |-> id, addr |-> IF id = Open THEN a ELSE None, real |-> a]

\* decode_datagram: the address on the wire or the one bound to the context.
DecodedAddress(d, b) == IF d.id = Narrow THEN b ELSE d.addr

\* DestinationPolicy::allows.
Allows(a) ==
    /\ a \notin ZeroPort
    /\ a \notin DeniedNets
    /\ a \in AllowedNets \/ a \notin LocalNets

-------------------------------------------------------------------------------
(***************************************************************************)
(* From inner QUIC to the network.                                         *)
(***************************************************************************)

\* poll_send: the mux tunnels what goes to a relay remote, the relay-only
\* socket everything.
Tunnelled(a) == role = "relay_only" \/ a \in remotes

\* Mutant of FrameBind: a context is used before the relay acknowledged it.
FrameBind_Unacked(a) == {EncodeDatagram(id, a) : id \in ContextFor(active \cup proposed, bound["client"], a)}

\* frame_bind: the datagram of a packet to a, as a set that is empty when no
\* context carries it.
FrameBind(a) == {EncodeDatagram(id, a) : id \in ContextFor(active, bound["client"], a)}

\* poll_send of a tunnelled packet: send_datagram on the outer connection, or
\* the packet is dropped.
TransmitRelayed(a) ==
    /\ pc # "connect" /\ socket = "open"
    /\ Tunnelled(a)
    /\ Count("out")
    /\ upDg' = upDg \cup FrameBind(a)
    /\ UNCHANGED <<vars, bindings, role, remotes, downDg, channel, last, socket>>

TransmitDirect(a) ==
    /\ pc # "connect" /\ socket = "open"
    /\ ~Tunnelled(a)
    /\ Count("out")
    /\ last' = Packet("direct", a, a)
    /\ UNCHANGED <<vars, bindings, role, remotes, upDg, downDg, channel, socket>>

\* The relay's loop: a datagram of an unknown context, to a denied address or
\* past the rate cap is dropped, any other leaves as UDP.
RelayDrops(d) ==
    /\ upDg' = upDg \ {d}
    /\ UNCHANGED <<vars, bindings, role, remotes, downDg, channel, last, socket, packets>>

RelayEgress(d) ==
    /\ d.id \in relay
    /\ Allows(DecodedAddress(d, bound["relay"]))
    /\ last' = Packet("egress", DecodedAddress(d, bound["relay"]), d.real)
    /\ upDg' = upDg \ {d}
    /\ UNCHANGED <<vars, bindings, role, remotes, downDg, channel, socket, packets>>

-------------------------------------------------------------------------------
(***************************************************************************)
(* From the network to inner QUIC.                                         *)
(***************************************************************************)

\* Mutant of RelayIngress: what no compressed context carries is spelled out.
RelayIngress_Spelled(r) ==
    /\ Count("in")
    /\ downDg' = downDg \cup
           {EncodeDatagram(IF Narrow \in relay /\ r = bound["relay"] THEN Narrow ELSE Open, r)}
    /\ UNCHANGED <<vars, bindings, role, remotes, upDg, channel, last, socket>>

\* A UDP packet reaches the bound port: encapsulate.  The candidate is not a
\* relay address: packets from there come to the direct socket.
RelayIngress(r) ==
    /\ Count("in")
    /\ downDg' = downDg \cup {EncodeDatagram(id, r) : id \in ContextFor(relay, bound["relay"], r)}
    /\ UNCHANGED <<vars, bindings, role, remotes, upDg, channel, last, socket>>

DatagramLost(d) ==
    /\ downDg' = downDg \ {d}
    /\ UNCHANGED <<vars, bindings, role, remotes, upDg, channel, last, socket, packets>>

\* The pump decodes a datagram against the client's table and hands the packet
\* on, when the channel has room.
PumpDatagram(d) ==
    /\ pump = "run" /\ pc # "connect"
    /\ d.id \in active
    /\ downDg' = downDg \ {d}
    /\ channel' = IF Len(channel) < ChannelCap
                  THEN Append(channel, [addr |-> DecodedAddress(d, bound["client"]), real |-> d.real])
                  ELSE channel
    /\ UNCHANGED <<vars, bindings, role, remotes, upDg, last, socket, packets>>

\* Mutant of Learn: the mux takes whoever came last for its peer.
Learn_Each(a) == IF role # "relay_only" THEN {a} ELSE remotes

\* The mux learns its peer from the first packet of the tunnel.
Learn(a) == IF role # "relay_only" /\ remotes = {} THEN {a} ELSE remotes

\* poll_recv gives inner QUIC a packet of the tunnel, or one of the direct socket.
PollRecv ==
    /\ socket = "open" /\ channel # <<>>
    /\ channel' = Tail(channel)
    /\ last' = Packet("inner", Head(channel).addr, Head(channel).real)
    /\ remotes' = Learn(Head(channel).addr)
    /\ UNCHANGED <<vars, bindings, role, upDg, downDg, socket, packets>>

\* The channel is empty and its sender is gone with the pump: BrokenPipe.
PollBroken ==
    /\ pump = "gone" /\ channel = <<>> /\ socket = "open"
    /\ socket' = "broken"
    /\ UNCHANGED <<vars, bindings, role, remotes, upDg, downDg, channel, last, packets>>

-------------------------------------------------------------------------------
(***************************************************************************)
(* The contexts change as in RelayLockdown, and with them what they bind.  *)
(***************************************************************************)

\* engage with no peer learned is an error that changes nothing; else it binds
\* the context to the peer in its own table, and in the ASSIGN.
Propose ==
    /\ remotes # {} /\ EngagePropose
    /\ bound' = [bound EXCEPT !["client"] = PeerOf(remotes)]
    /\ queueTo' = IF CanSend THEN Append(queueTo, PeerOf(remotes)) ELSE queueTo
    /\ UNCHANGED upTo

CloseQueued ==
    /\ SendClose
    /\ queueTo' = IF CanSend THEN Append(queueTo, None) ELSE queueTo
    /\ UNCHANGED <<bound, upTo>>

CapsuleSent ==
    /\ PumpSend
    /\ queueTo' = Tail(queueTo) /\ upTo' = Append(upTo, Head(queueTo))
    /\ UNCHANGED bound

\* register at the relay: a context that it has keeps its binding.
CapsuleHandled ==
    /\ Relay
    /\ upTo' = Tail(upTo)
    /\ bound' = IF Head(up) = Assign(Narrow) /\ Narrow \notin relay
                THEN [bound EXCEPT !["relay"] = Head(upTo)] ELSE bound
    /\ UNCHANGED queueTo

Control ==
    /\ \/ Propose \/ CloseQueued \/ CapsuleSent \/ CapsuleHandled
       \/ /\ \/ ConnectAcked \/ PumpAck \/ PumpNotify \/ PumpEnds
             \/ Arm \/ Check \/ Wake \/ Timeout \/ Expire \/ Retire
             \/ remotes # {} /\ (EngageAgain \/ EngageRefused)
          /\ UNCHANGED bindings
    /\ UNCHANGED data

Data ==
    \/ \E a \in Address : TransmitRelayed(a) \/ TransmitDirect(a)
    \/ \E d \in upDg : RelayDrops(d) \/ RelayEgress(d)
    \/ \E r \in Address \ {Candidate} : RelayIngress(r)
    \/ \E d \in downDg : DatagramLost(d) \/ PumpDatagram(d)
    \/ PollRecv \/ PollBroken

PathNext == Control \/ Data

PathSpec == PathInit /\ [][PathNext]_<<vars, bindings, data>> /\ Fairness

-------------------------------------------------------------------------------
(***************************************************************************)
(* Properties.                                                             *)
(***************************************************************************)

\* The datagrams and packets have their types and the channel keeps its bound.
PathTypeOK ==
    /\ remotes \subseteq Address
    /\ bound \in [{"client", "relay"} -> Address \cup {None}]
    /\ queueTo \in Seq(Address \cup {None}) /\ upTo \in Seq(Address \cup {None})
    /\ upDg \cup downDg \subseteq [id : Contexts, addr : Address \cup {None}, real : Address]
    /\ channel \in Seq([addr : Address, real : Address])
    /\ Len(channel) <= ChannelCap
    /\ socket \in {"open", "broken"}

\* Whatever the contexts at the two ends did while a packet was under way, and
\* though each end looks the address up in a table of its own, the packet is
\* attributed to the remote that sent it, and one that the relay sends goes
\* where inner QUIC sent it.
AddressesKept ==
    /\ last # None => last.addr = last.real
    /\ \A i \in 1 .. Len(channel) : channel[i].addr = channel[i].real

\* "A configured deny still wins over an allow", and what is neither denied nor
\* allowed leaves only when it is not local (DestinationPolicy).
EgressPermitted ==
    last # None /\ last.at = "egress" =>
        last.addr \notin DeniedNets \cup (LocalNets \ AllowedNets)

\* "A fallback in that window would have no context able to carry it" (engage):
\* a datagram that the client sends in the peer's compressed context never meets
\* a relay that does not have it, whatever was proposed, timed out and proposed
\* again meanwhile.
UplinkIsKnown == \A d \in upDg : d.id = Narrow => Narrow \in relay

\* The same of the relay's datagrams.  Refuted: the relay uses the context from
\* the ASSIGN on, and the client drops what comes in it before the ACK has come,
\* or after the call has timed out.
DownlinkIsKnown == \A d \in downDg : d.id = Narrow => Narrow \in active

\* "There is exactly one relay remote" (relay_socket.rs): once the mux has its
\* peer it keeps it, and no packet to a direct candidate rides the tunnel.
OneRelayRemote ==
    [][/\ remotes # {} => remotes' = remotes
       /\ role # "relay_only" => \A d \in upDg' \ upDg : d.real \in remotes]_<<vars, bindings, data>>

\* "The relay drops everything that is not from the bound peer" (RelayLockdown):
\* once both ends have settled on the peer's context, no packet of another
\* address is put on its way to the client.
StrangersStopped ==
    [][Open \notin active /\ pc = "idle" /\ queue = <<>> /\ up = <<>> =>
         \A d \in downDg' \ downDg : d.real = PeerOf(remotes)]_<<vars, bindings, data>>

\* The end of the session is reported after the packets that came before it.
QueuedBeforeBroken == socket = "broken" => channel = <<>>

\* The data plane leaves the contexts as RelayLockdown specifies them.
ContextsAsSpecified == Spec
================================================================================
