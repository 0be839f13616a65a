----------------------------- MODULE RelayLockdown -----------------------------
(***************************************************************************)
(* The compression contexts of one bind session, at both ends.  The client *)
(* (BindClient in src/src/client.rs and RelayLockdown::engage in           *)
(* p2p/relay_socket.rs) opens an uncompressed context, and once a direct   *)
(* path is up replaces it by one that carries its peer alone.  The relay   *)
(* (udp_bind/handler.rs) keeps its own table of the contexts.  Both use    *)
(* ContextTable of udp_bind/context.rs.                                    *)
(*                                                                         *)
(* Capsules travel on the request stream, in order.  The client's pump     *)
(* task owns the stream; engage hands it capsules through a bounded queue  *)
(* and waits for it on a Notify.                                           *)
(***************************************************************************)
EXTENDS Naturals, Sequences

CONSTANTS
    QueueCap,   \* the capsule queue of the pump, 8 in the code
    MaxEngage   \* bound: how often engage is called

ASSUME LockdownAssumption == QueueCap \in Nat \ {0} /\ MaxEngage \in Nat

\* The first client-allocated context id, which is the uncompressed context,
\* and the one engage allocates for the peer.
Open == 2
Narrow == Open + 2
Contexts == {Open, Narrow}

Assign(id) == [type |-> "assign", id |-> id]
Ack(id) == [type |-> "ack", id |-> id]
Close(id) == [type |-> "close", id |-> id]
Capsule == [type : {"assign", "ack", "close"}, id : Contexts]

VARIABLES
    active,     \* the client's table: acknowledged contexts
    proposed,   \* the client's table: contexts waiting for their ACK
    relay,      \* the relay's table
    queue,      \* capsules handed to the pump
    up, down,   \* the two directions of the request stream
    pump,       \* "run", "notify" after it applied an ACK, or "gone"
    pc,         \* where the client is: connecting, idle or in engage
    woken,      \* the future of acked.notified() has been signalled
    engaged,    \* the last call of engage returned Ok
    calls       \* how often engage was called

tables == <<active, proposed, relay>>
capsules == <<queue, up, down>>
vars == <<tables, capsules, pump, pc, woken, engaged, calls>>

\* The context a table's owner frames a packet to or from the peer with: the
\* compressed one if it is active, else the uncompressed one (frame_bind at
\* the client, encapsulate at the relay).
Framing(table) == IF Narrow \in table THEN {Narrow} ELSE table \cap {Open}

\* BindClient::connect has registered and proposed the uncompressed context.
Init ==
    /\ active = {} /\ proposed = {Open} /\ relay = {}
    /\ queue = <<>> /\ up = <<Assign(Open)>> /\ down = <<>>
    /\ pump = "run" /\ pc = "connect" /\ woken = FALSE
    /\ engaged = FALSE /\ calls = 0

\* ContextTable::ack at the client; an ACK for a context that is not pending
\* changes nothing.
Promote(id) ==
    /\ active' = IF id \in proposed THEN active \cup {id} ELSE active
    /\ proposed' = proposed \ {id}

\* try_send into the pump's queue.
CanSend == pump # "gone" /\ Len(queue) < QueueCap

-------------------------------------------------------------------------------
(***************************************************************************)
(* The relay: handle_context_capsule.                                      *)
(***************************************************************************)

\* An ASSIGN is registered, activated at once and acknowledged; one for a
\* context the relay already has is rejected without an answer.
RelayAssign ==
    /\ up # <<>> /\ Head(up).type = "assign"
    /\ up' = Tail(up)
    /\ relay' = relay \cup {Head(up).id}
    /\ down' = IF Head(up).id \in relay THEN down ELSE Append(down, Ack(Head(up).id))
    /\ UNCHANGED <<active, proposed, queue, pump, pc, woken, engaged, calls>>

RelayClose ==
    /\ up # <<>> /\ Head(up).type = "close"
    /\ up' = Tail(up)
    /\ relay' = relay \ {Head(up).id}
    /\ UNCHANGED <<active, proposed, queue, down, pump, pc, woken, engaged, calls>>

-------------------------------------------------------------------------------
(***************************************************************************)
(* The client's stream: connect, then the pump of into_relay_parts.        *)
(***************************************************************************)
ConnectAcked ==
    /\ pc = "connect" /\ down # <<>>
    /\ down' = Tail(down)
    /\ Promote(Head(down).id)
    /\ pc' = "idle"
    /\ UNCHANGED <<relay, queue, up, pump, woken, engaged, calls>>

PumpSend ==
    /\ pump = "run" /\ queue # <<>>
    /\ queue' = Tail(queue)
    /\ up' = Append(up, Head(queue))
    /\ UNCHANGED <<tables, down, pump, pc, woken, engaged, calls>>

\* Mutant of PumpAck: the ACK is applied and nobody is told.
PumpAck_Silent ==
    /\ pump = "run" /\ pc # "connect" /\ down # <<>>
    /\ down' = Tail(down)
    /\ Promote(Head(down).id)
    /\ UNCHANGED <<relay, queue, up, pump, pc, woken, engaged, calls>>

PumpAck ==
    /\ pump = "run" /\ pc # "connect" /\ down # <<>>
    /\ down' = Tail(down)
    /\ Promote(Head(down).id)
    /\ pump' = "notify"
    /\ UNCHANGED <<relay, queue, up, pc, woken, engaged, calls>>

\* notify_waiters reaches a future that was created before the call.
PumpNotify ==
    /\ pump = "notify"
    /\ pump' = "run"
    /\ woken' = (woken \/ pc \in {"check", "park"})
    /\ UNCHANGED <<tables, capsules, pc, engaged, calls>>

\* The stream or the connection fails, and the pump returns.
PumpEnds ==
    /\ pump = "run" /\ pc # "connect"
    /\ pump' = "gone"
    /\ UNCHANGED <<tables, capsules, pc, woken, engaged, calls>>

-------------------------------------------------------------------------------
(***************************************************************************)
(* RelayLockdown::engage.  The path manager calls it after every           *)
(* successful punch, one call at a time.                                   *)
(***************************************************************************)
Call ==
    /\ pc = "idle" /\ calls < MaxEngage
    /\ calls' = calls + 1

\* Already engaged.
EngageAgain ==
    /\ Call
    /\ Narrow \in active
    /\ engaged' = TRUE
    /\ UNCHANGED <<tables, capsules, pump, pc, woken>>

\* The uncompressed context is closed, or the new id is still pending from an
\* earlier call.
EngageRefused ==
    /\ Call
    /\ Narrow \notin active
    /\ Open \notin active \/ Narrow \in proposed
    /\ engaged' = FALSE
    /\ UNCHANGED <<tables, capsules, pump, pc, woken>>

\* The context is registered and proposed.  When the queue does not take the
\* ASSIGN the call fails, and the context stays registered.
EngagePropose ==
    /\ Call
    /\ Open \in active /\ Narrow \notin active \cup proposed
    /\ proposed' = proposed \cup {Narrow}
    /\ engaged' = FALSE
    /\ IF CanSend
       THEN queue' = Append(queue, Assign(Narrow)) /\ pc' = "arm"
       ELSE UNCHANGED <<queue, pc>>
    /\ UNCHANGED <<active, relay, up, down, pump, woken>>

\* The waiting loop: notified() is created, then the table is read, then the
\* future is awaited.
Arm ==
    /\ pc = "arm"
    /\ pc' = "check"
    /\ woken' = FALSE
    /\ UNCHANGED <<tables, capsules, pump, engaged, calls>>

\* Mutant of Check: the uncompressed context goes without waiting for the ACK.
Check_Eager ==
    /\ pc = "check"
    /\ pc' = "close"
    /\ UNCHANGED <<tables, capsules, pump, woken, engaged, calls>>

Check ==
    /\ pc = "check"
    /\ pc' = IF Narrow \in active THEN "close" ELSE "park"
    /\ UNCHANGED <<tables, capsules, pump, woken, engaged, calls>>

Wake ==
    /\ pc = "park" /\ woken
    /\ pc' = "arm"
    /\ UNCHANGED <<tables, capsules, pump, woken, engaged, calls>>

\* ACK_TIMEOUT passes.  The waiting future is polled first, so only one that
\* has not been signalled times out.
Timeout ==
    /\ pc = "park" /\ ~woken
    /\ pc' = "expire"
    /\ UNCHANGED <<tables, capsules, pump, woken, engaged, calls>>

\* The context is closed in the client's own table.
Expire ==
    /\ pc = "expire"
    /\ pc' = "idle"
    /\ active' = active \ {Narrow}
    /\ proposed' = proposed \ {Narrow}
    /\ UNCHANGED <<relay, capsules, pump, woken, engaged, calls>>

\* The relay acknowledged: the CLOSE of the uncompressed context is queued,
\* and then the context is dropped here.
SendClose ==
    /\ pc = "close"
    /\ IF CanSend
       THEN queue' = Append(queue, Close(Open)) /\ pc' = "retire"
       ELSE pc' = "idle" /\ UNCHANGED queue
    /\ UNCHANGED <<tables, up, down, pump, woken, engaged, calls>>

Retire ==
    /\ pc = "retire"
    /\ pc' = "idle"
    /\ active' = active \ {Open}
    /\ proposed' = proposed \ {Open}
    /\ engaged' = TRUE
    /\ UNCHANGED <<relay, capsules, pump, woken, calls>>

-------------------------------------------------------------------------------
Relay == RelayAssign \/ RelayClose
Pump == PumpSend \/ PumpAck \/ PumpNotify
Engage == Arm \/ Check \/ Wake \/ Expire \/ SendClose \/ Retire
Start == EngageAgain \/ EngageRefused \/ EngagePropose

Next == Relay \/ ConnectAcked \/ Pump \/ PumpEnds \/ Engage \/ Start \/ Timeout

Spec == Init /\ [][Next]_vars

\* The tasks run when they can.  Nothing makes the timer fire before an ACK,
\* or an ACK come before the timer.
Fairness == WF_vars(Relay) /\ WF_vars(ConnectAcked) /\ WF_vars(Pump) /\ WF_vars(Engage)

-------------------------------------------------------------------------------
(***************************************************************************)
(* Properties.                                                             *)
(***************************************************************************)
Waiting == {"arm", "check", "park"}

\* Every variable has its type, the capsules of each direction are the ones
\* its sender sends, and the queue keeps its bound.
TypeOK ==
    /\ active \subseteq Contexts /\ proposed \subseteq Contexts /\ relay \subseteq Contexts
    /\ queue \in Seq(Capsule) /\ up \in Seq(Capsule) /\ down \in Seq(Capsule)
    /\ Len(queue) <= QueueCap
    /\ pump \in {"run", "notify", "gone"}
    /\ pc \in {"connect", "idle", "expire", "close", "retire"} \cup Waiting
    /\ woken \in BOOLEAN /\ engaged \in BOOLEAN
    /\ calls \in 0 .. MaxEngage
    /\ \A i \in 1 .. Len(down) : down[i].type = "ack"

\* "The compressed context has to be acknowledged before the uncompressed one
\* goes, or a fallback in that window would have no context able to carry it"
\* (engage): at every moment after the connect, the client can frame a packet
\* to its peer, and the relay has the context it would be framed with.
FallbackCarried ==
    pc # "connect" => Framing(active) # {} /\ Framing(active) \subseteq relay

\* Once the client has dropped its uncompressed context and the relay has
\* read everything, both ends hold the peer's context and nothing else, so
\* the relay forwards nobody else's packets (the firewall of encapsulate).
LockedDown ==
    Open \notin active /\ pc = "idle" /\ queue = <<>> /\ up = <<>> =>
        active = {Narrow} /\ relay = {Narrow}

\* An ACK that the pump applies while engage waits is noticed without the
\* help of the timer: there is no moment between reading the table and
\* waiting at which the signal is lost.
AckNoticed ==
    pc \in Waiting /\ Narrow \in active ~> pc \notin Waiting

\* "On timeout it leaves everything as it was - an open uncompressed context
\* is a wider attack surface, not a broken session" (engage): when no call is
\* running and no capsule is under way, the client knows the context that the
\* relay frames the peer's packets with.
TimeoutLeavesSession ==
    pc = "idle" /\ queue = <<>> /\ up = <<>> /\ down = <<>> => Framing(relay) \subseteq active

\* "Engage the lockdown: register a compressed context for the peer, wait for
\* the relay to acknowledge it, then close the uncompressed one" (engage):
\* after a call that returned Ok, on a session that is still up, the
\* uncompressed context is closed.
EngagedIsNarrow == engaged /\ pump # "gone" => Open \notin active
================================================================================
