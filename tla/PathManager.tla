------------------------------ MODULE PathManager ------------------------------
(***************************************************************************)
(* The path managers of two peers that share one inner connection          *)
(* (manage in src/src/p2p/session.rs, punch in p2p/native_punch.rs).  Each *)
(* moves its end from the relay path onto a direct one and back.           *)
(*                                                                         *)
(* The connection belongs to the noq library and is modelled from how the  *)
(* managers use it.  Path 0 is the relay path, which is never closed.      *)
(* Each end has its own view of which direct paths are open and of their   *)
(* status.  Path events are a broadcast of bounded length: a subscriber    *)
(* gets the events that are emitted while it is subscribed, and when it    *)
(* falls behind, the oldest are dropped and it is told that it lagged.     *)
(***************************************************************************)
EXTENDS Naturals, Sequences

CONSTANTS
    MaxPaths,   \* bound: direct paths that traversal rounds set in motion
    EventCap    \* the length of the event broadcast

ASSUME PathAssumption == MaxPaths \in Nat /\ EventCap \in Nat \ {0}

Peer == {"client", "server"}
Direct == 1 .. MaxPaths
RelayPath == 0

VARIABLES
    pc,         \* pc[p]: where the manager of p is
    state,      \* state[p]: the path state it reports
    target,     \* target[p]: the path that its last punch returned, or 0
    promoted,   \* promoted[p]: direct_path, the path it says is in use, or 0
    advertised, \* the peers that have advertised their candidates
    sub,        \* the peers subscribed to path events
    events,     \* events[p]: events the subscription has still to deliver
    lagged,     \* the peers whose subscription dropped events
    base,       \* base[p]: the paths that were open when p subscribed (history)
    open,       \* open[p]: the direct paths open at p
    avail,      \* avail[p]: the paths with status Available at p, others are Backup
    seen,       \* seen[p]: the direct paths that have been validated at p
    rounds,     \* how many paths the traversal rounds have set in motion
    closed      \* the connection is closed

manager == <<pc, state, target, promoted>>
subscription == <<sub, events, lagged, base>>
paths == <<open, avail, seen, rounds>>
vars == <<manager, advertised, subscription, paths, closed>>

Established(id) == [type |-> "established", id |-> id]
Abandoned(id) == [type |-> "abandoned", id |-> id]
Event == [type : {"established", "abandoned"}, id : Direct]

Init ==
    /\ pc = [p \in Peer |-> "start"]
    /\ state = [p \in Peer |-> "Relay"]
    /\ target = [p \in Peer |-> 0]
    /\ promoted = [p \in Peer |-> 0]
    /\ advertised = {} /\ sub = {} /\ lagged = {}
    /\ events = [p \in Peer |-> <<>>]
    /\ open = [p \in Peer |-> {}] /\ base = [p \in Peer |-> {}]
    /\ avail = [p \in Peer |-> {RelayPath}]
    /\ seen = [p \in Peer |-> {}]
    /\ rounds = 0
    /\ closed = FALSE

Goto(p, label) == pc' = [pc EXCEPT ![p] = label]
Move(p, from, to) == pc[p] = from /\ Goto(p, to)
Report(p, s) == state' = [state EXCEPT ![p] = s]

-------------------------------------------------------------------------------
(***************************************************************************)
(* The event broadcast.                                                    *)
(***************************************************************************)
Subscribe(p) ==
    /\ sub' = sub \cup {p}
    /\ events' = [events EXCEPT ![p] = <<>>]
    /\ lagged' = lagged \ {p}
    /\ base' = [base EXCEPT ![p] = open[p]]

Unsubscribe(p) ==
    /\ sub' = sub \ {p}
    /\ events' = [events EXCEPT ![p] = <<>>]
    /\ lagged' = lagged \ {p}
    /\ base' = [base EXCEPT ![p] = {}]

Emit(p, e) ==
    /\ UNCHANGED <<sub, base>>
    /\ IF p \notin sub
       THEN UNCHANGED <<events, lagged>>
       ELSE IF Len(events[p]) < EventCap
            THEN /\ events' = [events EXCEPT ![p] = Append(@, e)]
                 /\ UNCHANGED lagged
            ELSE /\ events' = [events EXCEPT ![p] = Append(Tail(@), e)]
                 /\ lagged' = lagged \cup {p}

\* The subscriber reads the next item, the notice that it lagged first, and
\* goes on reading.
ReadOn(p) ==
    /\ UNCHANGED <<sub, base>>
    /\ IF p \in lagged
       THEN lagged' = lagged \ {p} /\ UNCHANGED events
       ELSE events' = [events EXCEPT ![p] = Tail(@)] /\ UNCHANGED lagged

HasItem(p) == p \in lagged \/ events[p] # <<>>
NextEvent(p, e) == p \notin lagged /\ events[p] # <<>> /\ Head(events[p]) = e

-------------------------------------------------------------------------------
(***************************************************************************)
(* The manager.                                                            *)
(***************************************************************************)

\* No multipath, direct paths off, a futile punch, no candidate of its own, or
\* no way to advertise one: the peer stays on the relay for good.
StayOnRelay(p) ==
    /\ Move(p, "start", "pinned")
    /\ UNCHANGED <<state, target, promoted, advertised, subscription, paths, closed>>

Advertise(p) ==
    /\ Move(p, "start", "loop")
    /\ advertised' = advertised \cup {p}
    /\ UNCHANGED <<state, target, promoted, subscription, paths, closed>>

\* punch subscribes before it does anything else.
Punch(p) ==
    /\ Move(p, "loop", "punching")
    /\ Report(p, "Punching")
    /\ Subscribe(p)
    /\ UNCHANGED <<target, promoted, advertised, paths, closed>>

PunchSucceeds(p) ==
    /\ \E id \in Direct : /\ NextEvent(p, Established(id))
                          /\ target' = [target EXCEPT ![p] = id]
    /\ Move(p, "punching", "promote")
    /\ Unsubscribe(p)
    /\ UNCHANGED <<state, promoted, advertised, paths, closed>>

\* Any other event, and the notice of a lag, is passed over.
PunchReads(p) ==
    /\ pc[p] = "punching" /\ HasItem(p)
    /\ \A id \in Direct : ~NextEvent(p, Established(id))
    /\ ReadOn(p)
    /\ UNCHANGED <<manager, advertised, paths, closed>>

\* The punch timed out, or the event stream ended with the connection: an event
\* that is already there is read first.
PunchFails(p) ==
    /\ ~HasItem(p)
    /\ Move(p, "punching", "backoff")
    /\ Report(p, "Relay")
    /\ Unsubscribe(p)
    /\ UNCHANGED <<target, promoted, advertised, paths, closed>>

\* Mutant of Promote: the relay path is put on standby before the direct path is
\* made Available.
Promote_RelayFirst(p) ==
    /\ Move(p, "promote", "standby")
    /\ avail' = [avail EXCEPT ![p] = @ \ {RelayPath}]
    /\ UNCHANGED <<state, target, promoted, advertised, subscription, open, seen, rounds, closed>>

\* promote, its first call: the direct path becomes Available if it is still
\* there.  The calls of promote and demote, direct_path and the reported state
\* are each visible to others by themselves, so that each is a step.
Promote(p) ==
    /\ Move(p, "promote", "standby")
    /\ avail' = [avail EXCEPT ![p] = @ \cup (open[p] \cap {target[p]})]
    /\ UNCHANGED <<state, target, promoted, advertised, subscription, open, seen, rounds, closed>>

\* promote, its second call: the relay path becomes Backup in any case.
HoldRelay(p) ==
    /\ Move(p, "standby", "record")
    /\ avail' = [avail EXCEPT ![p] = @ \ {RelayPath}]
    /\ UNCHANGED <<state, target, promoted, advertised, subscription, open, seen, rounds, closed>>

Record(p) ==
    /\ Move(p, "record", "announce")
    /\ promoted' = [promoted EXCEPT ![p] = target[p]]
    /\ UNCHANGED <<state, target, advertised, subscription, paths, closed>>

Announce(p) ==
    /\ Move(p, "announce", "lockdown")
    /\ Report(p, "Direct")
    /\ UNCHANGED <<target, promoted, advertised, subscription, paths, closed>>

\* The lockdown of the relay returns, with whatever result, and
\* await_path_lost subscribes.
Watch(p) ==
    /\ Move(p, "lockdown", "watching")
    /\ Subscribe(p)
    /\ UNCHANGED <<state, target, promoted, advertised, paths, closed>>

\* Lost_LagIgnored is a mutant of Lost.  What makes await_path_lost return: the Abandoned event of the path, or a lag
\* when the path is gone, or the end of the connection.
Lost_LagIgnored(p) == NextEvent(p, Abandoned(target[p])) \/ closed

Lost(p) ==
    \/ NextEvent(p, Abandoned(target[p]))
    \/ p \in lagged /\ target[p] \notin open[p]
    \/ closed

WatchReads(p) ==
    /\ pc[p] = "watching" /\ HasItem(p) /\ ~Lost(p)
    /\ ReadOn(p)
    /\ UNCHANGED <<manager, advertised, paths, closed>>

\* Mutant of FallBack: a lag does not end the watch.
FallBack_EventOnly(p) ==
    /\ NextEvent(p, Abandoned(target[p])) \/ closed
    /\ Move(p, "watching", "demote")
    /\ promoted' = [promoted EXCEPT ![p] = 0]
    /\ Unsubscribe(p)
    /\ UNCHANGED <<state, target, advertised, paths, closed>>

\* await_path_lost returns, and direct_path is cleared.
FallBack(p) ==
    /\ Lost(p)
    /\ Move(p, "watching", "demote")
    /\ promoted' = [promoted EXCEPT ![p] = 0]
    /\ Unsubscribe(p)
    /\ UNCHANGED <<state, target, advertised, paths, closed>>

\* demote: the relay path becomes Available,
Demote(p) ==
    /\ Move(p, "demote", "release")
    /\ avail' = [avail EXCEPT ![p] = @ \cup {RelayPath}]
    /\ UNCHANGED <<state, target, promoted, advertised, subscription, open, seen, rounds, closed>>

\* and the direct one, if it is still there, Backup.
ReleaseDirect(p) ==
    /\ Move(p, "release", "report")
    /\ avail' = [avail EXCEPT ![p] = @ \ {target[p]}]
    /\ UNCHANGED <<state, target, promoted, advertised, subscription, open, seen, rounds, closed>>

ReportRelay(p) ==
    /\ Move(p, "report", "backoff")
    /\ Report(p, "Relay")
    /\ UNCHANGED <<target, promoted, advertised, subscription, paths, closed>>

\* RETRY_INTERVAL passes.
Retry(p) ==
    /\ Move(p, "backoff", "loop")
    /\ UNCHANGED <<state, target, promoted, advertised, subscription, paths, closed>>

\* Mutant of End: the wait between punches does not watch the connection.
End_PinnedOnly(p) ==
    /\ closed
    /\ Move(p, "pinned", "ended")
    /\ UNCHANGED <<state, target, promoted, advertised, subscription, paths, closed>>

End(p) ==
    /\ closed
    /\ pc[p] \in {"pinned", "backoff"}
    /\ Goto(p, "ended")
    /\ UNCHANGED <<state, target, promoted, advertised, subscription, paths, closed>>

-------------------------------------------------------------------------------
(***************************************************************************)
(* The connection.                                                         *)
(***************************************************************************)

\* drive_rounds: the client, while it punches and once the server advertised,
\* sets a round in motion.
Round ==
    /\ pc["client"] = "punching" /\ "server" \in advertised /\ ~closed
    /\ rounds < MaxPaths
    /\ rounds' = rounds + 1
    /\ UNCHANGED <<manager, advertised, subscription, open, avail, seen, closed>>

\* A round validates a path at either end, at its own time.
Validate(p, id) ==
    /\ id <= rounds /\ id \notin seen[p] /\ ~closed
    /\ seen' = [seen EXCEPT ![p] = @ \cup {id}]
    /\ open' = [open EXCEPT ![p] = @ \cup {id}]
    /\ Emit(p, Established(id))
    /\ UNCHANGED <<manager, advertised, avail, rounds, closed>>

\* A path idles out or its NAT binding lapses.
Abandon(p, id) ==
    /\ id \in open[p] /\ ~closed
    /\ open' = [open EXCEPT ![p] = @ \ {id}]
    /\ avail' = [avail EXCEPT ![p] = @ \ {id}]
    /\ Emit(p, Abandoned(id))
    /\ UNCHANGED <<manager, advertised, seen, rounds, closed>>

CloseConnection ==
    /\ ~closed
    /\ closed' = TRUE
    /\ UNCHANGED <<manager, advertised, subscription, paths>>

-------------------------------------------------------------------------------
\* The steps of a manager, its timers included.
Manager(p) ==
    \/ StayOnRelay(p) \/ Advertise(p)
    \/ Punch(p) \/ PunchSucceeds(p) \/ PunchReads(p)
    \/ Promote(p) \/ HoldRelay(p) \/ Record(p) \/ Announce(p)
    \/ Watch(p) \/ WatchReads(p)
    \/ FallBack(p) \/ Demote(p) \/ ReleaseDirect(p) \/ ReportRelay(p)
    \/ End(p)

Timer(p) == PunchFails(p) \/ Retry(p)

Connection ==
    \/ Round
    \/ \E p \in Peer, id \in Direct : Validate(p, id) \/ Abandon(p, id)
    \/ CloseConnection

Next == Connection \/ \E p \in Peer : Manager(p) \/ Timer(p)

Spec == Init /\ [][Next]_vars

\* Managers and timers run.  When the connection is closed, the wait between
\* two punches ends: conn.closed() is ready at once, the timer is not.
Fairness ==
    \A p \in Peer : /\ WF_vars(Manager(p))
                    /\ WF_vars(Timer(p))
                    /\ SF_vars(End(p))

FairSpec == Spec /\ Fairness

-------------------------------------------------------------------------------
(***************************************************************************)
(* Properties.                                                             *)
(***************************************************************************)

\* Every variable has its type; a subscription holds no more events than the
\* broadcast.
TypeOK ==
    /\ pc \in [Peer -> {"start", "pinned", "loop", "punching", "promote", "standby", "record", "announce",
                        "lockdown", "watching", "demote", "release", "report", "backoff", "ended"}]
    /\ state \in [Peer -> {"Relay", "Punching", "Direct"}]
    /\ target \in [Peer -> Direct \cup {0}] /\ promoted \in [Peer -> Direct \cup {0}]
    /\ advertised \subseteq Peer /\ sub \subseteq Peer /\ lagged \subseteq sub
    /\ events \in [Peer -> Seq(Event)]
    /\ open \in [Peer -> SUBSET Direct] /\ base \in [Peer -> SUBSET Direct] /\ seen \in [Peer -> SUBSET Direct]
    /\ avail \in [Peer -> SUBSET (Direct \cup {RelayPath})]
    /\ rounds \in 0 .. MaxPaths /\ closed \in BOOLEAN
    /\ \A p \in Peer : Len(events[p]) <= EventCap

\* Between any two calls of promote and demote, and whenever paths validate or
\* go, a peer has a path that is Available, unless the direct path it moved to
\* is gone: it is on the new path before it leaves the old one, in either
\* direction.
MakeBeforeBreak ==
    \A p \in Peer : RelayPath \in avail[p] \/ target[p] \in avail[p] \/ target[p] \notin open[p]

\* A peer that reports Relay is on the relay alone: the relay path is Available,
\* no path of an earlier punch or of a late round is, and none is named as the
\* direct path ("no longer reports a direct path", tests/integration.rs).
RelayAlone ==
    \A p \in Peer : state[p] = "Relay" => avail[p] = {RelayPath} /\ promoted[p] = 0

\* "Lagging means an Abandoned may have been dropped; ask the connection
\* directly" (await_path_lost): a path that was open when its watch began and is
\* gone now is one that the watch is about to notice, however many events were
\* dropped in between.
LossIsNoticed ==
    \A p \in Peer : pc[p] = "watching" /\ target[p] \in base[p] \ open[p] =>
        \/ p \in lagged
        \/ \E i \in 1 .. Len(events[p]) : events[p][i] = Abandoned(target[p])

\* When the connection closes, both managers end.
ClosedEnds == closed ~> \A p \in Peer : pc[p] = "ended"

\* "Both sessions revert to the relay" (tests/integration.rs): when a path that
\* was there as its watch began goes, the peer comes to report Relay, with the
\* relay path Available, also when the event was dropped.
WatchedLossFallsBack ==
    \A p \in Peer : pc[p] = "watching" /\ target[p] \in base[p] \ open[p]
                    ~> state[p] = "Relay" /\ RelayPath \in avail[p]

\* "A path that closed between the event and here just means the next loop
\* iteration re-punches" (promote), and "noq reports PathEvent::Abandoned, the
\* relay path goes back to Available, and the punch is retried" (session.rs).
LossFallsBack ==
    \A p \in Peer : state[p] = "Direct" /\ promoted[p] \notin open[p] ~> state[p] # "Direct"

\* "A NAT-traversal-validated path arrives as Backup, and this state machine
\* promotes it to Available" (session.rs): the direct path that the client uses
\* is promoted by the server as well, while it lasts.
ValidatedIsPromoted ==
    state["client"] = "Direct" /\ promoted["client"] \in open["client"] \cap open["server"]
    ~> \/ state["server"] = "Direct" \/ closed
       \/ promoted["client"] \notin open["client"] \cap open["server"]
================================================================================
