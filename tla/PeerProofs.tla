------------------------------ MODULE PeerProofs -------------------------------
(***************************************************************************)
(* Theorems about the peers of a P2P session.  For every number of paths and *)
(* every length of the event broadcast: a manager that does not report a   *)
(* direct path has the relay path back, no direct path but the promoted one *)
(* carries data, and the loss of a path under watch is noticed.  For every *)
(* number of chunks and attempts: strawcat and its probes of the NAT conclude *)
(* what is true, meet the issuer of the token and pipe what was written.   *)
(***************************************************************************)
EXTENDS PathManager, Strawcat, TLAPS

-------------------------------------------------------------------------------
(***************************************************************************)
(* PathManager: the paths of a connection and the events about them.       *)
(***************************************************************************)

\* The event e is among those a subscription has still to deliver.
Has(s, e) == \E i \in 1 .. Len(s) : s[i] = e

\* Where the manager is tells whether it is subscribed, what it reports and
\* whether its last punch returned a path.
Control(p) ==
    /\ p \in sub <=> pc[p] \in {"punching", "watching"}
    /\ state[p] = "Relay" => pc[p] \in {"start", "pinned", "loop", "backoff", "ended"}
    /\ pc[p] \notin {"announce", "lockdown", "watching"} => promoted[p] = 0
    /\ pc[p] \in {"promote", "standby", "record", "announce", "lockdown", "watching", "demote", "release"}
         => target[p] # RelayPath

\* And it tells which paths are Available: never a direct path other than the
\* one the punch returned; the relay path outside the stretch between the two
\* calls that take it out and put it back; and the direct path, while it is
\* open, on that stretch.
Statuses(p) ==
    /\ avail[p] \subseteq {RelayPath, target[p]}
    /\ pc[p] \notin {"record", "announce", "lockdown", "watching", "demote"} => RelayPath \in avail[p]
    /\ pc[p] \in {"standby", "record", "announce", "lockdown", "watching", "demote"}
         => target[p] \in avail[p] \/ target[p] \notin open[p]
    /\ pc[p] \in {"start", "pinned", "loop", "punching", "promote", "report", "backoff", "ended"}
         => avail[p] \subseteq {RelayPath}

Standing == \A p \in Peer : Control(p) /\ Statuses(p)

\* What a manager has heard of was validated: a path it may go to, or has gone
\* to, is not validated anew.
Known(p) ==
    /\ open[p] \subseteq seen[p]
    /\ target[p] # RelayPath => target[p] \in seen[p]
    /\ \A i \in 1 .. Len(events[p]) : events[p][i].id \in seen[p]

AllKnown == \A p \in Peer : Known(p)

Inv == TypeOK /\ Standing /\ AllKnown

-------------------------------------------------------------------------------
(***************************************************************************)
(* Events in sequences.                                                    *)
(***************************************************************************)

\* Both kinds of event have the event type.
LEMMA EventTypes ==
    ASSUME NEW id \in Direct
    PROVE  Established(id) \in Event /\ Abandoned(id) \in Event
BY DEF Established, Abandoned, Event

\* The broadcast adds one event at the end.
LEMMA HasAppend ==
    ASSUME NEW s \in Seq(Event), NEW e \in Event, NEW f
    PROVE  /\ Append(s, e) \in Seq(Event)
           /\ Len(Append(s, e)) = Len(s) + 1
           /\ Has(Append(s, e), e)
           /\ Has(s, f) => Has(Append(s, e), f)
<1>1. Append(s, e) \in Seq(Event) /\ Len(Append(s, e)) = Len(s) + 1
  OBVIOUS
<1>2. ASSUME Has(s, f) PROVE Has(Append(s, e), f)
  <2>1. PICK i \in 1 .. Len(s) : s[i] = f
    BY <1>2 DEF Has
  <2>2. i \in 1 .. Len(Append(s, e)) /\ Append(s, e)[i] = f
    BY <2>1
  <2> QED
    BY <2>2 DEF Has
<1>3. Has(Append(s, e), e)
  <2>1. Len(s) + 1 \in 1 .. Len(Append(s, e)) /\ Append(s, e)[Len(s) + 1] = e
    OBVIOUS
  <2> QED
    BY <2>1 DEF Has
<1> QED
  BY <1>1, <1>2, <1>3

\* Reading takes the first event away and leaves the others.
LEMMA HasTail ==
    ASSUME NEW s \in Seq(Event), s # <<>>, NEW f
    PROVE  /\ Tail(s) \in Seq(Event)
           /\ Len(Tail(s)) = Len(s) - 1
           /\ Has(s, f) => f = Head(s) \/ Has(Tail(s), f)
<1>1. Tail(s) \in Seq(Event) /\ Len(Tail(s)) = Len(s) - 1 /\ Len(s) \in Nat \ {0} /\ Head(s) = s[1]
  OBVIOUS
<1>2. ASSUME Has(s, f) PROVE f = Head(s) \/ Has(Tail(s), f)
  <2>1. PICK i \in 1 .. Len(s) : s[i] = f
    BY <1>2 DEF Has
  <2>2. CASE i = 1
    BY <1>1, <2>1, <2>2
  <2>3. CASE i > 1
    <3>1. i - 1 \in 1 .. Len(Tail(s)) /\ Tail(s)[i - 1] = f
      BY <1>1, <2>1, <2>3
    <3> QED
      BY <3>1, Zenon DEF Has
  <2> QED
    BY <1>1, <2>1, <2>2, <2>3
<1> QED
  BY <1>1, <1>2

-------------------------------------------------------------------------------
(***************************************************************************)
(* Subscriptions.                                                          *)
(***************************************************************************)

\* What TypeOK says of the subscriptions.
Subscribed ==
    /\ sub \subseteq Peer /\ lagged \subseteq sub
    /\ events \in [Peer -> Seq(Event)] /\ base \in [Peer -> SUBSET Direct]
    /\ \A p \in Peer : Len(events[p]) <= EventCap

\* Subscribing and unsubscribing keep the types: the subscription starts empty.
LEMMA SubscribeTypes ==
    ASSUME Subscribed, NEW p \in Peer, open \in [Peer -> SUBSET Direct],
           Subscribe(p) \/ Unsubscribe(p)
    PROVE  Subscribed'
<1>1. Len(<<>>) <= EventCap /\ <<>> \in Seq(Event)
  BY PathAssumption
<1>2. events' = [events EXCEPT ![p] = <<>>]
  BY DEF Subscribe, Unsubscribe
<1>3. events' \in [Peer -> Seq(Event)] /\ \A q \in Peer : Len(events'[q]) <= EventCap
  BY <1>1, <1>2 DEF Subscribed
<1>4. base' \in [Peer -> SUBSET Direct]
  BY Zenon DEF Subscribed, Subscribe, Unsubscribe
<1>5. sub' \subseteq Peer /\ lagged' \subseteq sub'
  BY DEF Subscribed, Subscribe, Unsubscribe
<1> QED
  BY <1>3, <1>4, <1>5 DEF Subscribed

\* So does an event: when the broadcast is full the oldest one goes.
LEMMA EmitTypes ==
    ASSUME Subscribed, NEW p \in Peer, NEW e \in Event, Emit(p, e)
    PROVE  Subscribed'
<1>1. CASE p \notin sub
  BY <1>1 DEF Subscribed, Emit
<1>2. CASE p \in sub /\ Len(events[p]) < EventCap
  <2>1. events' = [events EXCEPT ![p] = Append(@, e)] /\ UNCHANGED <<sub, base, lagged>>
    BY <1>2 DEF Emit
  <2>2. Append(events[p], e) \in Seq(Event) /\ Len(Append(events[p], e)) <= EventCap
    BY <1>2, HasAppend, PathAssumption DEF Subscribed
  <2> QED
    BY <2>1, <2>2 DEF Subscribed
<1>3. CASE p \in sub /\ ~(Len(events[p]) < EventCap)
  <2>1. events' = [events EXCEPT ![p] = Append(Tail(@), e)] /\ lagged' = lagged \cup {p}
        /\ UNCHANGED <<sub, base>>
    BY <1>3 DEF Emit
  <2>2. events[p] \in Seq(Event) /\ Len(events[p]) = EventCap /\ events[p] # <<>>
    BY <1>3, PathAssumption DEF Subscribed
  <2>3. Tail(events[p]) \in Seq(Event) /\ Len(Tail(events[p])) = EventCap - 1
    BY <2>2, HasTail
  <2>4. Append(Tail(events[p]), e) \in Seq(Event) /\ Len(Append(Tail(events[p]), e)) <= EventCap
    BY <2>3, HasAppend, PathAssumption
  <2> QED
    BY <1>3, <2>1, <2>4 DEF Subscribed
<1> QED
  BY <1>1, <1>2, <1>3

\* And so does reading an item.
LEMMA ReadTypes ==
    ASSUME Subscribed, NEW p \in Peer, HasItem(p), ReadOn(p)
    PROVE  Subscribed'
<1>1. CASE p \in lagged
  BY <1>1 DEF Subscribed, ReadOn
<1>2. CASE p \notin lagged
  <2>1. events' = [events EXCEPT ![p] = Tail(@)] /\ UNCHANGED <<sub, base, lagged>>
    BY <1>2 DEF ReadOn
  <2>2. events[p] \in Seq(Event) /\ events[p] # <<>>
    BY <1>2 DEF Subscribed, HasItem
  <2>3. Tail(events[p]) \in Seq(Event) /\ Len(Tail(events[p])) <= EventCap
    BY <2>2, HasTail, PathAssumption DEF Subscribed
  <2> QED
    BY <2>1, <2>3 DEF Subscribed
<1> QED
  BY <1>1, <1>2

-------------------------------------------------------------------------------
(***************************************************************************)
(* The inductive invariant.                                                *)
(***************************************************************************)
Labels == {"start", "pinned", "loop", "punching", "promote", "standby", "record", "announce",
           "lockdown", "watching", "demote", "release", "report", "backoff", "ended"}

\* What TypeOK says of the managers and of the paths.
Managed ==
    /\ pc \in [Peer -> Labels]
    /\ state \in [Peer -> {"Relay", "Punching", "Direct"}]
    /\ target \in [Peer -> Direct \cup {0}] /\ promoted \in [Peer -> Direct \cup {0}]
    /\ advertised \subseteq Peer

Opened ==
    /\ open \in [Peer -> SUBSET Direct] /\ seen \in [Peer -> SUBSET Direct]
    /\ avail \in [Peer -> SUBSET (Direct \cup {RelayPath})]
    /\ rounds \in 0 .. MaxPaths /\ closed \in BOOLEAN

\* The type invariant in its three parts.
LEMMA TypeParts == TypeOK <=> Subscribed /\ Managed /\ Opened
BY DEF TypeOK, Subscribed, Managed, Opened, Labels

\* The same after a step.
LEMMA TypePartsNext == Subscribed' /\ Managed' /\ Opened' => TypeOK'
BY DEF TypeOK, Subscribed, Managed, Opened, Labels

\* A path is not the relay path.
LEMMA DirectIsNotRelay == 0 \notin Direct /\ Direct \subseteq Nat
BY PathAssumption DEF Direct

\* The initial state satisfies the invariant.
LEMMA InvInit == Init => Inv
<1> SUFFICES ASSUME Init PROVE Inv
  OBVIOUS
<1>1. Len(<<>>) <= EventCap /\ <<>> \in Seq(Event) /\ 0 \in 0 .. MaxPaths
  BY PathAssumption
<1>2. Subscribed
  BY <1>1 DEF Init, Subscribed
<1>3. Managed
  BY DEF Init, Managed, Labels
<1>4. Opened
  BY <1>1, Zenon DEF Init, Opened, RelayPath
<1>5. Standing /\ AllKnown
  BY DEF Init, Standing, Control, Statuses, AllKnown, Known, RelayPath
<1> QED
  BY <1>2, <1>3, <1>4, <1>5, TypeParts DEF Inv

\* The single calls of promote and demote, and the reports around them.
Shift(p) ==
    \/ Promote(p) \/ HoldRelay(p) \/ Record(p) \/ Announce(p)
    \/ Demote(p) \/ ReleaseDirect(p) \/ ReportRelay(p)

\* They leave the subscription and the set of open paths alone, and the manager
\* is not at its watch afterwards.
LEMMA ShiftIs ==
    ASSUME Managed, Opened, NEW p \in Peer, Shift(p)
    PROVE  /\ UNCHANGED <<target, advertised, sub, events, lagged, base, open, seen, rounds, closed>>
           /\ pc'[p] \notin {"punching", "watching"} /\ pc[p] \notin {"punching", "watching"}
           /\ \A q \in Peer \ {p} : /\ pc'[q] = pc[q] /\ state'[q] = state[q]
                                    /\ promoted'[q] = promoted[q] /\ avail'[q] = avail[q]
<1>1. CASE Promote(p) \/ HoldRelay(p)
  BY <1>1, SMTT(30), Z3T(30) DEF Promote, HoldRelay, Move, Goto, Managed, Opened, subscription
<1>2. CASE Record(p) \/ Announce(p)
  BY <1>2, SMTT(30), Z3T(30) DEF Record, Announce, Report, Move, Goto, Managed, Opened, subscription, paths
<1>3. CASE Demote(p) \/ ReleaseDirect(p)
  BY <1>3, SMTT(30), Z3T(30) DEF Demote, ReleaseDirect, Move, Goto, Managed, Opened, subscription
<1>4. CASE ReportRelay(p)
  BY <1>4, SMTT(30), Z3T(30) DEF ReportRelay, Report, Move, Goto, Managed, Opened, subscription, paths
<1> QED
  BY <1>1, <1>2, <1>3, <1>4, Zenon DEF Shift

\* A manager knows no less when nothing but its subscription was emptied or
\* read from.
LEMMA KnownKept ==
    ASSUME Subscribed, NEW q \in Peer, Known(q), target'[q] = target[q], open'[q] = open[q], seen'[q] = seen[q],
           events'[q] \in {events[q], <<>>} \/ (events[q] # <<>> /\ events'[q] = Tail(events[q]))
    PROVE  Known(q)'
<1>1. CASE events'[q] \in {events[q], <<>>}
  BY <1>1, SMTT(30), Z3T(30) DEF Known
<1>2. CASE events[q] # <<>> /\ events'[q] = Tail(events[q])
  <2>1. events[q] \in Seq(Event)
    BY DEF Subscribed
  <2>2. \A i \in 1 .. Len(Tail(events[q])) : Tail(events[q])[i].id \in seen[q]
    <3> SUFFICES ASSUME NEW i \in 1 .. Len(Tail(events[q])) PROVE Tail(events[q])[i].id \in seen[q]
      OBVIOUS
    <3>1. i + 1 \in 1 .. Len(events[q]) /\ Tail(events[q])[i] = events[q][i + 1]
      BY <1>2, <2>1, SMTT(30), Z3T(30)
    <3> QED
      BY <3>1 DEF Known
  <2> QED
    BY <1>2, <2>2, Zenon DEF Known
<1> QED
  BY <1>1, <1>2

\* An event about a validated path leaves only such events in the broadcast.
LEMMA KnownEmit ==
    ASSUME Subscribed, NEW p \in Peer, NEW e \in Event, Emit(p, e), NEW S, e.id \in S,
           \A i \in 1 .. Len(events[p]) : events[p][i].id \in S
    PROVE  \A i \in 1 .. Len(events'[p]) : events'[p][i].id \in S
<1>1. events[p] \in Seq(Event) /\ (Len(events[p]) >= EventCap => events[p] # <<>>)
  BY PathAssumption DEF Subscribed
<1>2. CASE events'[p] = events[p]
  BY <1>2
<1>3. CASE events'[p] = Append(events[p], e)
  BY <1>1, <1>3, SMTT(30), Z3T(30)
<1>4. CASE events'[p] = Append(Tail(events[p]), e) /\ events[p] # <<>>
  <2>1. Tail(events[p]) \in Seq(Event) /\ Len(Tail(events[p])) = Len(events[p]) - 1
    BY <1>1, <1>4, HasTail
  <2>2. \A i \in 1 .. Len(Tail(events[p])) : Tail(events[p])[i] = events[p][i + 1]
    BY <1>1, <1>4
  <2> QED
    BY <1>1, <1>4, <2>1, <2>2, SMTT(30), Z3T(30)
<1> QED
  BY <1>1, <1>2, <1>3, <1>4, SMTT(30), Z3T(30) DEF Emit, Subscribed

\* Every step leaves the managers with validated paths only.
LEMMA KnownStep ==
    ASSUME Inv, [Next]_vars
    PROVE  AllKnown'
<1> SUFFICES ASSUME NEW q \in Peer PROVE Known(q)'
  BY DEF AllKnown
<1>1. Subscribed /\ Managed /\ Opened /\ Known(q)
  BY TypeParts DEF Inv, AllKnown
<1>2. ASSUME NEW p \in Peer, StayOnRelay(p) \/ Advertise(p) \/ Retry(p) \/ End(p) \/ Shift(p) PROVE Known(q)'
  <2>1. UNCHANGED <<target, events, open, seen>>
    BY <1>1, <1>2, ShiftIs, Zenon DEF StayOnRelay, Advertise, Retry, End, subscription, paths
  <2> QED
    BY <1>1, <2>1, KnownKept
<1>3. ASSUME NEW p \in Peer, Punch(p) \/ PunchFails(p) \/ Watch(p) \/ FallBack(p) PROVE Known(q)'
  <2>1. UNCHANGED <<target, open, seen>> /\ events' = [events EXCEPT ![p] = <<>>]
    BY <1>3, Zenon DEF Punch, PunchFails, Watch, FallBack, Subscribe, Unsubscribe, paths
  <2>2. events'[q] \in {events[q], <<>>}
    BY <1>1, <2>1 DEF Subscribed
  <2> QED
    BY <1>1, <2>1, <2>2, KnownKept
<1>4. ASSUME NEW p \in Peer, PunchReads(p) \/ WatchReads(p) PROVE Known(q)'
  <2>1. UNCHANGED <<target, open, seen>> /\ ReadOn(p) /\ HasItem(p)
    BY <1>4, Zenon DEF PunchReads, WatchReads, manager, paths
  <2>2. events'[q] = events[q] \/ (events[q] # <<>> /\ events'[q] = Tail(events[q]))
    BY <1>1, <2>1, SMTT(30), Z3T(30) DEF Subscribed, ReadOn, HasItem
  <2> QED
    BY <1>1, <2>1, <2>2, KnownKept
<1>5. ASSUME NEW p \in Peer, PunchSucceeds(p) PROVE Known(q)'
  <2>1. PICK id \in Direct : NextEvent(p, Established(id)) /\ target' = [target EXCEPT ![p] = id]
    BY <1>5, Zenon DEF PunchSucceeds
  <2>2. UNCHANGED <<open, seen>> /\ events' = [events EXCEPT ![p] = <<>>]
    BY <1>5, Zenon DEF PunchSucceeds, Unsubscribe, paths
  <2>3. CASE q # p
    BY <1>1, <2>1, <2>2, <2>3, KnownKept DEF Subscribed, Managed
  <2>4. CASE q = p
    <3>1. 1 \in 1 .. Len(events[p]) /\ events[p][1].id = id
      BY <1>1, <2>1, SMTT(30), Z3T(30) DEF NextEvent, Subscribed, Established
    <3>2. target'[p] = id /\ events'[p] = <<>> /\ id \in seen[p]
      BY <1>1, <2>1, <2>2, <2>4, <3>1 DEF Known, Subscribed, Managed
    <3> QED
      BY <1>1, <2>2, <2>4, <3>2 DEF Known
  <2> QED
    BY <2>3, <2>4
<1>6. CASE Round \/ CloseConnection \/ UNCHANGED vars
  <2>1. UNCHANGED <<target, events, open, seen>>
    BY <1>6, Zenon DEF Round, CloseConnection, vars, manager, subscription, paths
  <2> QED
    BY <1>1, <2>1, KnownKept
<1>7. ASSUME NEW p \in Peer, NEW id \in Direct, Validate(p, id) \/ Abandon(p, id) PROVE Known(q)'
  <2>1. UNCHANGED target
    BY <1>7 DEF Validate, Abandon, manager
  <2>2. CASE q # p
    <3>1. events'[q] = events[q] /\ open'[q] = open[q] /\ seen'[q] = seen[q]
      BY <1>1, <1>7, <2>2, SMTT(30), Z3T(30) DEF Validate, Abandon, Emit, Subscribed, Opened
    <3> QED
      BY <1>1, <2>1, <3>1, KnownKept
  <2>3. CASE q = p
    <3>1. seen[p] \subseteq seen'[p] /\ id \in seen'[p] /\ open'[p] \subseteq seen'[p]
      BY <1>1, <1>7, <2>3, SMTT(30), Z3T(30) DEF Validate, Abandon, Opened, Known
    <3>2. PICK e \in {Established(id), Abandoned(id)} : Emit(p, e)
      BY <1>7 DEF Validate, Abandon
    <3>3. e \in Event /\ e.id = id
      <4>1. Established(id) \in Event /\ Abandoned(id) \in Event
        BY EventTypes, Zenon
      <4>2. Established(id).id = id /\ Abandoned(id).id = id
        BY DEF Established, Abandoned
      <4>3. e = Established(id) \/ e = Abandoned(id)
        BY <3>2, Zenon
      <4> QED
        BY <4>1, <4>2, <4>3, Zenon
    <3>4. \A i \in 1 .. Len(events'[p]) : events'[p][i].id \in seen'[p]
      BY <1>1, <2>3, <3>1, <3>2, <3>3, KnownEmit DEF Known
    <3> QED
      BY <1>1, <2>1, <2>3, <3>1, <3>4 DEF Known
  <2> QED
    BY <2>2, <2>3
<1> QED
  BY <1>2, <1>3, <1>4, <1>5, <1>6, <1>7, Zenon DEF Next, Connection, Manager, Timer, Shift


\* A step of the manager of p leaves the other peer where it stands.
LEMMA OthersStand ==
    ASSUME Standing, NEW p \in Peer, Control(p)' /\ Statuses(p)',
           \A q \in Peer \ {p} : /\ pc'[q] = pc[q] /\ state'[q] = state[q] /\ target'[q] = target[q]
                                 /\ promoted'[q] = promoted[q] /\ avail'[q] = avail[q] /\ open'[q] = open[q]
                                 /\ (q \in sub' <=> q \in sub)
    PROVE  Standing'
<1> SUFFICES ASSUME NEW q \in Peer, q # p PROVE Control(q)' /\ Statuses(q)'
  BY DEF Standing
<1>1. Control(q)'
  BY DEF Standing, Control
<1>2. Statuses(q)'
  BY DEF Standing, Statuses
<1> QED
  BY <1>1, <1>2

\* The steps of a manager that neither subscribe nor touch the paths.
LEMMA PlainSteps ==
    ASSUME Inv, NEW p \in Peer, StayOnRelay(p) \/ Advertise(p) \/ Retry(p) \/ End(p)
    PROVE  TypeOK' /\ Standing'
<1> USE DEF StayOnRelay, Advertise, Retry, End, Move, Goto, subscription, paths
<1>1. Subscribed /\ Managed /\ Opened /\ Standing
  BY TypeParts, SMTT(30), Z3T(30) DEF Inv
<1>2. Subscribed' /\ Opened'
  BY <1>1, SMTT(30), Z3T(30) DEF Subscribed, Opened
<1>3. Managed'
  BY <1>1, SMTT(30), Z3T(30) DEF Managed, Labels
<1>4. Control(p)' /\ Statuses(p)'
  BY <1>1, SMTT(30), Z3T(30) DEF Standing, Control, Statuses, Managed
<1>5. \A q \in Peer \ {p} : pc'[q] = pc[q]
  BY <1>1, SMTT(30), Z3T(30) DEF Managed
<1>6. Standing'
  BY <1>1, <1>4, <1>5, OthersStand, Zenon
<1> QED
  BY <1>2, <1>3, <1>6, TypePartsNext, Zenon

\* Punching: the relay stays Available, and a punch that succeeds returns a
\* direct path.
LEMMA PunchSteps ==
    ASSUME Inv, NEW p \in Peer, Punch(p) \/ PunchSucceeds(p) \/ PunchFails(p)
    PROVE  TypeOK' /\ Standing'
<1>1. Subscribed /\ Managed /\ Opened /\ Standing
  BY TypeParts DEF Inv
<1>2. Subscribed'
  BY <1>1, SubscribeTypes DEF Punch, PunchSucceeds, PunchFails, Opened
<1>3. Opened'
  BY <1>1 DEF Opened, Punch, PunchSucceeds, PunchFails, paths
<1>4. pc[p] \in {"loop", "punching"} /\ promoted[p] = 0 /\ avail[p] = {RelayPath}
  BY <1>1, SMTT(30), Z3T(30) DEF Standing, Control, Statuses, Punch, PunchSucceeds, PunchFails, Move
<1>5. Managed'
  BY <1>1, <1>4, SMTT(30), Z3T(30) DEF Managed, Labels, Punch, PunchSucceeds, PunchFails, Move, Goto, Report
<1>6. Control(p)'
  BY <1>1, <1>4, DirectIsNotRelay, SMTT(30), Z3T(30)
  DEF Standing, RelayPath, Control, Managed, Punch, PunchSucceeds, PunchFails, Move, Goto, Report, Subscribe, Unsubscribe
<1>7. Statuses(p)'
  BY <1>1, <1>4, SMTT(30), Z3T(30)
  DEF Statuses, Managed, Punch, PunchSucceeds, PunchFails, Move, Goto, paths
<1>8. \A q \in Peer \ {p} : /\ pc'[q] = pc[q] /\ state'[q] = state[q] /\ target'[q] = target[q]
                            /\ promoted'[q] = promoted[q] /\ avail'[q] = avail[q] /\ open'[q] = open[q]
                            /\ (q \in sub' <=> q \in sub)
  BY <1>1, SMTT(30), Z3T(30)
  DEF Managed, Punch, PunchSucceeds, PunchFails, Move, Goto, Report, Subscribe, Unsubscribe, paths
<1> QED
  BY <1>1, <1>2, <1>3, <1>5, <1>6, <1>7, <1>8, OthersStand, TypePartsNext, Zenon

\* Each of them keeps the invariant: the direct path is Available before the
\* relay path is put on standby, and the other way round on the way back.
LEMMA ShiftSteps ==
    ASSUME Inv, NEW p \in Peer, Shift(p)
    PROVE  TypeOK' /\ Standing'
<1>1. Subscribed /\ Managed /\ Opened /\ Standing /\ Control(p) /\ Statuses(p)
  BY TypeParts, SMTT(30), Z3T(30) DEF Inv, Standing
<1>2. /\ UNCHANGED <<target, advertised, sub, events, lagged, base, open, seen, rounds, closed>>
      /\ pc'[p] \notin {"punching", "watching"} /\ pc[p] \notin {"punching", "watching"}
      /\ \A q \in Peer \ {p} : /\ pc'[q] = pc[q] /\ state'[q] = state[q]
                               /\ promoted'[q] = promoted[q] /\ avail'[q] = avail[q]
  BY <1>1, ShiftIs, Zenon
<1>3. Subscribed'
  BY <1>1, <1>2 DEF Subscribed
<1>4. Managed' /\ Opened' /\ Control(p)' /\ Statuses(p)'
  <2>1. CASE Promote(p)
    BY <1>1, <1>2, <2>1, SMTT(30), Z3T(30) DEF Promote, Move, Goto, Managed, Opened, Labels, Control, Statuses
  <2>2. CASE HoldRelay(p)
    BY <1>1, <1>2, <2>2, DirectIsNotRelay, SMTT(30), Z3T(30)
    DEF HoldRelay, Move, Goto, Managed, Opened, Labels, Control, Statuses, RelayPath
  <2>3. CASE Record(p)
    BY <1>1, <1>2, <2>3, SMTT(30), Z3T(30) DEF Record, Move, Goto, Managed, Opened, Labels, Control, Statuses, paths
  <2>4. CASE Announce(p)
    BY <1>1, <1>2, <2>4, SMTT(30), Z3T(30)
    DEF Announce, Report, Move, Goto, Managed, Opened, Labels, Control, Statuses, paths
  <2>5. CASE Demote(p)
    BY <1>1, <1>2, <2>5, SMTT(30), Z3T(30) DEF Demote, Move, Goto, Managed, Opened, Labels, Control, Statuses
  <2>6. CASE ReleaseDirect(p)
    BY <1>1, <1>2, <2>6, DirectIsNotRelay, SMTT(30), Z3T(30)
    DEF ReleaseDirect, Move, Goto, Managed, Opened, Labels, Control, Statuses, RelayPath
  <2>7. CASE ReportRelay(p)
    BY <1>1, <1>2, <2>7, SMTT(30), Z3T(30)
    DEF ReportRelay, Report, Move, Goto, Managed, Opened, Labels, Control, Statuses, paths
  <2> QED
    BY <2>1, <2>2, <2>3, <2>4, <2>5, <2>6, <2>7, Zenon DEF Shift
<1>5. Standing'
  BY <1>1, <1>2, <1>4, OthersStand, Zenon
<1> QED
  BY <1>3, <1>4, <1>5, TypePartsNext

\* The end of the watch, its start, and reading events that say nothing of the
\* loss.
LEMMA WatchSteps ==
    ASSUME Inv, NEW p \in Peer, Watch(p) \/ PunchReads(p) \/ WatchReads(p) \/ FallBack(p)
    PROVE  TypeOK' /\ Standing'
<1>1. Subscribed /\ Managed /\ Opened /\ Standing
  BY TypeParts DEF Inv
<1>2. Subscribed'
  BY <1>1, SubscribeTypes, ReadTypes, SMTT(30), Z3T(30) DEF Watch, PunchReads, WatchReads, FallBack, Opened
<1>3. Opened' /\ UNCHANGED <<state, target, avail, open>>
  BY <1>1 DEF Opened, Watch, PunchReads, WatchReads, FallBack, paths, manager
<1>4. Managed'
  BY <1>1, SMTT(30), Z3T(30) DEF Managed, Labels, Watch, PunchReads, WatchReads, FallBack, Move, Goto, manager
<1>5. \A q \in Peer \ {p} : pc'[q] = pc[q] /\ promoted'[q] = promoted[q] /\ (q \in sub' <=> q \in sub)
  BY <1>1, SMTT(30), Z3T(30)
  DEF Managed, Watch, PunchReads, WatchReads, FallBack, Move, Goto, Subscribe, Unsubscribe, ReadOn, manager
<1>6. Control(p)'
  BY <1>1, SMTT(30), Z3T(30)
  DEF Standing, Control, Managed, Watch, PunchReads, WatchReads, FallBack, Move, Goto, Subscribe, Unsubscribe, ReadOn, manager
<1>7. Statuses(p)'
  BY <1>1, <1>3, SMTT(30), Z3T(30)
  DEF Standing, Statuses, Managed, Watch, PunchReads, WatchReads, FallBack, Move, Goto, manager
<1> QED
  BY <1>1, <1>2, <1>3, <1>4, <1>5, <1>6, <1>7, OthersStand, TypePartsNext, Zenon

\* The connection: a validated path is Backup, and an abandoned one leaves the
\* relay path as it is.
LEMMA ConnectionSteps ==
    ASSUME Inv, Connection
    PROVE  TypeOK' /\ Standing'
<1>1. Subscribed /\ Managed /\ Opened /\ Standing
  BY TypeParts DEF Inv
<1>2. CASE Round \/ CloseConnection
  <2> USE <1>2 DEF Round, CloseConnection, manager, subscription, paths
  <2>1. Subscribed' /\ Managed' /\ Standing'
    BY <1>1 DEF Subscribed, Managed, Standing, Control, Statuses
  <2>2. rounds' \in 0 .. MaxPaths
    BY <1>1, PathAssumption DEF Opened
  <2>3. closed' \in BOOLEAN
    BY <1>1, Zenon DEF Opened
  <2>4. Opened'
    BY <1>1, <2>2, <2>3 DEF Opened
  <2> QED
    BY <2>1, <2>4, TypePartsNext, SMTT(30), Z3T(30)
<1>3. ASSUME NEW p \in Peer, NEW id \in Direct, Validate(p, id) \/ Abandon(p, id) PROVE TypeOK' /\ Standing'
  <2>1. Subscribed'
    BY <1>1, <1>3, EmitTypes, EventTypes, SMTT(30), Z3T(30) DEF Validate, Abandon
  <2>2. Managed' /\ UNCHANGED <<manager, sub>>
    BY <1>1, <1>3 DEF Managed, Validate, Abandon, Emit, manager
  <2>3. Opened'
    BY <1>1, <1>3, SMTT(30), Z3T(30) DEF Opened, Validate, Abandon
  <2>4. Control(p)'
    BY <1>1, <2>2, SMTT(30), Z3T(30) DEF Standing, Control, manager
  <2>5. Statuses(p)'
    <3>1. CASE Validate(p, id)
      <4>1. id # target[p] \/ target[p] = RelayPath
        BY <3>1 DEF Inv, AllKnown, Known, Validate
      <4>2. open' = [open EXCEPT ![p] = @ \cup {id}] /\ UNCHANGED <<pc, target, avail>>
        BY <3>1 DEF Validate, manager
      <4> QED
        BY <1>1, <4>1, <4>2, SMTT(30), Z3T(30) DEF Standing, Control, Statuses, Opened
    <3>2. CASE Abandon(p, id)
      BY <1>1, <2>2, <3>2, DirectIsNotRelay, SMTT(30), Z3T(30)
      DEF Standing, Statuses, Opened, Abandon, manager, RelayPath
    <3> QED
      BY <1>3, <3>1, <3>2
  <2>6. \A q \in Peer \ {p} : avail'[q] = avail[q] /\ open'[q] = open[q]
    BY <1>1, <1>3, SMTT(30), Z3T(30) DEF Opened, Validate, Abandon
  <2>7. Standing'
    BY <1>1, <2>2, <2>4, <2>5, <2>6, OthersStand, Zenon DEF manager
  <2> QED
    BY <2>1, <2>2, <2>3, <2>7, TypePartsNext
<1> QED
  BY <1>2, <1>3 DEF Connection

\* Every step keeps the invariant.
LEMMA InvStep == Inv /\ [Next]_vars => Inv'
<1> SUFFICES ASSUME Inv, [Next]_vars PROVE TypeOK' /\ Standing'
  BY KnownStep, Zenon DEF Inv
<1>1. CASE Connection
  BY <1>1, ConnectionSteps
<1>2. ASSUME NEW p \in Peer, Manager(p) \/ Timer(p) PROVE TypeOK' /\ Standing'
  BY <1>2, PlainSteps, PunchSteps, ShiftSteps, WatchSteps, Zenon DEF Manager, Timer, Shift
<1>3. CASE UNCHANGED vars
  BY <1>3 DEF vars, manager, subscription, paths, Inv, TypeOK, Standing, Control, Statuses
<1> QED
  BY <1>1, <1>2, <1>3 DEF Next

\* The invariant holds in every behaviour.
LEMMA Invariant == Spec => []Inv
BY InvInit, InvStep, PTL DEF Spec

-------------------------------------------------------------------------------
(***************************************************************************)
(* The loss of a path under watch.                                         *)
(***************************************************************************)

\* LossIsNoticed, for one peer.
Noticed(p) ==
    pc[p] = "watching" /\ target[p] \in base[p] /\ target[p] \notin open[p] =>
        p \in lagged \/ Has(events[p], Abandoned(target[p]))

\* A loss that is noticed stays noticed, whatever is emitted afterwards: what
\* the broadcast drops it reports as a lag.
LEMMA EmitKeeps ==
    ASSUME Subscribed, NEW p \in Peer, NEW e \in Event, Emit(p, e), p \in sub, NEW f
    PROVE  /\ Has(events'[p], e)
           /\ p \in lagged \/ Has(events[p], f) => p \in lagged' \/ Has(events'[p], f)
<1>1. CASE Len(events[p]) < EventCap
  <2>1. events'[p] = Append(events[p], e) /\ lagged' = lagged
    BY <1>1 DEF Emit, Subscribed
  <2>2. events[p] \in Seq(Event)
    BY DEF Subscribed
  <2>3. Has(Append(events[p], e), e) /\ (Has(events[p], f) => Has(Append(events[p], e), f))
    BY <2>2, HasAppend
  <2> QED
    BY <2>1, <2>3
<1>2. CASE ~(Len(events[p]) < EventCap)
  <2>1. events'[p] = Append(Tail(events[p]), e) /\ p \in lagged'
    BY <1>2 DEF Emit, Subscribed
  <2>2. events[p] \in Seq(Event) /\ events[p] # <<>>
    BY <1>2, PathAssumption, SMTT(30), Z3T(30) DEF Subscribed
  <2>3. Tail(events[p]) \in Seq(Event)
    BY <2>2, HasTail
  <2> QED
    BY <2>1, <2>3, HasAppend, Zenon
<1> QED
  BY <1>1, <1>2, Zenon

\* A peer none of whose state changed has noticed what it had.
LEMMA NoticedKept ==
    ASSUME NEW q \in Peer, Noticed(q), pc'[q] = pc[q], target'[q] = target[q], base'[q] = base[q],
           open'[q] = open[q], events'[q] = events[q], q \in lagged => q \in lagged'
    PROVE  Noticed(q)'
BY DEF Noticed, Abandoned

\* Every step leaves the loss of a watched path noticed.
LEMMA NoticedStep ==
    ASSUME Inv, NEW q \in Peer, Noticed(q), [Next]_vars
    PROVE  Noticed(q)'
<1>1. Subscribed /\ Managed /\ Opened /\ Standing
  BY TypeParts DEF Inv
<1>2. ASSUME NEW p \in Peer,
             \/ StayOnRelay(p) \/ Advertise(p) \/ Retry(p) \/ End(p) \/ Shift(p)
             \/ Punch(p) \/ PunchSucceeds(p) \/ PunchFails(p) \/ FallBack(p)
      PROVE  Noticed(q)'
  <2>1. pc'[p] # "watching"
    <3>1. CASE Shift(p)
      BY <1>1, <3>1, ShiftIs, Zenon
    <3>2. CASE ~Shift(p)
      BY <1>1, <1>2, <3>2, ZenonT(60) DEF Managed, StayOnRelay, Advertise, Retry, End, Punch, PunchSucceeds,
                        PunchFails, FallBack, Move, Goto
    <3> QED
      BY <3>1, <3>2
  <2>2. CASE q = p
    BY <2>1, <2>2, Zenon DEF Noticed
  <2>3. CASE q # p
    <3>1. /\ pc'[q] = pc[q] /\ target'[q] = target[q] /\ base'[q] = base[q] /\ open'[q] = open[q]
          /\ events'[q] = events[q] /\ (q \in lagged => q \in lagged')
      <4>1. CASE StayOnRelay(p) \/ Advertise(p) \/ Retry(p)
        BY <1>1, <2>3, <4>1, SMTT(30), Z3T(30)
        DEF Managed, Subscribed, StayOnRelay, Advertise, Retry, Move, Goto, Unsubscribe, subscription, paths
      <4>2. CASE End(p)
        BY <1>1, <2>3, <4>2, SMTT(30), Z3T(30) DEF Managed, End, Goto, subscription, paths
      <4>5. CASE Shift(p)
        BY <1>1, <2>3, <4>5, ShiftIs, Zenon
      <4>3. CASE Punch(p) \/ FallBack(p)
        BY <1>1, <2>3, <4>3, SMTT(30), Z3T(30)
        DEF Managed, Subscribed, Punch, FallBack, Move, Goto, Subscribe, Unsubscribe, subscription, paths
      <4>4. CASE PunchSucceeds(p) \/ PunchFails(p)
        BY <1>1, <2>3, <4>4, SMTT(30)
        DEF Managed, Subscribed, PunchSucceeds, PunchFails, Move, Goto, Unsubscribe, subscription, paths
      <4> QED
        BY <1>2, <4>1, <4>2, <4>3, <4>4, <4>5, ZenonT(60)
    <3> QED
      BY <3>1, NoticedKept, Zenon
  <2> QED
    BY <2>2, <2>3, Zenon
<1>3. ASSUME NEW p \in Peer, Watch(p) PROVE Noticed(q)'
  <2>1. CASE q = p
    BY <1>1, <1>3, <2>1, ZenonT(60) DEF Noticed, Watch, Subscribe, Subscribed, paths
  <2>2. CASE q # p
    <3>1. /\ pc'[q] = pc[q] /\ target'[q] = target[q] /\ base'[q] = base[q] /\ open'[q] = open[q]
          /\ events'[q] = events[q] /\ (q \in lagged => q \in lagged')
      BY <1>1, <1>3, <2>2, SMTT(30), ZenonT(60) DEF Managed, Subscribed, Watch, Move, Goto, Subscribe, paths
    <3> QED
      BY <3>1, NoticedKept, Zenon
  <2> QED
    BY <2>1, <2>2, Zenon
<1>4. ASSUME NEW p \in Peer, PunchReads(p) \/ WatchReads(p) PROVE Noticed(q)'
  <2>1. UNCHANGED <<pc, target, open, base>> /\ ReadOn(p) /\ HasItem(p)
    BY <1>4, SMTT(30), Z3T(30) DEF PunchReads, WatchReads, ReadOn, manager, paths
  <2>2. CASE q # p
    <3>1. events'[q] = events[q] /\ (q \in lagged => q \in lagged')
      BY <1>1, <2>1, <2>2, SMTT(30), Z3T(30) DEF ReadOn, Subscribed
    <3> QED
      BY <2>1, <3>1, NoticedKept, Zenon
  <2>3. CASE q = p /\ p \in lagged
    <3>1. pc[p] = "watching" => target[p] \in open[p]
      BY <1>4, <2>3, SMTT(30), Z3T(30) DEF PunchReads, WatchReads, Lost
    <3> QED
      BY <2>1, <2>3, <3>1, Zenon DEF Noticed
  <2>4. CASE q = p /\ p \notin lagged
    <3> SUFFICES ASSUME pc'[p] = "watching", target'[p] \in base'[p], target'[p] \notin open'[p]
                 PROVE  Has(events'[p], Abandoned(target'[p]))
      BY <2>4, SMTT(30), Z3T(30) DEF Noticed, Abandoned
    <3>1. events'[p] = Tail(events[p]) /\ events[p] \in Seq(Event) /\ events[p] # <<>>
      BY <1>1, <2>1, <2>4, SMTT(30), Z3T(30) DEF ReadOn, Subscribed, HasItem
    <3>2. Head(events[p]) # Abandoned(target[p])
      BY <1>4, <2>1, <2>4, <3>1, SMTT(30), Z3T(30) DEF PunchReads, WatchReads, Lost, NextEvent
    <3>3. Has(events[p], Abandoned(target[p]))
      BY <2>1, <2>4, Zenon DEF Noticed
    <3>4. Has(Tail(events[p]), Abandoned(target[p]))
      BY <3>1, <3>2, <3>3, HasTail, SMTT(30), Z3T(30)
    <3> QED
      BY <2>1, <3>1, <3>4, Zenon
  <2> QED
    BY <2>2, <2>3, <2>4, Zenon
<1>5. CASE Round \/ CloseConnection \/ UNCHANGED vars
  <2>1. UNCHANGED <<pc, target, open, base, events, lagged>>
    BY <1>5 DEF Round, CloseConnection, vars, manager, subscription, paths
  <2> QED
    BY <2>1, NoticedKept, Zenon
<1>6. ASSUME NEW p \in Peer, NEW id \in Direct, Validate(p, id) \/ Abandon(p, id) PROVE Noticed(q)'
  <2>1. UNCHANGED <<pc, target, base>>
    BY <1>6, SMTT(30), Z3T(30) DEF Validate, Abandon, Emit, manager
  <2>2. CASE q # p
    <3>1. events'[q] = events[q] /\ (q \in lagged => q \in lagged') /\ open'[q] = open[q]
      BY <1>1, <1>6, <2>2, SMTT(30), Z3T(30) DEF Validate, Abandon, Emit, Subscribed, Opened
    <3> QED
      BY <2>1, <3>1, NoticedKept, Zenon
  <2>3. CASE q = p
    <3> SUFFICES ASSUME pc'[p] = "watching", target'[p] \in base'[p], target'[p] \notin open'[p]
                 PROVE  p \in lagged' \/ Has(events'[p], Abandoned(target'[p]))
      BY <2>3, Zenon DEF Noticed
    <3>1. p \in sub
      BY <1>1, <2>1, SMTT(30), Z3T(30) DEF Standing, Control
    <3>2. PICK e \in {Established(id), Abandoned(id)} :
              Emit(p, e) /\ (target[p] \in open[p] => e = Abandoned(target[p]))
      BY <1>1, <1>6, <2>1, SMTT(30), Z3T(30) DEF Validate, Abandon, Opened
    <3>3. e \in Event
      BY <3>2, EventTypes, Zenon
    <3>4. CASE target[p] \in open[p]
      <4>1. Emit(p, e) /\ e = Abandoned(target[p])
        BY <3>2, <3>4, Zenon
      <4>2. Has(events'[p], e)
        BY <1>1, <3>1, <3>3, <4>1, EmitKeeps, ZenonT(60)
      <4>3. Abandoned(target'[p]) = Abandoned(target[p])
        BY <2>1, Zenon
      <4> QED
        BY <4>1, <4>2, <4>3, Zenon
    <3>5. CASE target[p] \notin open[p]
      <4>1. p \in lagged \/ Has(events[p], Abandoned(target[p]))
        BY <2>1, <2>3, <3>5, Zenon DEF Noticed
      <4>2. p \in lagged' \/ Has(events'[p], Abandoned(target[p]))
        BY <1>1, <3>1, <3>2, <3>3, <4>1, EmitKeeps, ZenonT(60)
      <4>3. Abandoned(target'[p]) = Abandoned(target[p])
        BY <2>1
      <4> QED
        BY <4>2, <4>3, ZenonT(60)
    <3> QED
      BY <3>4, <3>5, Zenon
  <2> QED
    BY <2>2, <2>3, Zenon
<1> QED
  BY <1>2, <1>3, <1>4, <1>5, <1>6 DEF Next, Connection, Manager, Timer, Shift

-------------------------------------------------------------------------------
(***************************************************************************)
(* The results.                                                            *)
(***************************************************************************)

\* For every number of paths and length of the broadcast the variables keep
\* their types: a subscription never holds more events than the broadcast.
THEOREM TypeCorrect == Spec => []TypeOK
BY Invariant, PTL DEF Inv

\* For every number of paths and every interleaving of the two managers with
\* the paths that come and go: a peer always has an Available path as long as
\* the direct path it moved to is open (promote, demote).
THEOREM MovesMakeBeforeBreak == Spec => []MakeBeforeBreak
<1>1. Inv => MakeBeforeBreak
  BY DEF Inv, Standing, Statuses, MakeBeforeBreak
<1> QED
  BY <1>1, Invariant, PTL

\* A peer that reports Relay is on the relay alone, whatever punches and late
\* rounds came before (manage).
THEOREM RelayIsAlone == Spec => []RelayAlone
<1>1. Inv => RelayAlone
  BY DEF Inv, Standing, Control, Statuses, RelayAlone
<1> QED
  BY <1>1, Invariant, PTL

\* However many events the broadcast drops, the loss of the path under watch is
\* one that await_path_lost is about to notice.
THEOREM LossesAreNoticed == Spec => []LossIsNoticed
<1> DEFINE All == \A q \in Peer : Noticed(q)
<1>1. Init => All
  BY DEF Init, Noticed
<1>2. Inv /\ All /\ [Next]_vars => All'
  BY NoticedStep, SMTT(30), Z3T(30)
<1>3. All => LossIsNoticed
  BY SMTT(30), Z3T(30) DEF LossIsNoticed, Noticed, Has
<1> QED
  BY <1>1, <1>2, <1>3, Invariant, PTL DEF Spec
-------------------------------------------------------------------------------
(***************************************************************************)
(* NatProbe: the datagrams under way and what was concluded from them.     *)
(***************************************************************************)

\* An answer that is under way, of this transaction or of an earlier one on the
\* same socket, says where the NAT maps its test, or names a port that is forwarded.
AnswersAreTrue ==
    \A m \in net : m.type = "answer" /\ m.ok =>
        /\ m.step \in Tests => m.addr = Reflexive(Target(m.step))
        /\ m.step \in {"pcp", "map"} => m.port \in forwards

\* The inductive invariant of the probes: what Test I learned is kept for the tests
\* after it, and Test III runs only where the second mapping differs from the first.
ProbeInv ==
    /\ nat \in {"open", "eim", "adm", "apdm"}
    /\ AnswersAreTrue
    /\ step \in {"test2", "test3"} => ma1 = Reflexive(Target("test1"))
    /\ step = "test3" => Reflexive(Target("test2")) # ma1
    /\ VerdictIsRight /\ MappingIsForwarded

\* Where the three tests go, and what the NAT makes of it.
LEMMA Mappings ==
    ASSUME nat \in {"open", "eim", "adm", "apdm"}
    PROVE  /\ Reflexive(Target("test2")) = Reflexive(Target("test1")) <=> nat \in {"open", "eim"}
           /\ nat = "adm" => Reflexive(Target("test3")) = Reflexive(Target("test1"))
           /\ nat = "apdm" => Reflexive(Target("test3")) # Reflexive(Target("test1"))
<1>1. Target("test1") = <<"a", 1>> /\ Target("test2") = <<"b", 2>> /\ Target("test3") = <<"a", 2>>
  BY DEF Target, Primary, Other
<1>2. CASE nat \in {"open", "eim"}
  BY <1>1, <1>2 DEF Reflexive
<1>3. CASE nat = "adm"
  <2>1. \A d : Reflexive(d) = <<"ext", d[1]>>
    BY <1>3 DEF Reflexive
  <2>2. <<"a", 1>>[1] = "a" /\ <<"b", 2>>[1] = "b" /\ <<"a", 2>>[1] = "a"
    OBVIOUS
  <2>3. <<"ext", "a">> # <<"ext", "b">>
    BY SMTT(30), Z3T(30)
  <2> QED
    BY <1>1, <1>3, <2>1, <2>2, <2>3
<1>4. CASE nat = "apdm"
  <2>1. \A d : Reflexive(d) = <<"ext", d[1], d[2]>>
    BY <1>4 DEF Reflexive
  <2>2. /\ <<"a", 1>>[1] = "a" /\ <<"b", 2>>[1] = "b" /\ <<"a", 2>>[1] = "a"
        /\ <<"a", 1>>[2] = 1 /\ <<"b", 2>>[2] = 2 /\ <<"a", 2>>[2] = 2
    OBVIOUS
  <2>3. <<"ext", "a", 1>> # <<"ext", "b", 2>> /\ <<"ext", "a", 1>> # <<"ext", "a", 2>>
    OBVIOUS
  <2> QED
    BY <1>1, <1>4, <2>1, <2>2, <2>3
<1> QED
  BY <1>2, <1>3, <1>4

\* A datagram that is taken as the answer asked for.
LEMMA TakenIsTrue ==
    ASSUME AnswersAreTrue, NEW m \in net, Take(m, TRUE)
    PROVE  /\ step \in Tests => m.addr = Reflexive(Target(step))
           /\ step \in {"pcp", "map"} => m.port \in forwards
<1>1. m.type = "answer" /\ Matches(m)
  BY DEF Take
<1>2. step \in Tests \cup {"pcp", "map"} => m.ok /\ m.step = step
  BY <1>1 DEF Matches, ParseBinding, ParsePcpMap, ParseNatPmp, Tests
<1> QED
  BY <1>1, <1>2 DEF AnswersAreTrue

\* A request is sent, or a transaction ends: nothing new is under way that is an
\* answer.
LEMMA RequestsAreNoAnswers ==
    ASSUME AnswersAreTrue, UNCHANGED <<nat, forwards>>, NEW s, NEW n,
           net' \subseteq net \cup {Request(s, n)}
    PROVE  AnswersAreTrue'
<1>1. Request(s, n).type = "request"
  BY DEF Request
<1>2. ASSUME NEW t PROVE Reflexive(Target(t))' = Reflexive(Target(t))
  BY SMTT(30), Z3T(30) DEF Reflexive, Target, Primary, Other
<1> QED
  BY <1>1, <1>2 DEF AnswersAreTrue

\* The servers tell the truth.
LEMMA ServersStep ==
    ASSUME ProbeInv, Servers
    PROVE  ProbeInv'
<1> PICK m \in net : m.type = "request" /\ (StunServer(m) \/ GatewayRefuses(m) \/ GatewayGrants(m))
  BY DEF Servers
<1>1. /\ UNCHANGED <<nat, step, ma1, verdict, mapping>> /\ forwards \subseteq forwards'
  BY Zenon DEF StunServer, GatewayRefuses, GatewayGrants
<1>2. ASSUME NEW t PROVE Reflexive(Target(t))' = Reflexive(Target(t))
  BY <1>1, SMTT(30), Z3T(30) DEF Reflexive, Target, Primary, Other
<1>3. PICK r : /\ net' = (net \ {m}) \cup {r}
               /\ r.type = "answer" /\ r.ok =>
                    /\ r.step \in Tests => r.addr = Reflexive(Target(r.step))
                    /\ r.step \in {"pcp", "map"} => r.port \in forwards'
  <2>1. CASE StunServer(m)
    <3> WITNESS Response(m, TRUE, Reflexive(Target(m.step)), 0)
    <3> QED
      BY <2>1, SMTT(30), ZenonT(60) DEF StunServer, Response, Tests
  <2>2. CASE GatewayRefuses(m)
    <3> WITNESS Response(m, FALSE, NoAddr, 3)
    <3> QED
      BY <2>2 DEF GatewayRefuses, Response
  <2>3. CASE GatewayGrants(m)
    <3> DEFINE port == CASE m.step = "pcp" -> 1 [] m.step = "map" -> 2 [] OTHER -> 0
    <3>1. /\ m.step \in Asks /\ net' = (net \ {m}) \cup {Response(m, TRUE, NoAddr, port)}
          /\ forwards' = forwards \cup ({port} \ {0})
      BY <2>3 DEF GatewayGrants
    <3>2. m.step \in {"pcp", "map"} => port \in forwards'
      BY <3>1
    <3>3. m.step \notin Tests
      BY <3>1, SMTT(30), Z3T(30) DEF Asks, Tests
    <3> HIDE DEF port
    <3> WITNESS Response(m, TRUE, NoAddr, port)
    <3> QED
      BY <3>1, <3>2, <3>3 DEF Response
  <2> QED
    BY <2>1, <2>2, <2>3, SMTT(30), Z3T(30)
<1>4. AnswersAreTrue'
  BY <1>1, <1>2, <1>3, SMTT(30), ZenonT(60) DEF ProbeInv, AnswersAreTrue
<1>5. VerdictIsRight' /\ MappingIsForwarded'
  BY <1>1 DEF ProbeInv, VerdictIsRight, MappingIsForwarded
<1> QED
  BY <1>1, <1>2, <1>4, <1>5 DEF ProbeInv

\* The peer draws the right conclusions.
LEMMA TransactionStep ==
    ASSUME ProbeInv, Transaction
    PROVE  ProbeInv'
<1> USE DEF Tests
<1>1. UNCHANGED <<nat, forwards>>
  BY Zenon DEF Transaction, Test1, Test2Same, Test2Differs, Test3, Mapped, External, DetectFails, PcpFails,
               NatPmpFails, Resend
<1>2. ASSUME NEW t PROVE Reflexive(Target(t))' = Reflexive(Target(t))
  BY <1>1 DEF Reflexive, Target, Primary, Other
<1>3. AnswersAreTrue'
  <2>1. \E s, n : net' \subseteq net \cup {Request(s, n)}
    <3>1. CASE \E m \in net : Test1(m) \/ Test2Differs(m) \/ External(m)
      BY <3>1, Zenon DEF Test1, Test2Differs, External, Begin
    <3>2. CASE \E m \in net : Test2Same(m) \/ Test3(m) \/ Mapped(m)
      BY <3>2, Zenon DEF Test2Same, Test3, Mapped, Finish
    <3>3. CASE DetectFails \/ NatPmpFails
      BY <3>3, Zenon DEF DetectFails, NatPmpFails, Finish
    <3>4. CASE PcpFails
      BY <3>4, Zenon DEF PcpFails, Begin
    <3>5. CASE Resend
      BY <3>5 DEF Resend
    <3> QED
      BY <3>1, <3>2, <3>3, <3>4, <3>5 DEF Transaction
  <2> QED
    BY <1>1, <2>1, RequestsAreNoAnswers, SMTT(30), Z3T(30) DEF ProbeInv
<1>4. ASSUME NEW m \in net, Take(m, TRUE)
      PROVE  /\ step \in Tests => m.addr = Reflexive(Target(step))
             /\ step \in {"pcp", "map"} => m.port \in forwards
  BY <1>4, TakenIsTrue, Zenon DEF ProbeInv
<1>5. ASSUME NEW m \in net, Test1(m) PROVE ProbeInv'
  BY <1>1, <1>2, <1>3, <1>4, <1>5, ZenonT(60) DEF ProbeInv, Test1, Begin, VerdictIsRight, MappingIsForwarded
<1>6. ASSUME NEW m \in net, Test2Same(m) PROVE ProbeInv'
  <2>1. nat \in {"open", "eim"}
    BY <1>4, <1>6, Mappings, Zenon DEF ProbeInv, Test2Same
  <2> QED
    BY <1>1, <1>3, <1>6, <2>1 DEF ProbeInv, Test2Same, Finish, VerdictIsRight, MappingIsForwarded
<1>7. ASSUME NEW m \in net, Test2Differs(m) PROVE ProbeInv'
  BY <1>1, <1>2, <1>3, <1>4, <1>7, ZenonT(60) DEF ProbeInv, Test2Differs, Begin, VerdictIsRight, MappingIsForwarded
<1>8. ASSUME NEW m \in net, Test3(m) PROVE ProbeInv'
  <2>1. verdict' = nat /\ nat \in {"adm", "apdm"}
    BY <1>4, <1>8, Mappings, Zenon DEF ProbeInv, Test3
  <2> QED
    BY <1>1, <1>3, <1>8, <2>1 DEF ProbeInv, Test3, Finish, VerdictIsRight, MappingIsForwarded
<1>9. ASSUME NEW m \in net, Mapped(m) PROVE ProbeInv'
  BY <1>1, <1>3, <1>4, <1>9, ZenonT(60) DEF ProbeInv, Mapped, Finish, VerdictIsRight, MappingIsForwarded
<1>10. CASE DetectFails \/ PcpFails \/ NatPmpFails \/ \E m \in net : External(m)
  <2>1. step' \in {"idle", "external", "map"} /\ UNCHANGED <<verdict, mapping>>
    BY <1>10, ZenonT(60) DEF DetectFails, PcpFails, NatPmpFails, External, Finish, Begin
  <2> QED
    BY <1>1, <1>3, <2>1 DEF ProbeInv, VerdictIsRight, MappingIsForwarded
<1>11. CASE Resend
  BY <1>1, <1>2, <1>3, <1>11 DEF ProbeInv, Resend, VerdictIsRight, MappingIsForwarded
<1> QED
  BY <1>5, <1>6, <1>7, <1>8, <1>9, <1>10, <1>11 DEF Transaction

\* A function that probes starts with nothing learned.
LEMMA ProbeStarts ==
    ASSUME ProbeInv, Detect \/ MapUdp \/ UNCHANGED probe
    PROVE  ProbeInv'
<1>1. UNCHANGED <<nat, forwards>>
  BY DEF Detect, MapUdp, probe
<1>2. ASSUME NEW t PROVE Reflexive(Target(t))' = Reflexive(Target(t))
  BY <1>1, SMTT(30), Z3T(30) DEF Reflexive, Target, Primary, Other
<1>3. CASE UNCHANGED probe
  BY <1>2, <1>3 DEF probe, ProbeInv, AnswersAreTrue, VerdictIsRight, MappingIsForwarded
<1>4. CASE Detect \/ MapUdp
  <2>1. AnswersAreTrue'
    BY <1>1, <1>4, RequestsAreNoAnswers, SMTT(30), Z3T(30) DEF ProbeInv, Detect, MapUdp, Begin
  <2>2. step' \in {"test1", "pcp"} /\ UNCHANGED <<verdict, mapping>>
    BY <1>4, SMTT(30), Z3T(30) DEF Detect, MapUdp, Begin
  <2> QED
    BY <1>1, <2>1, <2>2, SMTT(30), Z3T(30) DEF ProbeInv, VerdictIsRight, MappingIsForwarded
<1> QED
  BY <1>3, <1>4

\* A transaction is followed by one of the same function, or by none.
LEMMA TransactionsFollow ==
    ASSUME Transaction, attempt \in Nat, attempt <= Attempts, step \in Tests \cup Asks \cup {"idle"}
    PROVE  /\ step \in Tests => step' \in Tests \cup {"idle"}
           /\ step \in Asks => step' \in Asks \cup {"idle"}
           /\ step # "idle"
           /\ attempt' \in Nat /\ attempt' <= Attempts
<1>1. 1 \in Nat /\ 1 <= Attempts /\ 0 \in Nat /\ 0 <= Attempts
  BY ProbeAssumption
<1>2. Tests \cap Asks = {} /\ "idle" \notin Tests /\ "idle" \notin Asks
  BY DEF Tests, Asks
<1>3. CASE \E m \in net : Test1(m) \/ Test2Same(m) \/ Test2Differs(m) \/ Test3(m)
  <2>1. step \in Tests /\ step' \in Tests \cup {"idle"} /\ attempt' \in {0, 1}
    BY <1>3, Zenon DEF Test1, Test2Same, Test2Differs, Test3, Begin, Finish, Tests
  <2> QED
    BY <1>1, <1>2, <2>1
<1>4. CASE (\E m \in net : Mapped(m) \/ External(m)) \/ PcpFails \/ NatPmpFails
  <2>1. step \in Asks /\ step' \in Asks \cup {"idle"} /\ attempt' \in {0, 1}
    BY <1>4, ZenonT(60) DEF Mapped, External, PcpFails, NatPmpFails, Begin, Finish, Asks
  <2> QED
    BY <1>1, <1>2, <2>1
<1>5. CASE DetectFails
  BY <1>1, <1>2, <1>5, SMTT(30), Z3T(30) DEF DetectFails, Finish
<1>6. CASE Resend
  BY <1>2, <1>6, ProbeAssumption DEF Resend
<1> QED
  BY <1>3, <1>4, <1>5, <1>6, SMTT(30), ZenonT(60) DEF Transaction

-------------------------------------------------------------------------------
(***************************************************************************)
(* Strawcat: the peer and its pipe.                                        *)
(***************************************************************************)

\* The pipe: a half that is done had all it waited for, and the process leaves it
\* when neither half copies any more.
PipeInv ==
    /\ pipe \in [up : {"copy", "done", "failed"}, down : {"copy", "done", "failed"}, written : Nat,
                 arrived : Nat, peerFin : BOOLEAN, lost : BOOLEAN]
    /\ pipe.arrived <= pipe.written /\ pipe.written <= Chunks
    /\ pipe.up = "done" => pipe.written = Chunks
    /\ pipe.down = "done" => pipe.peerFin
    /\ main = "exit" => pipe.up # "copy" /\ pipe.down # "copy"

\* The peer: only a listener accepts, the manager runs once there is a session, and
\* one function probes at a time.
PeerInv ==
    /\ args \in [command : {"listen", "connect"}, stun : BOOLEAN]
    /\ main \in {"start", "detect", "token", "relay", "bind", "dial", "accept", "session", "best",
                 "pipe", "vpn", "exit", "failed"}
    /\ mgr \in {"none", "start", "pinned", "futile", "map", "gather", "punch", "aborted"}
    /\ remote \in {Issuer, Other_, None}
    /\ main = "accept" => args.command = "listen"
    /\ main \notin {"best", "pipe", "vpn", "exit", "failed"} => mgr = "none"
    /\ step \in Tests \cup Asks \cup {"idle"}
    /\ attempt \in Nat /\ attempt <= Attempts
    /\ step \in Tests => main = "detect"
    /\ step \in Asks => mgr \in {"map", "aborted"}

CatInv == ProbeInv /\ PipeInv /\ PeerInv

\* Every step keeps what is known about the NAT.
LEMMA CatKeepsProbeInv ==
    ASSUME ProbeInv, [CatNext]_<<probe, cat>>
    PROVE  ProbeInv'
<1>1. CASE Main
  BY <1>1, ProbeStarts, Zenon
  DEF Main, StartDetection, LoadIdentity, DecodeToken, RelayAccess, Bind, Dial, Accept, StartSession, OpenPipe,
      NoPipe, Upload, UploadDone, DownloadDone, UploadFails, DownloadFails, InPipe, PipeEnds
<1>2. CASE ManagerRuns
  BY <1>2, ProbeStarts, Zenon DEF ManagerRuns, Pinned, Skip, AskGateway, Offer
<1>3. CASE Probes
  BY <1>3, TransactionStep DEF Probes
<1>4. CASE Environment
  BY <1>4, ServersStep, ProbeStarts DEF Environment, Arrives, PeerFinishes, ConnectionLost, InPipe
<1>5. CASE UNCHANGED <<probe, cat>>
  BY <1>5, ProbeStarts
<1> QED
  BY <1>1, <1>2, <1>3, <1>4, <1>5 DEF CatNext

\* Every step keeps the invariant of the pipe.
LEMMA CatKeepsPipeInv ==
    ASSUME PipeInv, [CatNext]_<<probe, cat>>
    PROVE  PipeInv'
<1>1. ASSUME UNCHANGED pipe, main' # "exit" \/ UNCHANGED main PROVE PipeInv'
  BY <1>1, SMTT(30), Z3T(30) DEF PipeInv
<1>2. CASE StartDetection \/ LoadIdentity \/ DecodeToken \/ RelayAccess \/ Bind \/ Dial \/ Accept \/ StartSession
           \/ OpenPipe \/ NoPipe
  BY <1>1, <1>2
  DEF StartDetection, LoadIdentity, DecodeToken, RelayAccess, Bind, Dial, Accept, StartSession, OpenPipe, NoPipe,
      Proceed
<1>3. CASE Upload
  BY <1>3, CatAssumption DEF Upload, InPipe, PipeInv
<1>4. CASE UploadDone \/ DownloadDone \/ UploadFails \/ DownloadFails
  <2>1. CASE UploadDone
    BY <2>1 DEF UploadDone, InPipe, PipeInv
  <2>2. CASE DownloadDone
    BY <2>2 DEF DownloadDone, InPipe, PipeInv
  <2>3. CASE UploadFails
    BY <2>3 DEF UploadFails, InPipe, PipeInv
  <2>4. CASE DownloadFails
    BY <2>4 DEF DownloadFails, InPipe, PipeInv
  <2> QED
    BY <1>4, <2>1, <2>2, <2>3, <2>4
<1>5. CASE PipeEnds
  BY <1>5 DEF PipeEnds, Proceed, PipeInv
<1>6. CASE ManagerRuns \/ Probes
  BY <1>1, <1>6, Zenon DEF ManagerRuns, Pinned, Skip, AskGateway, Offer, Probes, cat
<1>7. CASE Environment
  <2>1. CASE Alive /\ Servers /\ UNCHANGED cat
    BY <1>1, <2>1, Zenon DEF cat
  <2>2. CASE Arrives
    BY <2>2 DEF Arrives, InPipe, PipeInv
  <2>3. CASE PeerFinishes
    BY <2>3, Zenon DEF PeerFinishes, InPipe, PipeInv
  <2>4. CASE ConnectionLost
    BY <2>4, Zenon DEF ConnectionLost, InPipe, PipeInv
  <2> QED
    BY <1>7, <2>1, <2>2, <2>3, <2>4 DEF Environment
<1>8. CASE UNCHANGED <<probe, cat>>
  BY <1>1, <1>8, Zenon DEF cat
<1> QED
  BY <1>2, <1>3, <1>4, <1>5, <1>6, <1>7, <1>8, ZenonT(60) DEF CatNext, Main

\* Every step keeps the invariant of the peer.
LEMMA CatKeepsPeerInv ==
    ASSUME PeerInv, [CatNext]_<<probe, cat>>
    PROVE  PeerInv'
<1> USE DEF PeerInv
<1>1. ASSUME UNCHANGED <<args, main, remote, mgr, step, attempt>> PROVE PeerInv'
  BY <1>1
<1>2. CASE StartDetection
  <2>1. step' \in Tests /\ attempt' = 1
    BY <1>2 DEF StartDetection, Detect, Begin, Tests
  <2>2. main = "start" /\ main' = "detect" /\ UNCHANGED <<args, remote, mgr>>
    BY <1>2 DEF StartDetection, Proceed, peer
  <2>3. step' \notin Asks
    BY <2>1, SMTT(30), Z3T(30) DEF Tests, Asks
  <2> QED
    BY <2>1, <2>2, <2>3, ProbeAssumption, SMTT(30), Z3T(30)
<1>3. CASE LoadIdentity \/ DecodeToken \/ RelayAccess \/ Bind
  <2>1. UNCHANGED <<args, remote, mgr, step, attempt>>
    BY <1>3, ZenonT(60) DEF LoadIdentity, DecodeToken, RelayAccess, Bind, peer, probe
  <2>2. /\ main \in {"start", "token", "relay", "bind"} \/ (main = "detect" /\ step = "idle")
        /\ main' \in {"relay", "token", "failed", "bind", "accept", "dial"}
        /\ main' = "accept" => args.command = "listen"
    BY <1>3 DEF LoadIdentity, DecodeToken, RelayAccess, Bind
  <2>3. "idle" \notin Tests
    BY SMTT(30), Z3T(30) DEF Tests
  <2> QED
    BY <2>1, <2>2, <2>3
<1>4. CASE Dial \/ Accept
  <2>1. UNCHANGED <<args, mgr, step, attempt>>
    BY <1>4, Zenon DEF Dial, Accept, probe
  <2>2. main \in {"dial", "accept"} /\ main' \in {"session", "failed"} /\ remote' \in {Issuer, Other_, remote}
    BY <1>4 DEF Dial, Accept, PinAccepts
  <2> QED
    BY <2>1, <2>2
<1>5. CASE StartSession
  BY <1>5, SMTT(30), Z3T(30) DEF StartSession, Proceed, Asks, probe
<1>6. CASE OpenPipe \/ NoPipe
  <2>1. UNCHANGED <<args, remote, mgr, step, attempt>>
    BY <1>6, Zenon DEF OpenPipe, NoPipe, peer, probe
  <2>2. main = "best" /\ main' \in {"pipe", "failed", "vpn"}
    BY <1>6, SMTT(30), Z3T(30) DEF OpenPipe, NoPipe, Proceed
  <2> QED
    BY <2>1, <2>2
<1>7. CASE PipeEnds
  BY <1>7 DEF PipeEnds, Proceed, probe
<1>8. CASE Upload \/ UploadDone \/ DownloadDone \/ UploadFails \/ DownloadFails \/ Environment
           \/ UNCHANGED <<probe, cat>>
  BY <1>1, <1>8, ZenonT(30)
  DEF Upload, UploadDone, DownloadDone, UploadFails, DownloadFails, Environment, Arrives, PeerFinishes, ConnectionLost, InPipe, probe, cat,
      peer, Servers, StunServer, GatewayRefuses, GatewayGrants
<1>9. CASE ManagerRuns
  <2>1. UNCHANGED <<args, main, remote>> /\ mgr # "none"
        /\ mgr' \in {"pinned", "futile", "map", "gather", "punch"}
    BY <1>9, SMTT(30), Z3T(30) DEF ManagerRuns, Pinned, Skip, AskGateway, Offer
  <2>2. CASE UNCHANGED probe /\ step \notin Asks
    BY <2>1, <2>2, SMTT(30), Z3T(30) DEF probe
  <2>3. CASE mgr' = "map" /\ MapUdp
    <3>1. step' = "pcp" /\ attempt' = 1 /\ "pcp" \in Asks /\ "pcp" \notin Tests
      BY <2>3 DEF MapUdp, Begin, Asks, Tests
    <3> QED
      BY <2>1, <2>3, <3>1, ProbeAssumption, SMTT(30), Z3T(30)
  <2>4. "idle" \notin Asks
    BY DEF Asks
  <2>5. mgr \in {"start", "gather"} => step \notin Asks
    BY SMTT(30), Z3T(30)
  <2> QED
    BY <1>9, <2>2, <2>3, <2>4, <2>5, ZenonT(60) DEF ManagerRuns, Pinned, Skip, AskGateway, Offer
<1>10. CASE Probes
  <2>1. UNCHANGED <<args, main, remote, mgr>> /\ Transaction
    BY <1>10, ZenonT(60) DEF Probes, cat, peer
  <2>2. step' \in Tests \cup Asks \cup {"idle"} /\ attempt' \in Nat /\ attempt' <= Attempts
    BY <2>1, TransactionsFollow, SMTT(30), Z3T(30)
  <2>3. (step' \in Tests => step \in Tests) /\ (step' \in Asks => step \in Asks)
    <3>1. Tests \cap Asks = {} /\ "idle" \notin Tests \cup Asks
      BY DEF Tests, Asks
    <3> QED
      BY <2>1, <3>1, TransactionsFollow
  <2> QED
    BY <2>1, <2>2, <2>3
<1> HIDE DEF PeerInv
<1> QED
  BY <1>2, <1>3, <1>4, <1>5, <1>6, <1>7, <1>8, <1>9, <1>10, ZenonT(60) DEF CatNext, Main

\* The invariant holds in every reachable state of a strawcat peer.
THEOREM CatInvariant == CatSpec => []CatInv
<1>1. CatInit => CatInv
  <2> SUFFICES ASSUME CatInit PROVE CatInv
    OBVIOUS
  <2>1. ProbeInv
    BY SMTT(30), Z3T(30) DEF CatInit, ProbeInit, ProbeInv, AnswersAreTrue, VerdictIsRight, MappingIsForwarded
  <2>2. PipeInv
    BY CatAssumption, SMTT(30), Z3T(30) DEF CatInit, PipeInv
  <2>3. PeerInv
    BY CatAssumption, ProbeAssumption DEF CatInit, ProbeInit, PeerInv, Tests, Asks
  <2> QED
    BY <2>1, <2>2, <2>3, SMTT(30), Z3T(30) DEF CatInv
<1>2. CatInv /\ [CatNext]_<<probe, cat>> => CatInv'
  BY CatKeepsProbeInv, CatKeepsPipeInv, CatKeepsPeerInv DEF CatInv
<1> QED
  BY <1>1, <1>2, PTL DEF CatSpec

\* strawcat: every variable has its type, and only one function probes at a time.
THEOREM CatTypeCorrect == CatSpec => []CatTypeOK
<1>1. CatInv => CatTypeOK
  BY DEF CatInv, PipeInv, PeerInv, CatTypeOK
<1> QED
  BY <1>1, CatInvariant, PTL

\* detect_mapping never mistakes one behaviour of a NAT for another, nor a host
\* without a NAT for one that cannot be punched, for any number of attempts, of
\* lost, late and repeated answers, and whatever the peer does next.
THEOREM NatIsJudgedRight == CatSpec => []VerdictIsRight
<1>1. CatInv => VerdictIsRight
  BY DEF CatInv, ProbeInv
<1> QED
  BY <1>1, CatInvariant, PTL

\* map_udp_via never returns a port that the gateway does not forward.
THEOREM MappedPortIsForwarded == CatSpec => []MappingIsForwarded
<1>1. CatInv => MappingIsForwarded
  BY DEF CatInv, ProbeInv
<1> QED
  BY <1>1, CatInvariant, PTL

\* When pipe_stdio ends, a half whose own copy met no error is whole: all of stdin
\* was written, or the peer has finished, whatever became of the other half, for
\* any length of stdin.
THEOREM PipeIsWhole == CatSpec => []NothingCutOff
<1>1. CatInv => NothingCutOff
  BY DEF CatInv, PipeInv, NothingCutOff
<1> QED
  BY <1>1, CatInvariant, PTL
================================================================================
