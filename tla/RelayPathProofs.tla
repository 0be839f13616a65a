---------------------------- MODULE RelayPathProofs ----------------------------
(***************************************************************************)
(* For every address plan, channel length, queue length, number of packets *)
(* and number of calls of engage: the client can always reach its peer     *)
(* over the relay, a lockdown that went through leaves the peer's context  *)
(* alone on both ends, the data plane implements RelayLockdown, so that    *)
(* what is proved there holds here, and packets keep their addresses while *)
(* the contexts that carry them change.                                    *)
(***************************************************************************)
EXTENDS RelayPath, TLAPS

-------------------------------------------------------------------------------
(***************************************************************************)
(* RelayLockdown: the contexts and the capsules.                           *)
(***************************************************************************)

\* The capsule c occurs in the sequence s.
Has(s, c) == \E i \in 1 .. Len(s) : s[i] = c

\* A CLOSE of the uncompressed context is on its way to the relay.
Closing == Has(queue, Close(Open)) \/ Has(up, Close(Open))

\* What the client's connect looks like until its context is acknowledged.
Connecting ==
    /\ active = {} /\ proposed = {Open} /\ queue = <<>> /\ pump = "run"
    /\ \/ relay = {} /\ up = <<Assign(Open)>> /\ down = <<>>
       \/ relay = {Open} /\ up = <<>> /\ down = <<Ack(Open)>>

\* What holds from then on.  Only two kinds of capsule go to the relay, and
\* only the ACK of the peer's context comes back.  The client believes in the
\* peer's context only when the relay has it.  The uncompressed context goes,
\* at either end, only under an active peer's context, and while engage waits
\* it has not begun to go.
Connected ==
    /\ \A c \in Capsule : Has(queue, c) \/ Has(up, c) => c \in {Assign(Narrow), Close(Open)}
    /\ \A c \in Capsule : Has(down, c) => c = Ack(Narrow) /\ Narrow \in relay
    /\ Narrow \in active => Narrow \in relay
    /\ Open \notin active \/ Open \notin relay \/ Closing \/ pc \in {"close", "retire"} => Narrow \in active
    /\ pc \in Waiting \cup {"expire"} => Open \in active /\ Open \in relay /\ ~Closing
    /\ Open \notin active \/ pc = "retire" => Closing \/ Open \notin relay

Inv == IF pc = "connect" THEN Connecting ELSE Connected

-------------------------------------------------------------------------------
(***************************************************************************)
(* Capsules in sequences.                                                  *)
(***************************************************************************)

\* Every capsule a party builds has the capsule type.
LEMMA CapsuleTypes ==
    ASSUME NEW id \in Contexts
    PROVE  Assign(id) \in Capsule /\ Ack(id) \in Capsule /\ Close(id) \in Capsule
BY DEF Assign, Ack, Close, Capsule

\* Sending adds one capsule at the end.
LEMMA HasAppend ==
    ASSUME NEW s \in Seq(Capsule), NEW e \in Capsule, NEW c
    PROVE  /\ Append(s, e) \in Seq(Capsule)
           /\ Len(Append(s, e)) = Len(s) + 1
           /\ Has(Append(s, e), c) <=> Has(s, c) \/ c = e
<1>1. Append(s, e) \in Seq(Capsule) /\ Len(Append(s, e)) = Len(s) + 1
  OBVIOUS
<1>2. ASSUME Has(s, c) PROVE Has(Append(s, e), c)
  <2>1. PICK i \in 1 .. Len(s) : s[i] = c
    BY <1>2 DEF Has
  <2>2. i \in 1 .. Len(Append(s, e)) /\ Append(s, e)[i] = c
    BY <2>1
  <2> QED
    BY <2>2 DEF Has
<1>3. Has(Append(s, e), e)
  <2>1. Len(s) + 1 \in 1 .. Len(Append(s, e)) /\ Append(s, e)[Len(s) + 1] = e
    OBVIOUS
  <2> QED
    BY <2>1 DEF Has
<1>4. ASSUME Has(Append(s, e), c) PROVE Has(s, c) \/ c = e
  <2>1. PICK i \in 1 .. Len(s) + 1 : Append(s, e)[i] = c
    BY <1>4, <1>1 DEF Has
  <2>2. CASE i = Len(s) + 1
    BY <2>1, <2>2
  <2>3. CASE i \in 1 .. Len(s)
    BY <2>1, <2>3 DEF Has
  <2> QED
    BY <2>2, <2>3
<1> QED
  BY <1>1, <1>2, <1>3, <1>4

\* Reading takes the first capsule away and leaves the others.
LEMMA HasTail ==
    ASSUME NEW s \in Seq(Capsule), s # <<>>, NEW c
    PROVE  /\ Tail(s) \in Seq(Capsule)
           /\ Len(Tail(s)) = Len(s) - 1
           /\ Head(s) \in Capsule
           /\ Has(s, Head(s))
           /\ Has(Tail(s), c) => Has(s, c)
           /\ Has(s, c) => c = Head(s) \/ Has(Tail(s), c)
<1>1. Tail(s) \in Seq(Capsule) /\ Len(Tail(s)) = Len(s) - 1 /\ Len(s) \in Nat \ {0}
  OBVIOUS
<1>2. Head(s) \in Capsule /\ Head(s) = s[1] /\ 1 \in 1 .. Len(s)
  BY <1>1
<1>3. Has(s, Head(s))
  BY <1>2 DEF Has
<1>4. ASSUME Has(Tail(s), c) PROVE Has(s, c)
  <2>1. PICK i \in 1 .. Len(s) - 1 : Tail(s)[i] = c
    BY <1>1, <1>4 DEF Has
  <2>2. i + 1 \in 1 .. Len(s) /\ s[i + 1] = c
    BY <1>1, <2>1
  <2> QED
    BY <2>2 DEF Has
<1>5. ASSUME Has(s, c) PROVE c = Head(s) \/ Has(Tail(s), c)
  <2>1. PICK i \in 1 .. Len(s) : s[i] = c
    BY <1>5 DEF Has
  <2>2. CASE i = 1
    BY <1>2, <2>1, <2>2
  <2>3. CASE i > 1
    <3>1. i - 1 \in 1 .. Len(Tail(s)) /\ Tail(s)[i - 1] = c
      BY <1>1, <2>1, <2>3
    <3> QED
      BY <3>1, SMTT(30), Z3T(30) DEF Has
  <2> QED
    BY <1>1, <2>1, <2>2, <2>3
<1> QED
  BY <1>1, <1>2, <1>3, <1>4, <1>5

\* Nothing is in an empty sequence, and one capsule in a sequence of one.
LEMMA HasFew ==
    ASSUME NEW c, NEW e
    PROVE  ~Has(<<>>, c) /\ (Has(<<e>>, c) => c = e)
BY DEF Has

-------------------------------------------------------------------------------
(***************************************************************************)
(* Types.                                                                  *)
(***************************************************************************)

\* A step of any task keeps the types, the queue's bound included.
LEMMA TypeStep == TypeOK /\ [Next]_vars => TypeOK'
<1> SUFFICES ASSUME TypeOK, [Next]_vars PROVE TypeOK'
  OBVIOUS
<1> USE LockdownAssumption DEF TypeOK, tables, capsules, Waiting
<1>c. Open \in Contexts /\ Narrow \in Contexts
  BY DEF Contexts, Open, Narrow
<1>a. Assign(Narrow) \in Capsule /\ Close(Open) \in Capsule
  BY <1>c, CapsuleTypes
<1>n. Call => calls' \in 0 .. MaxEngage
  BY DEF Call
<1>1. CASE RelayAssign
  <2>1. up' \in Seq(Capsule) /\ Head(up).id \in Contexts
    BY <1>1, HasTail, Zenon DEF RelayAssign, Capsule
  <2>2. down' \in Seq(Capsule) /\ \A i \in 1 .. Len(down') : down'[i].type = "ack"
    <3>1. CASE Head(up).id \in relay
      BY <1>1, <3>1, Zenon DEF RelayAssign
    <3>2. CASE Head(up).id \notin relay
      <4> DEFINE e == Ack(Head(up).id)
      <4>1. e \in Capsule /\ e.type = "ack"
        BY <2>1, CapsuleTypes DEF Ack
      <4>2. down' = Append(down, e)
        BY <1>1, <3>2 DEF RelayAssign
      <4> QED
        BY <4>1, <4>2
    <3> QED
      BY <3>1, <3>2, Zenon
  <2> QED
    BY <1>1, <2>1, <2>2, SMTT(30), Z3T(30) DEF RelayAssign
<1>2. CASE RelayClose
  BY <1>2, HasTail DEF RelayClose
<1>3. CASE ConnectAcked
  BY <1>3, HasTail DEF ConnectAcked, Promote, Capsule
<1>4. CASE PumpSend
  <2>1. queue' \in Seq(Capsule) /\ Len(queue') <= QueueCap /\ Head(queue) \in Capsule
    BY <1>4, HasTail DEF PumpSend
  <2> QED
    BY <1>4, <2>1 DEF PumpSend
<1>5. CASE PumpAck
  BY <1>5, HasTail DEF PumpAck, Promote, Capsule
<1>6. CASE PumpNotify
  BY <1>6 DEF PumpNotify
<1>7. CASE PumpEnds
  BY <1>7 DEF PumpEnds
<1>8. CASE Start
  <2>1. CASE EngageAgain
    BY <2>1, <1>n DEF EngageAgain
  <2>2. CASE EngageRefused
    BY <2>2, <1>n, Zenon DEF EngageRefused
  <2>3. CASE EngagePropose
    <3>1. queue' \in Seq(Capsule) /\ Len(queue') <= QueueCap
      <4>1. CASE CanSend
        <5>1. queue' = Append(queue, Assign(Narrow))
          BY <2>3, <4>1, Zenon DEF EngagePropose
        <5>2. queue \in Seq(Capsule) /\ Len(queue) < QueueCap
          BY <4>1 DEF CanSend
        <5>3. Append(queue, Assign(Narrow)) \in Seq(Capsule)
              /\ Len(Append(queue, Assign(Narrow))) = Len(queue) + 1
          BY <5>2, <1>a, HasAppend, Zenon
        <5> QED
          BY <5>1, <5>2, <5>3
      <4>2. CASE ~CanSend
        BY <2>3, <4>2 DEF EngagePropose
      <4> QED
        BY <4>1, <4>2
    <3>2. pc' \in {"idle", "arm"}
      BY <2>3 DEF EngagePropose, Call
    <3>3. proposed' \subseteq Contexts /\ calls' \in 0 .. MaxEngage
      BY <2>3, <1>c, <1>n DEF EngagePropose
    <3> QED
      BY <2>3, <3>1, <3>2, <3>3, Zenon DEF EngagePropose
  <2> QED
    BY <1>8, <2>1, <2>2, <2>3, SMTT(30), Z3T(30) DEF Start
<1>9. CASE Engage
  <2>1. CASE SendClose
    <3>1. queue' \in Seq(Capsule) /\ Len(queue') <= QueueCap
      <4>1. CASE CanSend
        <5>1. queue' = Append(queue, Close(Open))
          BY <2>1, <4>1 DEF SendClose
        <5>2. Len(queue) < QueueCap
          BY <4>1 DEF CanSend
        <5> QED
          BY <5>1, <5>2, <1>a, HasAppend
      <4>2. CASE ~CanSend
        BY <2>1, <4>2 DEF SendClose
      <4> QED
        BY <4>1, <4>2
    <3> QED
      BY <2>1, <3>1, SMTT(30) DEF SendClose
  <2>2. CASE Arm \/ Check \/ Wake \/ Expire \/ Retire
    BY <2>2, Zenon DEF Arm, Check, Wake, Expire, Retire
  <2> QED
    BY <1>9, <2>1, <2>2, SMTT(30), Z3T(30) DEF Engage
<1>10. CASE Timeout
  BY <1>10 DEF Timeout
<1>11. CASE UNCHANGED vars
  BY <1>11 DEF vars
<1> QED
  BY <1>1, <1>2, <1>3, <1>4, <1>5, <1>6, <1>7, <1>8, <1>9, <1>10, <1>11, SMTT(30), Z3T(30) DEF Next, Relay, Pump

\* For every queue length and number of calls, the variables keep their types:
\* in particular the pump's queue never exceeds its bound.
THEOREM TypeCorrect == Spec => []TypeOK
<1>1. Init => TypeOK
  <2>1. Open \in Contexts
    BY DEF Contexts
  <2>2. Assign(Open) \in Capsule
    BY <2>1, CapsuleTypes
  <2>3. Init => up \in Seq(Capsule) /\ queue \in Seq(Capsule) /\ down \in Seq(Capsule)
    BY <2>2 DEF Init
  <2>4. Init => Len(queue) <= QueueCap /\ calls \in 0 .. MaxEngage /\ Len(down) = 0
    BY LockdownAssumption DEF Init
  <2> QED
    <3> SUFFICES ASSUME Init PROVE TypeOK
      OBVIOUS
    <3>1. \A i \in 1 .. Len(down) : down[i].type = "ack"
      BY <2>4
    <3>2. active \subseteq Contexts /\ proposed \subseteq Contexts /\ relay \subseteq Contexts
      BY <2>1 DEF Init
    <3>3. woken \in BOOLEAN /\ engaged \in BOOLEAN /\ pump = "run" /\ pc = "connect"
      BY Zenon DEF Init
    <3> QED
      BY <2>3, <2>4, <3>1, <3>2, <3>3 DEF TypeOK
<1> QED
  BY <1>1, TypeStep, PTL DEF Spec

-------------------------------------------------------------------------------
(***************************************************************************)
(* The inductive invariant.                                                *)
(***************************************************************************)

\* The two contexts and the three kinds of capsule are told apart.
LEMMA Distinct ==
    /\ Open # Narrow /\ Open \in Contexts /\ Narrow \in Contexts
    /\ \A i, j : Assign(i) # Close(j) /\ Assign(i) # Ack(j) /\ Close(i) # Ack(j)
    /\ \A i : /\ Assign(i).type = "assign" /\ Ack(i).type = "ack" /\ Close(i).type = "close"
              /\ Assign(i).id = i /\ Ack(i).id = i /\ Close(i).id = i
<1>1. Open # Narrow /\ Open \in Contexts /\ Narrow \in Contexts
  BY DEF Contexts, Open, Narrow
<1>2. \A i : /\ Assign(i).type = "assign" /\ Ack(i).type = "ack" /\ Close(i).type = "close"
             /\ Assign(i).id = i /\ Ack(i).id = i /\ Close(i).id = i
  BY DEF Assign, Ack, Close
<1>3. \A i, j : Assign(i) # Close(j) /\ Assign(i) # Ack(j) /\ Close(i) # Ack(j)
  BY <1>2
<1> QED
  BY <1>1, <1>2, <1>3

\* While the client connects, only the relay's answer and the client's
\* reading of it are possible.
LEMMA ConnectStep ==
    ASSUME TypeOK, pc = "connect", Connecting, Next
    PROVE  Inv'
<1> USE DEF Connecting
<1>1. CASE RelayAssign
  <2>1. up = <<Assign(Open)>> /\ relay = {} /\ down = <<>>
    BY <1>1 DEF RelayAssign
  <2>2. Head(up).id = Open /\ up' = <<>>
    BY <1>1, <2>1, Distinct DEF RelayAssign
  <2>3. relay' = {Open} /\ down' = <<Ack(Open)>>
    BY <1>1, <2>1, <2>2 DEF RelayAssign
  <2> QED
    BY <1>1, <2>2, <2>3, Zenon DEF RelayAssign, Inv
<1>2. CASE ConnectAcked
  <2>1. relay = {Open} /\ up = <<>> /\ down = <<Ack(Open)>>
    BY <1>2 DEF ConnectAcked
  <2>2. Head(down).id = Open /\ down' = <<>>
    BY <1>2, <2>1, Distinct DEF ConnectAcked
  <2>3. active' = {Open}
    BY <1>2, <2>2 DEF ConnectAcked, Promote
  <2> QED
    BY <1>2, <2>1, <2>2, <2>3, HasFew, Distinct, ZenonT(60) DEF ConnectAcked, Inv, Connected, Closing, Waiting, Promote
<1>3. ~RelayClose
  BY Distinct DEF RelayClose
<1>4. ~PumpSend /\ ~PumpAck /\ ~PumpNotify /\ ~PumpEnds /\ ~Timeout
  BY DEF PumpSend, PumpAck, PumpNotify, PumpEnds, Timeout
<1>5. ~Engage /\ ~Start
  BY SMTT(30), Z3T(30) DEF Engage, Arm, Check, Wake, Expire, SendClose, Retire,
         Start, EngageAgain, EngageRefused, EngagePropose, Call
<1> QED
  BY <1>1, <1>2, <1>3, <1>4, <1>5 DEF Next, Relay, Pump

\* From then on, each step of the relay, the pump and engage keeps what
\* Connected says.
LEMMA ConnectedStep ==
    ASSUME TypeOK, pc # "connect", Connected, Next
    PROVE  pc' # "connect" /\ Connected'
<1>t. up \in Seq(Capsule) /\ queue \in Seq(Capsule) /\ down \in Seq(Capsule)
  BY DEF TypeOK
<1> USE <1>t, Distinct DEF Closing, Waiting
<1>a. Assign(Narrow) \in Capsule /\ Close(Open) \in Capsule /\ Ack(Narrow) \in Capsule
  BY CapsuleTypes
<1>d. Close(Open) # Assign(Narrow)
  BY SMTT(30), Z3T(30)
<1>1. CASE RelayAssign
  <2>1. Head(up) \in Capsule /\ Has(up, Head(up)) /\ Head(up).type = "assign"
    BY <1>1, HasTail, SMTT(30), Z3T(30) DEF RelayAssign
  <2>2. Head(up) = Assign(Narrow)
    BY <2>1 DEF Connected
  <2>3. relay' = relay \cup {Narrow}
    BY <1>1, <2>2, SMTT(30), Z3T(30) DEF RelayAssign
  <2>4. \A c \in Capsule : /\ Has(up', c) => Has(up, c)
                           /\ Has(up, c) => c = Assign(Narrow) \/ Has(up', c)
    BY <1>1, <2>2, HasTail, SMTT(30), Z3T(30) DEF RelayAssign
  <2>5. \A c \in Capsule : Has(down', c) => Has(down, c) \/ c = Ack(Narrow)
    <3>1. CASE Narrow \in relay
      BY <1>1, <2>2, <3>1 DEF RelayAssign
    <3>2. CASE Narrow \notin relay
      <4>1. down' = Append(down, Ack(Narrow))
        BY <1>1, <2>2, <3>2 DEF RelayAssign
      <4> QED
        BY <4>1, <1>a, HasAppend
    <3> QED
      BY <3>1, <3>2, SMTT(30), Z3T(30)
  <2>6. Has(up', Close(Open)) <=> Has(up, Close(Open))
    BY <2>4, <1>a, <1>d
  <2>7. UNCHANGED <<active, queue, pc>>
    BY <1>1, SMTT(30), Z3T(30) DEF RelayAssign
  <2> QED
    <3>1. Closing' <=> Closing
      BY <2>6, <2>7, SMTT(30), Z3T(30)
    <3>2. \A c \in Capsule : Has(queue', c) \/ Has(up', c) => Has(queue, c) \/ Has(up, c)
      BY <2>4, <2>7
    <3> QED
      BY <2>3, <2>5, <2>7, <3>1, <3>2, SMTT(30), ZenonT(60) DEF Connected
<1>2. CASE RelayClose
  <2>1. Head(up) \in Capsule /\ Has(up, Head(up)) /\ Head(up).type = "close"
    BY <1>2, HasTail, SMTT(30), Z3T(30) DEF RelayClose
  <2>2. Head(up) = Close(Open)
    BY <2>1 DEF Connected
  <2>3. relay' = relay \ {Open} /\ UNCHANGED <<active, queue, down, pc>>
    BY <1>2, <2>2, SMTT(30), Z3T(30) DEF RelayClose
  <2>4. \A c \in Capsule : Has(up', c) => Has(up, c)
    BY <1>2, HasTail, SMTT(30), Z3T(30) DEF RelayClose
  <2>5. Closing /\ Narrow \in active /\ pc \notin Waiting \cup {"expire"}
    BY <2>1, <2>2, SMTT(30), Z3T(30) DEF Connected
  <2> QED
    BY <2>3, <2>4, <2>5, SMTT(30), Z3T(30) DEF Connected
<1>3. CASE PumpSend
  <2>1. Head(queue) \in Capsule /\ Has(queue, Head(queue))
    BY <1>3, HasTail, SMTT(30), ZenonT(60) DEF PumpSend
  <2>2. \A c \in Capsule : Has(queue', c) \/ Has(up', c) <=> Has(queue, c) \/ Has(up, c)
    BY <1>3, <2>1, HasTail, HasAppend, SMTT(30), Z3T(30) DEF PumpSend
  <2>3. UNCHANGED <<active, relay, down, pc>>
    BY <1>3, SMTT(30), Z3T(30) DEF PumpSend, tables
  <2>4. Closing' <=> Closing
    BY <2>2, <1>a, SMTT(30), Z3T(30)
  <2> QED
    BY <2>2, <2>3, <2>4, SMTT(30), Z3T(30) DEF Connected
<1>4. CASE PumpAck
  <2>1. Head(down) \in Capsule /\ Has(down, Head(down))
    BY <1>4, HasTail, SMTT(30), Z3T(30) DEF PumpAck
  <2>2. Head(down) = Ack(Narrow) /\ Narrow \in relay
    BY <2>1 DEF Connected
  <2>3. active \subseteq active' /\ active' \subseteq active \cup {Narrow}
    BY <1>4, <2>2 DEF PumpAck, Promote
  <2>4. \A c \in Capsule : Has(down', c) => Has(down, c)
    BY <1>4, HasTail DEF PumpAck
  <2>5. UNCHANGED <<relay, queue, up, pc>>
    BY <1>4, SMTT(30), Z3T(30) DEF PumpAck
  <2> QED
    BY <2>2, <2>3, <2>4, <2>5, SMTT(30), Z3T(30) DEF Connected
<1>5. CASE PumpNotify \/ PumpEnds \/ EngageAgain \/ EngageRefused
  <2>1. UNCHANGED <<active, relay, queue, up, down, pc>>
    BY <1>5, SMTT(30), Z3T(30) DEF PumpNotify, PumpEnds, EngageAgain, EngageRefused, tables, capsules
  <2> QED
    BY <2>1, SMTT(30), Z3T(30) DEF Connected
<1>6. CASE EngagePropose
  <2>1. Open \in active /\ Narrow \notin active /\ UNCHANGED <<active, relay, up, down>>
    BY <1>6, SMTT(30), Z3T(30) DEF EngagePropose
  <2>2. Open \in relay /\ ~Closing
    BY <2>1, SMTT(30), Z3T(30) DEF Connected
  <2>3. \A c \in Capsule : Has(queue', c) => Has(queue, c) \/ c = Assign(Narrow)
    <3>1. CASE CanSend
      <4>1. queue' = Append(queue, Assign(Narrow))
        BY <1>6, <3>1, SMTT(30), Z3T(30) DEF EngagePropose
      <4> QED
        BY <4>1, <1>a, HasAppend
    <3>2. CASE ~CanSend
      BY <1>6, <3>2, SMTT(30), Z3T(30) DEF EngagePropose
    <3> QED
      BY <3>1, <3>2
  <2>4. ~Closing'
    BY <2>1, <2>2, <2>3, <1>a, SMTT(30), Z3T(30)
  <2>5. pc' \in {"idle", "arm"}
    BY <1>6, SMTT(30), Z3T(30) DEF EngagePropose, Call
  <2> QED
    BY <2>1, <2>2, <2>3, <2>4, <2>5, SMTT(30), Z3T(30) DEF Connected
<1>7. CASE Arm \/ Check \/ Wake \/ Timeout
  <2>1. UNCHANGED <<active, relay, queue, up, down>>
    BY <1>7, SMTT(30), Z3T(30) DEF Arm, Check, Wake, Timeout, tables, capsules
  <2>2. pc \in Waiting /\ pc' \in Waiting \cup {"expire", "close"} /\ (pc' = "close" => Narrow \in active)
    BY <1>7, SMTT(30), Z3T(30) DEF Arm, Check, Wake, Timeout
  <2> QED
    BY <2>1, <2>2, SMTT(30), Z3T(30) DEF Connected
<1>8. CASE Expire
  BY <1>8 DEF Expire, capsules, Connected
<1>9. CASE SendClose
  <2>1. Narrow \in active /\ pc = "close" /\ UNCHANGED <<active, relay, up, down>>
    BY <1>9, SMTT(30) DEF SendClose, tables, Connected
  <2>2. CASE CanSend
    <3>1. queue' = Append(queue, Close(Open)) /\ pc' = "retire"
      BY <1>9, <2>2, SMTT(30), Z3T(30) DEF SendClose
    <3>2. \A c \in Capsule : Has(queue', c) <=> Has(queue, c) \/ c = Close(Open)
      BY <3>1, <1>a, HasAppend, SMTT(30), Z3T(30)
    <3>3. Closing'
      BY <3>2, <1>a, SMTT(30), Z3T(30)
    <3> QED
      BY <2>1, <3>1, <3>2, <3>3, ZenonT(60) DEF Connected
  <2>3. CASE ~CanSend
    BY <1>9, <2>1, <2>3, SMTT(30), Z3T(30) DEF SendClose, Connected
  <2> QED
    BY <2>2, <2>3, SMTT(30), Z3T(30)
<1>10. CASE Retire
  <2>1. active' = active \ {Open} /\ pc = "retire" /\ pc' = "idle" /\ UNCHANGED <<relay, queue, up, down>>
    BY <1>10, SMTT(30), Z3T(30) DEF Retire, capsules
  <2> QED
    BY <2>1, ZenonT(60) DEF Connected
<1>11. CASE ConnectAcked
  BY <1>11 DEF ConnectAcked
<1> QED
  BY <1>1, <1>2, <1>3, <1>4, <1>5, <1>6, <1>7, <1>8, <1>9, <1>10, <1>11
  DEF Next, Relay, Pump, Engage, Start

\* The invariant holds in every behaviour.
LEMMA Invariant == Spec => []Inv
<1>1. Init => Inv
  BY DEF Init, Inv, Connecting
<1>2. TypeOK /\ Inv /\ [Next]_vars => Inv'
  <2> SUFFICES ASSUME TypeOK, Inv, [Next]_vars PROVE Inv'
    OBVIOUS
  <2>1. CASE Next
    BY <2>1, ConnectStep, ConnectedStep, SMTT(30), Z3T(30) DEF Inv
  <2>2. CASE UNCHANGED vars
    BY <2>2 DEF vars, tables, capsules, Inv, Connecting, Connected, Closing
  <2> QED
    BY <2>1, <2>2
<1> QED
  BY <1>1, <1>2, TypeCorrect, PTL DEF Spec

-------------------------------------------------------------------------------
(***************************************************************************)
(* The results.                                                            *)
(***************************************************************************)

\* Whatever engage, its timer and the pump do, the client always has a context
\* for its peer, and the relay has the same one.
THEOREM AlwaysCarried == Spec => []FallbackCarried
<1>1. TypeOK /\ Inv => FallbackCarried
  BY Distinct DEF Inv, Connected, FallbackCarried, Framing, Closing
<1> QED
  BY <1>1, TypeCorrect, Invariant, PTL

\* Once the client's uncompressed context is gone and the relay has read
\* everything, the peer's context is the only one left at both ends.
THEOREM LockdownHolds == Spec => []LockedDown
<1>1. TypeOK /\ Inv => LockedDown
  <2> SUFFICES ASSUME TypeOK, Inv, Open \notin active, pc = "idle", queue = <<>>, up = <<>>
               PROVE  active = {Narrow} /\ relay = {Narrow}
    BY DEF LockedDown
  <2>1. ~Closing
    BY HasFew, Zenon DEF Closing
  <2>2. Narrow \in active /\ Narrow \in relay /\ Open \notin relay
    BY <2>1 DEF Inv, Connected
  <2> QED
    BY <2>2 DEF TypeOK, Contexts
<1> QED
  BY <1>1, TypeCorrect, Invariant, PTL

-------------------------------------------------------------------------------
(***************************************************************************)
(* RelayPath: the datagrams.                                               *)
(***************************************************************************)

all == <<vars, bindings, data>>

\* An address is the peer's, which is known.
OfPeer(b) == remotes # {} /\ b = PeerOf(remotes)

\* The capsules q that propose the peer's context bind it to the peer.
Carry(q, to) ==
    /\ to \in Seq(Address \cup {None}) /\ Len(to) = Len(q)
    /\ \A i \in 1 .. Len(q) : q[i] = Assign(Narrow) => OfPeer(to[i])

\* So does each of the tables that have it.
Bindings ==
    /\ bound \in [{"client", "relay"} -> Address \cup {None}]
    /\ Carry(queue, queueTo) /\ Carry(up, upTo)
    /\ Narrow \in active \cup proposed => OfPeer(bound["client"])
    /\ Narrow \in relay => OfPeer(bound["relay"])

\* A datagram in the peer's context is the peer's, any other one spells its
\* address out.
Label(d) ==
    /\ d.id \in Contexts
    /\ d.id = Narrow => OfPeer(d.real) /\ d.addr = None
    /\ d.id = Open => d.addr = d.real
    /\ d = [id |-> d.id, addr |-> d.addr, real |-> d.real]
Labelled == \A d \in upDg \cup downDg : d.real \in Address /\ Label(d)

\* The remote is an address, which the relay-only socket has from the start, and
\* what the pump handed over is as it was sent.
Handed ==
    /\ remotes \subseteq Address
    /\ role = "relay_only" => remotes # {}
    /\ channel \in Seq([addr : Address, real : Address])
    /\ Len(channel) <= ChannelCap
    /\ \A i \in 1 .. Len(channel) : channel[i].addr = channel[i].real
    /\ last # None => last.addr = last.real

\* The socket reports its end once the pump is gone and the channel empty.
Ended ==
    /\ socket \in {"open", "broken"}
    /\ socket = "broken" => pump = "gone" /\ channel = <<>>

PathInv == Bindings /\ Labelled /\ Handed /\ Ended /\ EgressPermitted /\ UplinkIsKnown

-------------------------------------------------------------------------------
(***************************************************************************)
(* The data plane implements RelayLockdown.                                *)
(***************************************************************************)

\* A step of the data plane leaves contexts and capsules alone.
LEMMA DataStutters == Data => UNCHANGED vars
BY Zenon DEF Data, TransmitRelayed, TransmitDirect, RelayDrops, RelayEgress, RelayIngress, DatagramLost,
       PumpDatagram, PollRecv, PollBroken

\* Every step is one of RelayLockdown or a stutter there.
LEMMA PathStep == [PathNext]_all => [Next]_vars
<1>1. Control => Next
  BY Zenon DEF Control, Propose, CloseQueued, CapsuleSent, CapsuleHandled, Next, Pump, Engage, Start
<1> QED
  BY <1>1, DataStutters, Zenon DEF PathNext, all

\* The data plane leaves the contexts as RelayLockdown specifies them: engage
\* with no peer learned changes nothing, and no packet touches a table.
THEOREM ImplementsLockdown == PathSpec => ContextsAsSpecified
<1>1. PathInit => Init
  BY DEF PathInit
<1> QED
  BY <1>1, PathStep, PTL DEF PathSpec, Spec, ContextsAsSpecified, all

\* So the invariants of RelayLockdown hold for the data plane as well.
THEOREM LockdownInherited == PathSpec => [](TypeOK /\ Inv /\ FallbackCarried /\ LockedDown)
BY ImplementsLockdown, TypeCorrect, Invariant, AlwaysCarried, LockdownHolds, PTL DEF ContextsAsSpecified

-------------------------------------------------------------------------------
(***************************************************************************)
(* Datagrams.                                                              *)
(***************************************************************************)

\* The datagram of a packet to or from a, framed with a table.
Framed(table, b, a) == {EncodeDatagram(id, a) : id \in ContextFor(table, b, a)}

\* A datagram that either end frames says where it goes or comes from.
LEMMA FramedIsLabelled ==
    ASSUME NEW table, table \subseteq Contexts, NEW b, Narrow \in table => OfPeer(b), NEW a \in Address, NEW d \in Framed(table, b, a)
    PROVE  d.id \in table /\ d.real = a /\ Label(d)
<1>1. PICK id \in ContextFor(table, b, a) : d = EncodeDatagram(id, a)
  BY DEF Framed
<1>2. id \in table /\ id \in Contexts /\ (id = Narrow => a = b)
  BY <1>1, Distinct DEF ContextFor
<1>3. id = Narrow => OfPeer(a)
  BY <1>2, Zenon
<1> QED
  BY <1>1, <1>2, <1>3, Distinct DEF EncodeDatagram, Label

\* Decoding gives the address back, at an end whose table binds the context to the peer.
LEMMA DecodedIsReal ==
    ASSUME Labelled, NEW d \in upDg \cup downDg, NEW b, d.id = Narrow => OfPeer(b)
    PROVE  DecodedAddress(d, b) = d.real /\ d.real \in Address
BY Distinct DEF Labelled, Label, DecodedAddress, Contexts, OfPeer

\* A capsule is queued or written after the others.
LEMMA CarryAppend ==
    ASSUME NEW q \in Seq(Capsule), NEW to, Carry(q, to), NEW c \in Capsule, NEW b \in Address \cup {None},
           c = Assign(Narrow) => OfPeer(b)
    PROVE  Carry(Append(q, c), Append(to, b))
<1>1. to \in Seq(Address \cup {None}) /\ Len(to) = Len(q)
  BY DEF Carry
<1>2. Append(to, b) \in Seq(Address \cup {None}) /\ Len(Append(to, b)) = Len(Append(q, c))
  BY <1>1
<1>3. ASSUME NEW i \in 1 .. Len(Append(q, c)), Append(q, c)[i] = Assign(Narrow)
      PROVE  OfPeer(Append(to, b)[i])
  <2>1. CASE i = Len(q) + 1
    <3>1. Append(q, c)[i] = c /\ Append(to, b)[i] = b
      BY <1>1, <2>1
    <3> QED
      BY <1>3, <3>1, Zenon
  <2>2. CASE i \in 1 .. Len(q)
    <3>1. Append(q, c)[i] = q[i] /\ Append(to, b)[i] = to[i]
      BY <1>1, <2>2
    <3> QED
      BY <1>3, <2>2, <3>1, Zenon DEF Carry
  <2>3. i = Len(q) + 1 \/ i \in 1 .. Len(q)
    OBVIOUS
  <2> QED
    BY <2>1, <2>2, <2>3, Zenon
<1> QED
  BY <1>2, <1>3, Zenon DEF Carry

\* The first capsule is taken.
LEMMA CarryTail ==
    ASSUME NEW q \in Seq(Capsule), q # <<>>, NEW to, Carry(q, to)
    PROVE  /\ Carry(Tail(q), Tail(to))
           /\ Head(to) \in Address \cup {None} /\ (Head(q) = Assign(Narrow) => OfPeer(Head(to)))
<1>1. to \in Seq(Address \cup {None}) /\ Len(to) = Len(q) /\ Len(q) \in Nat \ {0}
  BY DEF Carry
<1>2. /\ Tail(to) \in Seq(Address \cup {None}) /\ Len(Tail(to)) = Len(Tail(q)) /\ Head(to) \in Address \cup {None}
      /\ Head(q) = q[1] /\ Head(to) = to[1] /\ 1 \in 1 .. Len(q)
      /\ \A i \in 1 .. Len(Tail(q)) : i + 1 \in 1 .. Len(q) /\ Tail(q)[i] = q[i + 1] /\ Tail(to)[i] = to[i + 1]
  BY <1>1
<1> QED
  BY <1>2, Zenon DEF Carry

-------------------------------------------------------------------------------
(***************************************************************************)
(* The inductive invariant.                                                *)
(***************************************************************************)

\* Nothing has been sent yet.
LEMMA PathInvInit == PathInit => PathInv
<1> SUFFICES ASSUME PathInit PROVE PathInv
  OBVIOUS
<1> USE DEF PathInit, DataInit
<1>1. Labelled /\ Ended /\ EgressPermitted /\ UplinkIsKnown
  BY DEF Init, Labelled, Ended, EgressPermitted, UplinkIsKnown
<1>2. remotes \subseteq Address /\ (role = "relay_only" => remotes # {})
  BY DEF Preset, Address
<1>3. channel \in Seq([addr : Address, real : Address]) /\ Len(channel) = 0 /\ last = None
  OBVIOUS
<1>4. Handed
  BY <1>2, <1>3, ChannelAssumption DEF Handed
<1>5. queue = <<>> /\ up = <<Assign(Open)>> /\ active = {} /\ proposed = {Open} /\ relay = {}
  BY DEF Init
<1>6. Carry(queue, queueTo) /\ Carry(up, upTo)
  BY <1>5, Distinct DEF Carry
<1>7. Bindings
  BY <1>5, <1>6, Distinct DEF Bindings
<1> QED
  BY <1>1, <1>4, <1>7 DEF PathInv

\* Every step of the contexts keeps what they bind: engage binds the peer, and the
\* relay what the ASSIGN says.
LEMMA BindingsStep ==
    ASSUME TypeOK, Bindings, Handed, Control
    PROVE  Bindings'
<1> DEFINE S == Address \cup {None}
<1>1. UNCHANGED remotes
  BY Zenon DEF Control, data
<1>2. /\ queue \in Seq(Capsule) /\ up \in Seq(Capsule)
      /\ bound \in [{"client", "relay"} -> S] /\ Carry(queue, queueTo) /\ Carry(up, upTo)
      /\ Narrow \in active \cup proposed => OfPeer(bound["client"])
      /\ Narrow \in relay => OfPeer(bound["relay"])
  BY Zenon DEF TypeOK, Bindings
<1>3. /\ \A q, to : Carry(q, to)' <=> Carry(q, to)
      /\ \A x : OfPeer(x)' <=> OfPeer(x)
  BY <1>1 DEF Carry, OfPeer
<1>4. SUFFICES /\ bound' \in [{"client", "relay"} -> S] /\ Carry(queue', queueTo') /\ Carry(up', upTo')
               /\ Narrow \in active' \cup proposed' => OfPeer(bound'["client"])
               /\ Narrow \in relay' => OfPeer(bound'["relay"])
  BY <1>1, <1>3, Zenon DEF Bindings, Carry, OfPeer
<1>5. CASE Propose
  <2>1. /\ remotes # {} /\ bound' = [bound EXCEPT !["client"] = PeerOf(remotes)]
        /\ queueTo' = (IF CanSend THEN Append(queueTo, PeerOf(remotes)) ELSE queueTo)
        /\ queue' = (IF CanSend THEN Append(queue, Assign(Narrow)) ELSE queue)
        /\ UNCHANGED <<up, upTo, relay>>
    BY <1>5, Zenon DEF Propose, EngagePropose
  <2>2. OfPeer(PeerOf(remotes)) /\ PeerOf(remotes) \in S
    BY <2>1 DEF OfPeer, PeerOf, Handed
  <2>3. bound' \in [{"client", "relay"} -> S] /\ bound'["client"] = PeerOf(remotes) /\ bound'["relay"] = bound["relay"]
    BY <1>2, <2>1, <2>2
  <2>4. Carry(queue', queueTo')
    <3>1. Assign(Narrow) \in Capsule
      BY CapsuleTypes, Distinct
    <3> QED
      BY <1>2, <2>1, <2>2, <3>1, CarryAppend, Zenon
  <2> QED
    BY <1>2, <2>1, <2>2, <2>3, <2>4, Zenon
<1>6. CASE CloseQueued
  <2>1. /\ queueTo' = (IF CanSend THEN Append(queueTo, None) ELSE queueTo)
        /\ queue' = (IF CanSend THEN Append(queue, Close(Open)) ELSE queue)
        /\ UNCHANGED <<up, upTo, active, proposed, relay, bound>>
    BY <1>6, Zenon DEF CloseQueued, SendClose, tables
  <2>2. Carry(queue', queueTo')
    <3>1. None \in S /\ Close(Open) \in Capsule /\ Close(Open) # Assign(Narrow)
      BY CapsuleTypes, Distinct
    <3> QED
      BY <1>2, <2>1, <3>1, CarryAppend, Zenon
  <2> QED
    BY <1>2, <2>1, <2>2, Zenon
<1>7. CASE CapsuleSent
  <2>1. /\ queue # <<>> /\ queue' = Tail(queue) /\ queueTo' = Tail(queueTo)
        /\ up' = Append(up, Head(queue)) /\ upTo' = Append(upTo, Head(queueTo))
        /\ UNCHANGED <<active, proposed, relay, bound>>
    BY <1>7, Zenon DEF CapsuleSent, PumpSend, tables
  <2>2. Carry(queue', queueTo') /\ Head(queueTo) \in S /\ (Head(queue) = Assign(Narrow) => OfPeer(Head(queueTo)))
    BY <1>2, <2>1, CarryTail, Zenon
  <2>3. Head(queue) \in Capsule
    BY <1>2, <2>1
  <2>4. Carry(up', upTo')
    BY <1>2, <2>1, <2>2, <2>3, CarryAppend, Zenon
  <2> QED
    BY <1>2, <2>1, <2>2, <2>4, Zenon
<1>8. CASE CapsuleHandled
  <2>1. /\ up # <<>> /\ up' = Tail(up) /\ upTo' = Tail(upTo) /\ UNCHANGED <<active, proposed, queue, queueTo>>
        /\ \/ Head(up).type = "assign" /\ relay' = relay \cup {Head(up).id}
           \/ relay' = relay \ {Head(up).id}
        /\ bound' = IF Head(up) = Assign(Narrow) /\ Narrow \notin relay
                    THEN [bound EXCEPT !["relay"] = Head(upTo)] ELSE bound
    BY <1>8, Zenon DEF CapsuleHandled, Relay, RelayAssign, RelayClose
  <2>2. Carry(up', upTo') /\ Head(upTo) \in S /\ (Head(up) = Assign(Narrow) => OfPeer(Head(upTo)))
    BY <1>2, <2>1, CarryTail, Zenon
  <2>3. Head(up) \in Capsule
    BY <1>2, <2>1
  <2>4. Narrow \in relay' /\ Narrow \notin relay => Head(up) = Assign(Narrow)
    BY <2>1, <2>3 DEF Capsule, Assign
  <2>5. CASE Head(up) = Assign(Narrow) /\ Narrow \notin relay
    <3>1. bound' \in [{"client", "relay"} -> S] /\ bound'["client"] = bound["client"] /\ bound'["relay"] = Head(upTo)
      BY <1>2, <2>1, <2>2, <2>5
    <3> QED
      BY <1>2, <2>1, <2>2, <2>5, <3>1, Zenon
  <2>6. CASE ~(Head(up) = Assign(Narrow) /\ Narrow \notin relay)
    <3>1. bound' = bound /\ (Narrow \in relay' => Narrow \in relay)
      BY <2>1, <2>4, <2>6
    <3> QED
      BY <1>2, <2>1, <2>2, <3>1, Zenon
  <2> QED
    BY <2>5, <2>6
<1>9. CASE /\ \/ ConnectAcked \/ PumpAck \/ PumpNotify \/ PumpEnds
              \/ Arm \/ Check \/ Wake \/ Timeout \/ Expire \/ Retire
              \/ remotes # {} /\ (EngageAgain \/ EngageRefused)
           /\ UNCHANGED bindings
  <2>1. UNCHANGED <<relay, queue, up, bound, queueTo, upTo>>
    BY <1>9, Zenon DEF ConnectAcked, PumpAck, PumpNotify, PumpEnds, Arm, Check, Wake, Timeout, Expire, Retire, EngageAgain,
         EngageRefused, bindings, tables, capsules
  <2>2. Narrow \in active' \cup proposed' => Narrow \in active \cup proposed
    <3>1. CASE ConnectAcked \/ PumpAck
      BY <3>1 DEF ConnectAcked, PumpAck, Promote
    <3>2. CASE Expire \/ Retire
      BY <3>2 DEF Expire, Retire
    <3>3. CASE PumpNotify \/ PumpEnds \/ Arm \/ Check \/ Wake \/ Timeout \/ EngageAgain \/ EngageRefused
      BY <3>3, Zenon DEF PumpNotify, PumpEnds, Arm, Check, Wake, Timeout, EngageAgain, EngageRefused, tables
    <3> QED
      BY <1>9, <3>1, <3>2, <3>3, Zenon
  <2> QED
    BY <1>2, <2>1, <2>2, Zenon
<1> QED
  BY <1>5, <1>6, <1>7, <1>8, <1>9, Zenon DEF Control

\* A step that leaves the contexts and the remote alone leaves the bindings alone.
LEMMA BindingsKept ==
    ASSUME Bindings, UNCHANGED <<vars, bindings, remotes>>
    PROVE  Bindings'
<1>1. UNCHANGED <<queue, up, active, proposed, relay, bound, queueTo, upTo, remotes>>
  BY Zenon DEF vars, tables, capsules, bindings
<1> QED
  BY <1>1, Zenon DEF Bindings, Carry, OfPeer

\* The relay never drops the peer's context: it is never asked to.
LEMMA NarrowStays ==
    ASSUME TypeOK, Inv, Next, Narrow \in relay
    PROVE  Narrow \in relay'
<1>1. CASE RelayClose
  <2>1. up \in Seq(Capsule) /\ up # <<>> /\ Head(up).type = "close" /\ relay' = relay \ {Head(up).id}
    BY <1>1 DEF RelayClose, TypeOK
  <2>2. Head(up) \in Capsule /\ Has(up, Head(up))
    BY <2>1, HasTail
  <2>3. Connected
    BY Distinct DEF Inv, Connecting
  <2>4. Head(up) = Assign(Narrow) \/ Head(up) = Close(Open)
    BY <2>2, <2>3, SMTT(30) DEF Connected
  <2> QED
    BY <2>1, <2>4, Distinct
<1>2. CASE ~RelayClose
  BY <1>2, ZenonT(30) DEF Next, Relay, RelayAssign, ConnectAcked, Pump, PumpSend, PumpAck, PumpNotify, PumpEnds, Engage,
       Arm, Check, Wake, Expire, SendClose, Retire, Start, EngageAgain, EngageRefused, EngagePropose, Timeout, tables
<1> QED
  BY <1>1, <1>2, SMTT(30), Z3T(30)

\* A pump that is gone stays gone.
LEMMA GoneStays == Next /\ pump = "gone" => pump' = "gone"
BY Zenon DEF Next, Relay, RelayAssign, RelayClose, ConnectAcked, Pump, PumpSend, PumpAck, PumpNotify, PumpEnds, Engage,
       Arm, Check, Wake, Expire, SendClose, Retire, Start, EngageAgain, EngageRefused, EngagePropose, Timeout

\* The contexts change while packets are under way.
LEMMA ControlStep ==
    ASSUME TypeOK, Inv, PathInv, Control
    PROVE  PathInv'
<1>1. Next /\ UNCHANGED data
  BY Zenon DEF Control, Propose, CloseQueued, CapsuleSent, CapsuleHandled, Next, Pump, Engage, Start
<1>2. Bindings'
  BY BindingsStep, Zenon DEF PathInv
<1>3. Labelled' /\ Handed' /\ EgressPermitted'
  BY <1>1, Zenon DEF data, PathInv, Labelled, Label, Handed, EgressPermitted, OfPeer
<1>4. Ended'
  BY <1>1, GoneStays DEF data, PathInv, Ended
<1>5. UplinkIsKnown'
  BY <1>1, NarrowStays DEF data, PathInv, UplinkIsKnown
<1> QED
  BY <1>2, <1>3, <1>4, <1>5, Zenon DEF PathInv

\* A packet is framed, at the client or at the relay.
LEMMA FramingStep ==
    ASSUME TypeOK, Inv, PathInv, NEW a \in Address, TransmitRelayed(a) \/ RelayIngress(a)
    PROVE  PathInv'
<1>1. UNCHANGED <<vars, bindings, role, remotes, channel, last, socket>>
  BY Zenon DEF TransmitRelayed, RelayIngress
<1>2. Handed' /\ Ended' /\ EgressPermitted'
  BY <1>1, SMTT(30), ZenonT(60) DEF vars, PathInv, Handed, Ended, EgressPermitted
<1>3. Bindings'
  BY <1>1, BindingsKept, Zenon DEF PathInv
<1>4. ASSUME NEW d \in (upDg \cup downDg)', d \notin upDg \cup downDg
      PROVE  d \in Framed(active, bound["client"], a) \/ d \in Framed(relay, bound["relay"], a)
  BY <1>4, Zenon DEF TransmitRelayed, RelayIngress, FrameBind, Framed
<1>5. /\ active \subseteq Contexts /\ (Narrow \in active => OfPeer(bound["client"]))
      /\ relay \subseteq Contexts /\ (Narrow \in relay => OfPeer(bound["relay"]))
  BY DEF TypeOK, PathInv, Bindings
<1>6. ASSUME NEW d \in (upDg \cup downDg)', d \notin upDg \cup downDg
      PROVE  d.real = a /\ Label(d)
  <2>1. CASE d \in Framed(active, bound["client"], a)
    BY <1>5, <2>1, FramedIsLabelled, Zenon
  <2>2. CASE d \in Framed(relay, bound["relay"], a)
    BY <1>5, <2>2, FramedIsLabelled, Zenon
  <2> QED
    BY <1>4, <1>6, <2>1, <2>2, Zenon
<1>7. Labelled'
  <2> SUFFICES ASSUME NEW d \in (upDg \cup downDg)'
               PROVE  d.real \in Address /\ Label(d)
    BY <1>1, Zenon DEF Labelled, Label, OfPeer
  <2>1. CASE d \in upDg \cup downDg
    BY <2>1, Zenon DEF PathInv, Labelled
  <2>2. CASE d \notin upDg \cup downDg
    BY <1>6, <2>2, Zenon
  <2> QED
    BY <2>1, <2>2, Zenon
<1>8. UplinkIsKnown'
  <2> SUFFICES ASSUME NEW d \in upDg', d \notin upDg, d.id = Narrow PROVE Narrow \in relay
    BY <1>1, Zenon DEF PathInv, UplinkIsKnown, vars, tables
  <2>1. TransmitRelayed(a) /\ pc # "connect"
    BY Zenon DEF TransmitRelayed, RelayIngress
  <2>2. d \in Framed(active, bound["client"], a)
    BY <2>1, Zenon DEF TransmitRelayed, FrameBind, Framed
  <2>3. Narrow \in active
    <3>1. d.id \in active
      BY <1>5, <2>2, FramedIsLabelled, Zenon
    <3> QED
      BY <3>1
  <2> QED
    BY <2>1, <2>3, Zenon DEF Inv, Connected
<1> QED
  BY <1>2, <1>3, <1>7, <1>8, Zenon DEF PathInv

\* What holds of the datagrams under way holds of fewer.
LEMMA FewerDatagrams ==
    ASSUME PathInv, UNCHANGED <<vars, bindings, remotes, socket>>, upDg' \subseteq upDg, downDg' \subseteq downDg
    PROVE  /\ Bindings' /\ Labelled' /\ UplinkIsKnown'
           /\ UNCHANGED channel => Ended'
<1>1. Bindings'
  BY BindingsKept, Zenon DEF PathInv
<1>2. Labelled'
  BY Zenon DEF PathInv, Labelled, Label, OfPeer
<1>3. UplinkIsKnown'
  BY Zenon DEF PathInv, UplinkIsKnown, vars, tables
<1>4. UNCHANGED channel => Ended'
  BY Zenon DEF PathInv, Ended, vars
<1> QED
  BY <1>1, <1>2, <1>3, <1>4

\* A packet leaves: directly, or at the relay, if the policy lets it.
LEMMA EgressStep ==
    ASSUME Inv, PathInv,
           \/ \E a \in Address : TransmitDirect(a)
           \/ \E d \in upDg : RelayEgress(d)
    PROVE  PathInv'
<1>1. UNCHANGED <<vars, bindings, role, remotes, channel, socket, downDg>> /\ upDg' \subseteq upDg
  BY SMTT(30), Z3T(30) DEF TransmitDirect, RelayEgress
<1>2. Bindings' /\ Labelled' /\ Ended' /\ UplinkIsKnown'
  BY <1>1, FewerDatagrams, Zenon DEF PathInv
<1>3. \/ \E a \in Address : last' = Packet("direct", a, a)
      \/ \E d \in upDg : Allows(d.real) /\ last' = Packet("egress", d.real, d.real)
  <2>1. ASSUME NEW d \in upDg, RelayEgress(d) PROVE DecodedAddress(d, bound["relay"]) = d.real
    <3>1. d.id = Narrow => OfPeer(bound["relay"])
      BY <2>1, Zenon DEF RelayEgress, PathInv, Bindings
    <3> QED
      BY <3>1, DecodedIsReal, Zenon DEF PathInv
  <2> QED
    BY <2>1, Zenon DEF TransmitDirect, RelayEgress
<1>4. Handed'
  BY <1>1, <1>3, SMTT(30), Z3T(30) DEF PathInv, Handed, Packet
<1>5. EgressPermitted'
  BY <1>3 DEF EgressPermitted, Packet, Allows
<1> QED
  BY <1>2, <1>4, <1>5 DEF PathInv

\* A datagram is lost or dropped.
LEMMA LossStep ==
    ASSUME Inv, PathInv,
           \/ \E d \in upDg : RelayDrops(d)
           \/ \E d \in downDg : DatagramLost(d)
    PROVE  PathInv'
<1>1. UNCHANGED <<vars, bindings, role, remotes, channel, socket, last>> /\ upDg' \subseteq upDg /\ downDg' \subseteq downDg
  BY SMTT(30), Z3T(30) DEF RelayDrops, DatagramLost
<1>2. Bindings' /\ Labelled' /\ Ended' /\ UplinkIsKnown'
  BY <1>1, FewerDatagrams, Zenon DEF PathInv
<1>3. Handed' /\ EgressPermitted'
  BY <1>1 DEF PathInv, Handed, EgressPermitted
<1> QED
  BY <1>2, <1>3 DEF PathInv

\* The pump hands a packet to the socket, or finds the channel full.
LEMMA PumpStep ==
    ASSUME Inv, PathInv, NEW d \in downDg, PumpDatagram(d)
    PROVE  PathInv'
<1> DEFINE p == [addr |-> DecodedAddress(d, bound["client"]), real |-> d.real]
<1> DEFINE Packets == [addr : Address, real : Address]
<1>1. UNCHANGED <<vars, bindings, role, remotes, upDg, last, socket>> /\ downDg' \subseteq downDg /\ pump = "run"
  BY SMTT(30), Z3T(30) DEF PumpDatagram
<1>2. Bindings' /\ Labelled' /\ UplinkIsKnown'
  BY <1>1, FewerDatagrams, Zenon DEF PathInv
<1>3. p \in Packets /\ p.addr = p.real
  <2>1. d.id = Narrow => OfPeer(bound["client"])
    BY Zenon DEF PumpDatagram, PathInv, Bindings
  <2>2. DecodedAddress(d, bound["client"]) = d.real /\ d.real \in Address
    BY <2>1, DecodedIsReal, Zenon DEF PathInv
  <2> QED
    BY <2>2
<1>4. ASSUME Len(channel) < ChannelCap PROVE Handed'
  <2>1. channel' = Append(channel, p)
    BY <1>4 DEF PumpDatagram
  <2>2. channel \in Seq(Packets) /\ Len(channel) \in Nat
    BY DEF PathInv, Handed
  <2> HIDE DEF p, Packets
  <2>3. channel' \in Seq(Packets) /\ Len(channel') = Len(channel) + 1
    BY <1>3, <2>1, <2>2
  <2>4. ASSUME NEW i \in 1 .. Len(channel') PROVE channel'[i].addr = channel'[i].real
    <3>1. CASE i = Len(channel) + 1
      BY <1>3, <2>1, <2>2, <3>1, SMTT(30), Z3T(30)
    <3>2. CASE i \in 1 .. Len(channel)
      <4>1. channel'[i] = channel[i]
        BY <2>1, <2>2, <3>2, SMTT(30), Z3T(30)
      <4> QED
        BY <3>2, <4>1 DEF PathInv, Handed
    <3> QED
      BY <2>2, <2>3, <3>1, <3>2
  <2> QED
    BY <1>1, <1>4, <2>2, <2>3, <2>4, ChannelAssumption DEF PathInv, Handed, Packets
<1>5. ASSUME ~(Len(channel) < ChannelCap) PROVE Handed'
  BY <1>1, <1>5 DEF PumpDatagram, PathInv, Handed
<1>6. Ended' /\ EgressPermitted'
  BY <1>1 DEF PathInv, Ended, EgressPermitted
<1> QED
  BY <1>2, <1>4, <1>5, <1>6, SMTT(30), Z3T(30) DEF PathInv

\* Inner QUIC is given a packet, whose source may be the first one learned: nothing
\* was then bound to a peer.
LEMMA PollStep ==
    ASSUME Inv, PathInv, PollRecv
    PROVE  PathInv'
<1> DEFINE Packets == [addr : Address, real : Address]
<1>1. UNCHANGED <<vars, bindings, role, upDg, downDg, socket>> /\ channel # <<>> /\ channel' = Tail(channel)
      /\ last' = Packet("inner", Head(channel).addr, Head(channel).real)
      /\ remotes' = Learn(Head(channel).addr)
  BY ZenonT(60) DEF PollRecv
<1>2. channel \in Seq(Packets) /\ \A i \in 1 .. Len(channel) : channel[i].addr = channel[i].real
  BY SMTT(30), Z3T(30) DEF PathInv, Handed
<1> HIDE DEF Packets
<1>3. /\ Head(channel) = channel[1] /\ Head(channel) \in Packets /\ Len(channel) \in Nat \ {0}
      /\ Tail(channel) \in Seq(Packets) /\ Len(Tail(channel)) = Len(channel) - 1
      /\ \A i \in 1 .. Len(Tail(channel)) : Tail(channel)[i] = channel[i + 1]
  BY <1>1, <1>2
<1>4. Head(channel).addr = Head(channel).real /\ Head(channel).addr \in Address
  BY <1>2, <1>3 DEF Packets
<1>5. remotes' # {} /\ (remotes # {} => remotes' = remotes) /\ remotes' \subseteq Address
  <2>1. role = "relay_only" => remotes # {}
    BY DEF PathInv, Handed
  <2> QED
    BY <1>1, <1>4, <2>1, Zenon DEF Learn, PathInv, Handed
<1>6. Bindings' /\ Labelled'
  <2>1. \A x : OfPeer(x) => OfPeer(x)'
    BY <1>5, Zenon DEF OfPeer
  <2>2. UNCHANGED <<queue, up, active, proposed, relay, bound, queueTo, upTo>>
    BY <1>1, Zenon DEF vars, tables, capsules, bindings
  <2>3. Bindings'
    BY <2>1, <2>2, Zenon DEF PathInv, Bindings, Carry
  <2>4. Labelled'
    BY <1>1, <2>1, Zenon DEF PathInv, Labelled, Label
  <2> QED
    BY <2>3, <2>4
<1>7. UplinkIsKnown'
  BY <1>1, Zenon DEF vars, tables, PathInv, UplinkIsKnown
<1>8. \A i \in 1 .. Len(channel') : channel'[i].addr = channel'[i].real
  BY <1>1, <1>2, <1>3
<1>9. Handed'
  <2>1. channel' \in Seq(Packets) /\ Len(channel') <= ChannelCap
    BY <1>1, <1>3, ChannelAssumption, SMTT(30), Z3T(30) DEF PathInv, Handed
  <2>2. last'.addr = last'.real
    BY <1>1, <1>4, SMTT(30), Z3T(30) DEF Packet
  <2> QED
    BY <1>5, <1>8, <2>1, <2>2, SMTT(30), Z3T(30) DEF Handed, Packets
<1>10. Ended' /\ EgressPermitted'
  BY <1>1 DEF PathInv, Ended, EgressPermitted, Packet
<1> QED
  BY <1>6, <1>7, <1>9, <1>10, SMTT(30) DEF PathInv

\* Every step keeps the invariant.
LEMMA PathInvStep == TypeOK /\ Inv /\ PathInv /\ [PathNext]_all => PathInv'
<1> SUFFICES ASSUME TypeOK, Inv, PathInv, [PathNext]_all PROVE PathInv'
  OBVIOUS
<1>1. CASE Control
  BY <1>1, ControlStep, SMTT(30), Z3T(30)
<1>2. CASE PollBroken
  <2>1. UNCHANGED <<vars, bindings, role, remotes, upDg, downDg, channel, last>>
        /\ pump = "gone" /\ channel = <<>> /\ socket' = "broken"
    BY <1>2, Zenon DEF PollBroken
  <2>2. Bindings'
    BY <2>1, BindingsKept, Zenon DEF PathInv
  <2>3. Labelled' /\ Handed' /\ EgressPermitted' /\ UplinkIsKnown' /\ Ended'
    BY <2>1, Zenon DEF vars, tables, PathInv, Labelled, Label, Handed, Ended, EgressPermitted, UplinkIsKnown, OfPeer
  <2> QED
    BY <2>2, <2>3 DEF PathInv
<1>3. CASE Data /\ ~PollBroken
  BY <1>3, FramingStep, EgressStep, LossStep, PumpStep, PollStep, SMTT(30), Z3T(30) DEF Data
<1>4. CASE UNCHANGED all
  <2>1. UNCHANGED <<vars, bindings, role, remotes, upDg, downDg, channel, last, socket>>
    BY <1>4, Zenon DEF all, data
  <2>2. Bindings'
    BY <2>1, BindingsKept, Zenon DEF PathInv
  <2>3. Labelled' /\ Handed' /\ EgressPermitted' /\ UplinkIsKnown' /\ Ended'
    BY <2>1, Zenon DEF vars, tables, PathInv, Labelled, Label, Handed, Ended, EgressPermitted, UplinkIsKnown, OfPeer
  <2> QED
    BY <2>2, <2>3 DEF PathInv
<1> QED
  BY <1>1, <1>2, <1>3, <1>4 DEF PathNext

\* The invariant holds in every behaviour.
LEMMA PathInvariant == PathSpec => []PathInv
BY PathInvInit, PathInvStep, LockdownInherited, PTL DEF PathSpec, all

-------------------------------------------------------------------------------
(***************************************************************************)
(* The results.                                                            *)
(***************************************************************************)

\* Whatever the contexts at the two ends did meanwhile, a packet is attributed
\* to the remote that sent it and leaves for the address it was sent to.
THEOREM AddressesAreKept == PathSpec => []AddressesKept
<1>1. PathInv => AddressesKept
  BY DEF PathInv, Handed, AddressesKept
<1> QED
  BY <1>1, PathInvariant, PTL

\* The datagrams have their types and the channel keeps its bound.
THEOREM PathTypeCorrect == PathSpec => []PathTypeOK
<1>1. PathInv => PathTypeOK
  <2> SUFFICES ASSUME PathInv, NEW d \in upDg \cup downDg
               PROVE  d \in [id : Contexts, addr : Address \cup {None}, real : Address]
    BY DEF PathInv, Bindings, Carry, Handed, Ended, PathTypeOK
  <2>1. d.id \in Contexts /\ d.real \in Address /\ d.addr \in Address \cup {None}
    BY Distinct DEF PathInv, Labelled, Label, Contexts
  <2> QED
    BY <2>1, SMTT(30), Z3T(30) DEF PathInv, Labelled, Label
<1> QED
  BY <1>1, PathInvariant, PTL

\* What leaves the relay is neither denied, nor local without being allowed.
THEOREM EgressIsPermitted == PathSpec => []EgressPermitted
BY PathInvariant, PTL DEF PathInv

\* A datagram that the client sends in the peer's context never meets a relay that does
\* not have it.
THEOREM UplinkStaysKnown == PathSpec => []UplinkIsKnown
BY PathInvariant, PTL DEF PathInv

\* The end of the session is reported after the packets that came before it.
THEOREM BrokenComesLast == PathSpec => []QueuedBeforeBroken
<1>1. PathInv => QueuedBeforeBroken
  BY DEF PathInv, Ended, QueuedBeforeBroken
<1> QED
  BY <1>1, PathInvariant, PTL

\* Once the mux has its peer it keeps it, and no packet to another address is
\* put into the tunnel.
THEOREM RemoteIsKept == PathSpec => OneRelayRemote
<1> DEFINE A == /\ remotes # {} => remotes' = remotes
                /\ role # "relay_only" => \A d \in upDg' \ upDg : d.real \in remotes
<1>1. [PathNext]_all => [A]_all
  <2> SUFFICES ASSUME PathNext PROVE A
    BY SMTT(30), Z3T(30) DEF all
  <2>1. CASE \E a \in Address : TransmitRelayed(a)
    BY <2>1 DEF TransmitRelayed, Tunnelled, FrameBind, EncodeDatagram
  <2>2. CASE PollRecv
    BY <2>2 DEF PollRecv, Learn
  <2>3. ASSUME ~\E a \in Address : TransmitRelayed(a), ~PollRecv
        PROVE  remotes' = remotes /\ upDg' \subseteq upDg
    BY <2>3, Zenon DEF PathNext, Control, Data, data, TransmitDirect, RelayDrops, RelayEgress, RelayIngress, DatagramLost,
                PumpDatagram, PollBroken
  <2> QED
    BY <2>1, <2>2, <2>3
<1> QED
  BY <1>1, PTL DEF PathSpec, OneRelayRemote, all

\* Once both ends have settled on the peer's context, no packet of another
\* address is put on its way to the client.
THEOREM StrangersAreStopped == PathSpec => StrangersStopped
<1> DEFINE A == Open \notin active /\ pc = "idle" /\ queue = <<>> /\ up = <<>> =>
                    \A d \in downDg' \ downDg : d.real = PeerOf(remotes)
<1>1. LockedDown /\ PathInv /\ [PathNext]_all => [A]_all
  <2> SUFFICES ASSUME LockedDown, PathInv, PathNext, Open \notin active, pc = "idle", queue = <<>>, up = <<>>,
                      NEW d \in downDg' \ downDg
               PROVE  d.real = PeerOf(remotes)
    BY DEF all
  <2>1. PICK r \in Address : RelayIngress(r)
    BY Zenon DEF PathNext, Control, Data, data, TransmitRelayed, TransmitDirect, RelayDrops, RelayEgress, DatagramLost,
           PumpDatagram, PollRecv, PollBroken
  <2>2. relay = {Narrow}
    BY DEF LockedDown
  <2>3. d \in {EncodeDatagram(id, r) : id \in ContextFor(relay, bound["relay"], r)}
    BY <2>1 DEF RelayIngress
  <2>4. bound["relay"] = PeerOf(remotes)
    BY <2>2 DEF PathInv, Bindings, OfPeer
  <2> QED
    BY <2>2, <2>3, <2>4, Distinct, SMTT(30), Z3T(30) DEF ContextFor, EncodeDatagram
<1> QED
  BY <1>1, LockdownInherited, PathInvariant, PTL DEF PathSpec, StrangersStopped, all
================================================================================
