-------------------------- MODULE ClientStreamProofs ---------------------------
(***************************************************************************)
(* What a client of a tunnel takes in: the echoes of its pings, and the    *)
(* capsules of the request stream; and the commands that it plans for them. *)
(***************************************************************************)
EXTENDS ClientPrograms, FiniteSetTheorems, TLAPS

-------------------------------------------------------------------------------
(***************************************************************************)
(* The echo client.                                                        *)
(***************************************************************************)

\* The places of the echoes among the packets of a queue.
EchoesIn(packets) == {i \in DOMAIN packets : packets[i] = "echo"}

\* The inductive invariant of the echo client: the echoes that were counted and those
\* that wait in the queue are different ones of those that came.
PingInv ==
    /\ queue \in Seq({"echo", "error", "garbage"})
    /\ seq \in Nat /\ seq <= Pings /\ received \in Nat /\ strays \in Nat
    /\ echoed \subseteq 1 .. seq /\ unanswered \subseteq 1 .. seq /\ echoed \cap unanswered = {}
    /\ received + Cardinality(EchoesIn(queue)) <= Cardinality(echoed) + strays

\* The echoes of a queue can be counted.
LEMMA EchoesFinite ==
    ASSUME NEW S, NEW q \in Seq(S)
    PROVE  IsFiniteSet(EchoesIn(q)) /\ Cardinality(EchoesIn(q)) \in Nat
<1>1. EchoesIn(q) \in SUBSET (1 .. Len(q)) /\ Len(q) \in Int
  BY DEF EchoesIn
<1>2. IsFiniteSet(1 .. Len(q))
  BY <1>1, FS_Interval
<1>3. IsFiniteSet(EchoesIn(q))
  BY <1>1, <1>2, FS_Subset
<1> QED
  BY <1>3, FS_CardinalityType

\* A packet that is queued is one more echo, or none.
LEMMA EchoesAppend ==
    ASSUME NEW S, NEW q \in Seq(S), NEW p \in S
    PROVE  Cardinality(EchoesIn(Append(q, p))) = Cardinality(EchoesIn(q)) + (IF p = "echo" THEN 1 ELSE 0)
<1>1. Len(q) + 1 \notin EchoesIn(q)
  BY DEF EchoesIn
<1>2. CASE p = "echo"
  <2>1. EchoesIn(Append(q, p)) = EchoesIn(q) \cup {Len(q) + 1}
    BY <1>2 DEF EchoesIn
  <2> QED
    BY <1>1, <1>2, <2>1, EchoesFinite, FS_AddElement
<1>3. CASE p # "echo"
  <2>1. EchoesIn(Append(q, p)) = EchoesIn(q)
    BY <1>3 DEF EchoesIn
  <2> QED
    BY <1>3, <2>1, EchoesFinite
<1> QED
  BY <1>2, <1>3

\* A packet that is taken is one echo less, or none.
LEMMA EchoesTail ==
    ASSUME NEW S, NEW q \in Seq(S), q # <<>>
    PROVE  Cardinality(EchoesIn(q)) = Cardinality(EchoesIn(Tail(q))) + (IF Head(q) = "echo" THEN 1 ELSE 0)
<1> DEFINE T == EchoesIn(Tail(q))
           U == EchoesIn(q) \ {1}
           f == [i \in T |-> i + 1]
<1>1. /\ Tail(q) \in Seq(S) /\ Len(q) \in Nat \ {0} /\ Len(Tail(q)) = Len(q) - 1
      /\ DOMAIN q = 1 .. Len(q) /\ DOMAIN Tail(q) = 1 .. Len(Tail(q))
      /\ \A i \in 1 .. Len(Tail(q)) : Tail(q)[i] = q[i + 1]
  OBVIOUS
<1>2. \A i \in T : i \in Nat /\ i + 1 \in U
  BY <1>1 DEF EchoesIn
<1>3. \A u \in U : u - 1 \in T /\ (u - 1) + 1 = u
  BY <1>1 DEF EchoesIn
<1>4. f \in [T -> U]
  BY <1>2
<1>5. \A i, j \in T : f[i] = f[j] => i = j
  BY <1>2
<1>6. \A u \in U : \E i \in T : f[i] = u
  BY <1>3
<1> HIDE DEF T, U, f
<1>7. f \in Bijection(T, U)
  BY <1>4, <1>5, <1>6 DEF Bijection, Injection, Surjection, IsInjective
<1>8. IsFiniteSet(T) /\ Cardinality(T) \in Nat
  BY <1>1, EchoesFinite, Zenon DEF T
<1>9. Cardinality(U) = Cardinality(T)
  BY <1>7, <1>8, FS_Bijection DEF ExistsBijection
<1>10. 1 \in EchoesIn(q) <=> Head(q) = "echo"
  BY <1>1 DEF EchoesIn
<1>11. Cardinality(U) = IF 1 \in EchoesIn(q) THEN Cardinality(EchoesIn(q)) - 1 ELSE Cardinality(EchoesIn(q))
  BY EchoesFinite, FS_RemoveElement, Zenon DEF U
<1>12. Cardinality(EchoesIn(q)) \in Nat
  BY EchoesFinite
<1> QED
  BY <1>8, <1>9, <1>10, <1>11, <1>12, SMTT(30), Z3T(30) DEF T

\* An empty queue holds no echo.
LEMMA NoEchoes == <<>> \in Seq({"echo", "error", "garbage"}) /\ Cardinality(EchoesIn(<<>>)) = 0
<1>1. EchoesIn(<<>>) = {}
  BY DEF EchoesIn
<1> QED
  BY <1>1, FS_EmptySet

\* A packet that is dispatched adds itself to the queue, or nothing.
LEMMA EchoesDispatched ==
    ASSUME NEW q \in Seq({"echo", "error", "garbage"}), NEW p \in {"echo", "error", "garbage"},
           NEW r, r = q \/ r = Append(q, p)
    PROVE  /\ r \in Seq({"echo", "error", "garbage"}) /\ Cardinality(EchoesIn(r)) \in Nat
           /\ Cardinality(EchoesIn(r)) <= Cardinality(EchoesIn(q)) + (IF p = "echo" THEN 1 ELSE 0)
<1>1. Append(q, p) \in Seq({"echo", "error", "garbage"})
  OBVIOUS
<1>2. Cardinality(EchoesIn(q)) \in Nat /\ Cardinality(EchoesIn(Append(q, p))) \in Nat
  BY <1>1, EchoesFinite, Zenon
<1>3. Cardinality(EchoesIn(Append(q, p))) = Cardinality(EchoesIn(q)) + (IF p = "echo" THEN 1 ELSE 0)
  BY EchoesAppend, Zenon
<1>4. CASE r = q
  BY <1>2, <1>4
<1>5. CASE r = Append(q, p)
  BY <1>1, <1>2, <1>3, <1>5
<1> QED
  BY <1>4, <1>5

\* What a step may do to the pings and to the queue.
LEMMA PingMoves ==
    ASSUME [Next]_vars
    PROVE  \/ UNCHANGED ping /\ (UNCHANGED queue \/ queue' = <<>>)
           \/ Restart \/ SendPing \/ RecvEcho \/ Stray \/ Garbage
           \/ \E n \in 1 .. Pings, kind \in {"echo", "error"} : Answer(n, kind)
<1>1. CASE DeviceUp \/ Apply \/ Run \/ StreamEnds \/ Terminate \/ Undo \/ Exit \/ Deadline \/ PingDone \/ RequestAddress
  BY <1>1, Zenon
  DEF DeviceUp, Apply, Run, StreamEnds, Terminate, Undo, Exit, Deadline, PingDone, RequestAddress, inbound
<1>2. CASE \E n \in 1 .. arrived : Await(n) \/ Capsules(n) \/ Reply(n)
  BY <1>2, Zenon DEF Await, Capsules, Reply, inbound
<1>3. CASE Configured \/ CloseClient \/ Establish
  BY <1>3, Zenon DEF Configured, CloseClient, Establish, SetPacketSink, Close, DemuxInsert, inbound
<1>4. CASE Proxying \/ Deliver \/ Connect \/ Rejected \/ SetupFails \/ SendFails \/ RecvFails \/ Signal \/ Crash
  BY <1>4, Zenon DEF Proxying, Deliver, Connect, Rejected, SetupFails, SendFails, RecvFails, Signal, Crash, inbound
<1>5. CASE \E m \in Mtu : MtuTick(m)
  BY <1>5, Zenon DEF MtuTick, inbound
<1>6. CASE UNCHANGED vars
  BY <1>6, Zenon DEF vars, inbound
<1> QED
  BY <1>1, <1>2, <1>3, <1>4, <1>5, <1>6, ZenonT(60) DEF Next, Task

\* The pings that were echoed can be counted.
LEMMA EchoedFinite ==
    ASSUME PingInv
    PROVE  IsFiniteSet(echoed) /\ Cardinality(echoed) \in Nat
<1>1. IsFiniteSet(1 .. seq)
  BY FS_Interval DEF PingInv
<1>2. echoed \in SUBSET (1 .. seq)
  BY DEF PingInv
<1>3. IsFiniteSet(echoed)
  BY <1>1, <1>2, FS_Subset, Zenon
<1> QED
  BY <1>3, FS_CardinalityType

\* Every step keeps the invariant of the echo client.
LEMMA PingStep ==
    ASSUME PingInv, [Next]_vars
    PROVE  PingInv'
<1>1. Cardinality(EchoesIn(queue)) \in Nat
  BY EchoesFinite DEF PingInv
<1>2. IsFiniteSet(echoed) /\ Cardinality(echoed) \in Nat
  BY EchoedFinite
<1>3. CASE UNCHANGED ping /\ UNCHANGED queue
  BY <1>3 DEF PingInv, EchoesIn, ping
<1>4. CASE UNCHANGED ping /\ queue' = <<>>
  <2>1. Cardinality(EchoesIn(queue'))  = 0 /\ queue' \in Seq({"echo", "error", "garbage"})
    BY <1>4, NoEchoes
  <2> QED
    BY <1>1, <1>2, <1>4, <2>1 DEF PingInv, EchoesIn, ping
<1>5. CASE Restart
  <2>1. queue' = <<>> /\ seq' = 0 /\ unanswered' = {} /\ echoed' = {} /\ strays' = 0 /\ received' = 0
    BY <1>5 DEF Restart
  <2>2. Cardinality(EchoesIn(queue')) = 0 /\ queue' \in Seq({"echo", "error", "garbage"}) /\ Cardinality(echoed') = 0
    BY <2>1, NoEchoes, FS_EmptySet
  <2> QED
    BY <2>1, <2>2, ProgramAssumption DEF PingInv, EchoesIn
<1>6. CASE SendPing
  <2>1. /\ UNCHANGED <<queue, echoed, strays, received>> /\ seq < Pings
        /\ seq' = seq + 1 /\ unanswered' = unanswered \cup {seq + 1}
    BY <1>6, Zenon DEF SendPing, inbound
  <2> QED
    BY <2>1, ProgramAssumption DEF PingInv, EchoesIn
<1>7. CASE RecvEcho
  <2>1. UNCHANGED <<seq, unanswered, echoed, strays>> /\ queue # <<>> /\ queue' = Tail(queue)
    BY <1>7 DEF RecvEcho, RecvPacket
  <2>2. received' = received + (IF Head(queue) = "echo" THEN 1 ELSE 0)
    BY <1>7 DEF RecvEcho, IsEcho, PingInv
  <2>3. /\ Cardinality(EchoesIn(queue)) = Cardinality(EchoesIn(Tail(queue))) + (IF Head(queue) = "echo" THEN 1 ELSE 0)
        /\ Tail(queue) \in Seq({"echo", "error", "garbage"})
    BY <2>1, EchoesTail DEF PingInv
  <2>4. Cardinality(EchoesIn(Tail(queue))) \in Nat
    BY <2>3, EchoesFinite, Zenon
  <2>5. received' \in Nat /\ received' + Cardinality(EchoesIn(Tail(queue))) <= Cardinality(echoed) + strays
    BY <1>1, <1>2, <2>2, <2>3, <2>4, SMTT(30), Z3T(30) DEF PingInv
  <2> QED
    BY <2>1, <2>3, <2>5, Zenon DEF PingInv, EchoesIn
<1>8. ASSUME NEW n \in 1 .. Pings, NEW kind \in {"echo", "error"}, Answer(n, kind) PROVE PingInv'
  <2>1. /\ UNCHANGED <<seq, strays, received>> /\ n \in unanswered /\ unanswered' = unanswered \ {n}
        /\ echoed' = IF kind = "echo" THEN echoed \cup {n} ELSE echoed
        /\ queue' = queue \/ queue' = Append(queue, kind)
    BY <1>8 DEF Answer, Dispatch
  <2>2. Cardinality(echoed') = Cardinality(echoed) + (IF kind = "echo" THEN 1 ELSE 0)
    <3>1. n \notin echoed
      BY <2>1 DEF PingInv
    <3>2. Cardinality(echoed \cup {n}) = Cardinality(echoed) + 1
      BY <1>2, <3>1, FS_AddElement
    <3> QED
      BY <1>2, <2>1, <3>2
  <2>3. Cardinality(EchoesIn(queue')) <= Cardinality(EchoesIn(queue)) + (IF kind = "echo" THEN 1 ELSE 0)
        /\ Cardinality(EchoesIn(queue')) \in Nat /\ queue' \in Seq({"echo", "error", "garbage"})
    BY <2>1, EchoesDispatched DEF PingInv
  <2>4. received' + Cardinality(EchoesIn(queue')) <= Cardinality(echoed') + strays'
    BY <1>1, <1>2, <2>1, <2>2, <2>3, SMTT(30), Z3T(30) DEF PingInv
  <2> QED
    BY <2>1, <2>3, <2>4 DEF PingInv, EchoesIn
<1>9. CASE Stray
  <2>1. /\ UNCHANGED <<seq, unanswered, echoed, received>> /\ strays' = strays + 1
        /\ queue' = queue \/ queue' = Append(queue, "echo")
    BY <1>9 DEF Stray, Dispatch
  <2>2. /\ Cardinality(EchoesIn(queue')) <= Cardinality(EchoesIn(queue)) + 1
        /\ Cardinality(EchoesIn(queue')) \in Nat /\ queue' \in Seq({"echo", "error", "garbage"})
    BY <2>1, EchoesDispatched DEF PingInv
  <2>3. strays' \in Nat /\ received' + Cardinality(EchoesIn(queue')) <= Cardinality(echoed') + strays'
    BY <1>1, <1>2, <2>1, <2>2, SMTT(30), Z3T(30) DEF PingInv
  <2> QED
    BY <2>1, <2>2, <2>3 DEF PingInv, EchoesIn
<1>10. CASE Garbage
  <2>1. UNCHANGED <<seq, unanswered, echoed, strays, received>> /\ (queue' = queue \/ queue' = Append(queue, "garbage"))
    BY <1>10 DEF Garbage, Dispatch, ping
  <2>2. /\ Cardinality(EchoesIn(queue')) <= Cardinality(EchoesIn(queue)) + 0
        /\ Cardinality(EchoesIn(queue')) \in Nat /\ queue' \in Seq({"echo", "error", "garbage"})
    BY <2>1, EchoesDispatched DEF PingInv
  <2> QED
    BY <1>1, <1>2, <2>1, <2>2 DEF PingInv, EchoesIn
<1> QED
  BY <1>3, <1>4, <1>5, <1>6, <1>7, <1>8, <1>9, <1>10, PingMoves, ZenonT(60)

\* Each ping that the echo client counts stands for an echo of its own that reached it, for
\* any number of pings and of strays and any depth of the queue.
THEOREM CountedCame == Spec => []CountedHasCome
<1>1. Init => PingInv
  BY NoEchoes, FS_EmptySet, ProgramAssumption DEF Init, ClientInit, PingInv
<1>2. PingInv => CountedHasCome
  <2> SUFFICES ASSUME PingInv PROVE received <= Cardinality(echoed) + strays
    BY DEF CountedHasCome
  <2>1. Cardinality(EchoesIn(queue)) \in Nat
    BY EchoesFinite DEF PingInv
  <2>2. Cardinality(echoed) \in Nat
    BY EchoedFinite
  <2> QED
    BY <2>1, <2>2 DEF PingInv
<1>3. PingInv /\ [Next]_vars => PingInv'
  BY PingStep
<1> QED
  BY <1>1, <1>2, <1>3, PTL DEF Spec

-------------------------------------------------------------------------------
(***************************************************************************)
(* The kernel's choice among nested prefixes.                              *)
(***************************************************************************)

\* Of the prefixes that hold an address, the least and the greatest of any kind exist.
LEMMA Smallest ==
    ASSUME NEW a \in Addr, NEW via \in SUBSET Prefix, via # {}, \A p \in via : a \in p
    PROVE  \E b \in via : \A q \in via : b \subseteq q
<1>1. via \subseteq FiniteSubsetsOf(Addr)
  BY SetupAssumption, FS_Subset, Zenon DEF FiniteSubsetsOf
<1>2. PICK b \in via : \A y \in via : ~(<<y, b>> \in StrictSubsetOrdering(Addr))
  BY <1>1, FS_StrictSubsetOrderingWellFounded, WFMin
<1>3. ASSUME NEW q \in via PROVE b \subseteq q
  <2>1. ~(q \subseteq b /\ q # b)
    BY <1>2, SetupAssumption, Zenon DEF StrictSubsetOrdering
  <2>2. q \cap b # {} /\ q \in Prefix /\ b \in Prefix
    OBVIOUS
  <2> QED
    BY <2>1, <2>2, SetupAssumption
<1> QED
  BY <1>3

\* Among the prefixes that contain an address there is one that contains the others.
LEMMA Largest ==
    ASSUME NEW a \in Addr, NEW via \in SUBSET Prefix, via # {}, \A p \in via : a \in p
    PROVE  \E b \in via : \A q \in via : q \subseteq b
<1> DEFINE rest == {Addr \ p : p \in via}
<1>1. rest \subseteq FiniteSubsetsOf(Addr) /\ rest # {}
  <2>1. rest \subseteq SUBSET Addr
    OBVIOUS
  <2>2. rest # {}
    <3>1. PICK p \in via : TRUE
      OBVIOUS
    <3>2. Addr \ p \in rest
      BY <3>1
    <3> QED
      BY <3>2, Zenon
  <2> QED
    BY <2>1, <2>2, SetupAssumption, FS_FiniteSubsetsOfFinite
<1>2. PICK r \in rest : \A y \in rest : ~(<<y, r>> \in StrictSubsetOrdering(Addr))
  BY <1>1, FS_StrictSubsetOrderingWellFounded, WFMin, Zenon
<1>3. PICK b \in via : r = Addr \ b
  OBVIOUS
<1>4. ASSUME NEW q \in via PROVE q \subseteq b
  <2>1. ~((Addr \ q) \subseteq r /\ (Addr \ q) # r)
    <3> DEFINE y == Addr \ q
    <3>1. y \in rest /\ y \in SUBSET Addr /\ r \in SUBSET Addr
      BY <1>3
    <3> HIDE DEF y, rest
    <3>2. ~(<<y, r>> \in StrictSubsetOrdering(Addr))
      BY <1>2, <3>1
    <3>3. ~(y \subseteq r /\ y # r)
      BY <3>1, <3>2 DEF StrictSubsetOrdering
    <3> QED
      BY <3>3 DEF y
  <2>2. q \cap b # {} /\ q \in Prefix /\ b \in Prefix /\ q \subseteq Addr /\ b \subseteq Addr
    BY SetupAssumption
  <2>3. q \subseteq b \/ b \subseteq q
    BY <2>2, SetupAssumption
  <2> QED
    BY <1>3, <2>1, <2>2, <2>3
<1> QED
  BY <1>4

\* `ip route get` answers with the device of the most specific prefix.
LEMMA PathIs ==
    ASSUME NEW a \in Addr, NEW b \in Prefix, a \in b, kernelRoutes[b] # "none",
           \A q \in Prefix : a \in q /\ kernelRoutes[q] # "none" => b \subseteq q
    PROVE  PathTo(a) = kernelRoutes[b]
<1> DEFINE via == {p \in Prefix : a \in p /\ kernelRoutes[p] # "none"}
           best == {p \in via : \A q \in via : p \subseteq q}
<1>1. best = {b}
  BY Zenon
<1>2. PathTo(a) = IF best = {} THEN "none" ELSE kernelRoutes[CHOOSE p \in best : TRUE]
  BY DEF PathTo
<1> QED
  BY <1>1, <1>2

\* With a default route there is an answer.
LEMMA PathExists ==
    ASSUME NEW a \in Addr, kernelRoutes[Addr] # "none"
    PROVE  \E b \in Prefix : /\ a \in b /\ kernelRoutes[b] # "none" /\ PathTo(a) = kernelRoutes[b]
                            /\ \A q \in Prefix : a \in q /\ kernelRoutes[q] # "none" => b \subseteq q
<1> DEFINE via == {p \in Prefix : a \in p /\ kernelRoutes[p] # "none"}
<1>1. Addr \in via /\ via \in SUBSET Prefix /\ \A p \in via : a \in p
  BY SetupAssumption
<1>2. PICK b \in via : \A q \in via : b \subseteq q
  <2> HIDE DEF via
  <2>1. via # {}
    BY <1>1
  <2> QED
    BY <1>1, <2>1, Smallest
<1>3. \A q \in Prefix : a \in q /\ kernelRoutes[q] # "none" => b \subseteq q
  BY <1>2
<1>4. PathTo(a) = kernelRoutes[b]
  BY <1>3, PathIs
<1> QED
  BY <1>3, <1>4

-------------------------------------------------------------------------------
(***************************************************************************)
(* The capsules of the request stream.                                     *)
(***************************************************************************)

\* The program has not met the end of the stream or a malformed capsule.
Reading == pc \notin {"close", "exit", "done", "dead"} /\ (pc = "undo" => after = "plan")

\* The inductive invariant of the request stream: the state of the tunnel is what the
\* decoded capsules told, and as long as the program reads they are all that were
\* wholly read.
StreamInv ==
    /\ wire \in Seq(Capsule) /\ arrived \in Nat /\ taken \in Nat /\ parsed \in Nat
    /\ taken <= arrived /\ arrived <= Pieces * Len(wire) /\ parsed <= Complete(taken)
    /\ assigned = Told("assign", parsed) /\ routes = Told("routes", parsed)
    /\ after \in {"plan", "close", "exit"}
    /\ Reading => parsed = Complete(taken)

\* The least and the greatest of some of the first numbers exist.
LEMMA MinOf ==
    ASSUME NEW S \in SUBSET Nat, S # {}
    PROVE  Min(S) \in S /\ \A y \in S : Min(S) <= y
<1>1. PICK x \in S : \A y \in S : ~(<<y, x>> \in OpToRel(<, Nat))
  BY NatLessThanWellFounded, WFMin
<1>2. ASSUME NEW y \in S PROVE x =< y
  <2>1. <<y, x>> \in Nat \X Nat /\ ~(<<y, x>> \in {ss \in Nat \X Nat : ss[1] < ss[2]})
    BY <1>1 DEF OpToRel
  <2>2. ~(y < x)
    BY <2>1
  <2> QED
    BY <2>2
<1> QED
  BY <1>2, Zenon DEF Min

\* The maximum of a finite set of positions is one of them, and none is above it.
LEMMA MaxOf ==
    ASSUME NEW n \in Nat, NEW S \in SUBSET (1 .. n), S # {}
    PROVE  Max(S) \in S /\ \A y \in S : y <= Max(S)
<1> DEFINE T == {n - x : x \in S}
<1>1. T \in SUBSET Nat /\ T # {}
  <2>1. PICK x \in S : TRUE
    BY Zenon
  <2>2. n - x \in T
    OBVIOUS
  <2> QED
    BY <2>2
<1>2. Min(T) \in T /\ \A y \in T : Min(T) <= y
  BY <1>1, MinOf, Zenon
<1>3. PICK x \in S : Min(T) = n - x
  BY <1>2, Zenon
<1>4. \A y \in S : x >= y
  <2> SUFFICES ASSUME NEW y \in S PROVE x >= y
    OBVIOUS
  <2>1. n - x <= n - y
    BY <1>2, <1>3, Zenon
  <2> QED
    BY <2>1
<1>5. Max(S) \in S /\ \A y \in S : Max(S) >= y
  BY <1>4, Zenon DEF Max
<1> QED
  BY <1>5

\* How many capsules the first n pieces hold.
LEMMA CompleteBounds ==
    ASSUME NEW n \in Nat
    PROVE  /\ Complete(n) \in Nat /\ Pieces * Complete(n) <= n
           /\ \A k \in Nat : n <= Pieces * k => Complete(n) <= k
           /\ \A m \in Nat : m <= n => Complete(m) <= Complete(n)
           /\ Complete(0) = 0
<1> DEFINE P == Pieces
<1>1. P \in Nat \ {0}
  BY ClientAssumption
<1>2. ASSUME NEW m \in Nat
      PROVE  m \div P \in Nat /\ P * (m \div P) <= m /\ m < P * (m \div P) + P
  BY <1>1
<1>3. ASSUME NEW j \in Nat, NEW k \in Nat, P * j < P * k + P PROVE j <= k
  <2>1. SUFFICES ASSUME j >= k + 1 PROVE FALSE
    OBVIOUS
  <2>2. PICK d \in Nat : j = k + 1 + d
    BY <2>1
  <2>3. P * j = P * k + P + P * d /\ P * d >= 0
    BY <1>1, <2>2
  <2>4. P * j \in Nat /\ P * k \in Nat /\ P * d \in Nat
    BY <1>1
  <2> QED
    BY <1>1, <1>3, <2>3, <2>4
<1>4. ASSUME NEW k \in Nat, n <= P * k PROVE n \div P <= k
  <2>1. P * (n \div P) \in Nat /\ P * k \in Nat /\ n \div P \in Nat
    BY <1>1, <1>2
  <2>2. P * (n \div P) < P * k + P
    BY <1>1, <1>2, <1>4, <2>1
  <2> QED
    BY <1>3, <2>1, <2>2
<1>5. ASSUME NEW m \in Nat, m <= n PROVE m \div P <= n \div P
  <2>1. P * (n \div P) \in Nat /\ P * (m \div P) \in Nat /\ n \div P \in Nat /\ m \div P \in Nat
    BY <1>1, <1>2
  <2>2. P * (m \div P) < P * (n \div P) + P
    BY <1>1, <1>2, <1>5, <2>1
  <2> QED
    BY <1>3, <2>1, <2>2
<1>6. 0 \div P = 0
  BY <1>1, <1>2, <1>4
<1> QED
  BY <1>2, <1>4, <1>5, <1>6 DEF Complete

\* next_capsule goes on from where it was, and not beyond what is complete.
LEMMA DecodableBounds ==
    ASSUME parsed \in Nat, NEW n \in Nat, parsed <= Complete(n)
    PROVE  Decodable(n) \in Nat /\ parsed <= Decodable(n) /\ Decodable(n) <= Complete(n)
<1> DEFINE bad == {i \in parsed + 1 .. Complete(n) : wire[i].type = "malformed"}
<1>1. Complete(n) \in Nat
  BY CompleteBounds
<1>2. bad \in SUBSET Nat /\ \A i \in bad : parsed + 1 <= i /\ i <= Complete(n)
  BY <1>1
<1>3. Decodable(n) = IF bad = {} THEN Complete(n) ELSE Min(bad) - 1
  BY DEF Decodable
<1> HIDE DEF bad
<1>4. CASE bad = {}
  BY <1>1, <1>3, <1>4
<1>5. CASE bad # {}
  <2>1. Min(bad) \in bad
    BY <1>2, <1>5, MinOf
  <2>2. Min(bad) \in Nat /\ parsed + 1 <= Min(bad) /\ Min(bad) <= Complete(n)
    BY <1>2, <2>1, Zenon
  <2>3. Decodable(n) = Min(bad) - 1
    BY <1>3, <1>5
  <2> QED
    BY <1>1, <2>2, <2>3
<1> QED
  BY <1>4, <1>5

\* The value that Told returns is that of a capsule of the type.
LEMMA ToldIsSent ==
    ASSUME NEW n \in Nat, n <= Len(wire), wire \in Seq(Capsule), NEW type
    PROVE  Told(type, n) = <<>> \/ \E c \in Capsule : c.type = type /\ Told(type, n) = c.value
<1> DEFINE of == {i \in 1 .. n : wire[i].type = type}
<1>1. Told(type, n) = IF of = {} THEN <<>> ELSE wire[Max(of)].value
  BY DEF Told
<1>2. CASE of # {}
  <2>1. of \in SUBSET (1 .. n)
    OBVIOUS
  <2>2. Max(of) \in of
    <3> HIDE DEF of
    <3> QED
      BY <1>2, <2>1, MaxOf, Zenon
  <2>3. wire[Max(of)] \in Capsule /\ wire[Max(of)].type = type
    BY <2>2
  <2> QED
    BY <1>1, <1>2, <2>3, Zenon
<1> QED
  BY <1>1, <1>2

\* The addresses and the routes of the tunnel have the types of the capsules.
LEMMA ToldTypes ==
    ASSUME StreamInv
    PROVE  assigned \in Seq(Assignable) /\ routes \in Seq([lo : Addr, hi : Addr, protocol : Nat])
<1>1. parsed \in Nat /\ parsed <= Len(wire) /\ wire \in Seq(Capsule)
  <2>1. Complete(taken) <= Len(wire) /\ Complete(taken) \in Nat
    <3>1. taken <= Pieces * Len(wire)
      <4>1. Pieces * Len(wire) \in Nat
        BY ClientAssumption DEF StreamInv
      <4> QED
        BY <4>1 DEF StreamInv
    <3> QED
      BY <3>1, CompleteBounds DEF StreamInv
  <2> QED
    BY <2>1 DEF StreamInv
<1>2. /\ assigned = <<>> \/ \E c \in Capsule : c.type = "assign" /\ assigned = c.value
      /\ routes = <<>> \/ \E c \in Capsule : c.type = "routes" /\ routes = c.value
  BY <1>1, ToldIsSent DEF StreamInv
<1>3. assigned \in Seq(Assignable)
  <2>1. CASE assigned = <<>>
    BY <2>1
  <2>2. ASSUME NEW c \in Capsule, c.type = "assign", assigned = c.value PROVE assigned \in Seq(Assignable)
    BY <2>2, ProgramAssumption, Zenon
  <2> QED
    BY <1>2, <2>1, <2>2
<1>4. routes \in Seq([lo : Addr, hi : Addr, protocol : Nat])
  <2>1. CASE routes = <<>>
    BY <2>1
  <2>2. ASSUME NEW c \in Capsule, c.type = "routes", routes = c.value
        PROVE  routes \in Seq([lo : Addr, hi : Addr, protocol : Nat])
    BY <2>2, ProgramAssumption, Zenon
  <2> QED
    BY <1>2, <2>1, <2>2, Zenon
<1> QED
  BY <1>3, <1>4

\* apply_capsule, one capsule after the other, leaves what the last of each type told.
LEMMA LastIsTold ==
    ASSUME parsed \in Nat, NEW m \in Nat, parsed <= m, NEW type, NEW old, old = Told(type, parsed)
    PROVE  LastOf(type, m, old) = Told(type, m)
<1> DEFINE seen == {i \in parsed + 1 .. m : wire[i].type = type}
           of(k) == {i \in 1 .. k : wire[i].type = type}
<1>1. LastOf(type, m, old) = IF seen = {} THEN old ELSE wire[Max(seen)].value
  BY DEF LastOf
<1>2. \A k : Told(type, k) = IF of(k) = {} THEN <<>> ELSE wire[Max(of(k))].value
  BY DEF Told
<1>3. CASE seen = {}
  <2>1. of(m) = of(parsed)
    BY <1>3
  <2> QED
    BY <1>1, <1>2, <1>3, <2>1, Zenon
<1>4. CASE seen # {}
  <2>1. /\ seen \in SUBSET (1 .. m) /\ of(m) \in SUBSET (1 .. m) /\ seen \subseteq of(m)
        /\ \A i \in of(m) : i \in seen \/ i <= parsed
        /\ \A i \in seen : parsed < i
    OBVIOUS
  <2> DEFINE all == of(m)
  <2> HIDE DEF seen, of, all
  <2>2. Max(seen) \in seen /\ \A y \in seen : y <= Max(seen)
    BY <1>4, <2>1, MaxOf, Zenon
  <2>3. Max(all) \in all /\ \A y \in all : y <= Max(all)
    BY <1>4, <2>1, MaxOf, Zenon DEF all
  <2>4. Max(seen) = Max(all)
    <3>1. Max(seen) \in 1 .. m /\ parsed < Max(seen) /\ Max(seen) <= Max(all)
      BY <2>1, <2>2, <2>3, Zenon DEF all
    <3>2. Max(all) \in 1 .. m /\ (Max(all) \in seen \/ Max(all) <= parsed)
      BY <2>1, <2>3 DEF all
    <3>3. Max(all) \in seen
      BY <3>1, <3>2
    <3>4. Max(all) <= Max(seen)
      BY <2>2, <3>3
    <3> QED
      BY <3>1, <3>2, <3>4
  <2>5. all # {}
    BY <2>3
  <2> QED
    BY <1>1, <1>2, <1>4, <2>4, <2>5, SMTT(30), Z3T(30) DEF all
<1> QED
  BY <1>3, <1>4

\* What was told stays told when the proxy writes more.
LEMMA ToldKept ==
    ASSUME parsed \in Nat, UNCHANGED parsed, \A i \in 1 .. parsed : wire'[i] = wire[i], NEW type
    PROVE  Told(type, parsed)' = Told(type, parsed)
<1> DEFINE of == {i \in 1 .. parsed : wire[i].type = type}
           ofNext == {i \in 1 .. parsed' : wire'[i].type = type}
<1>1. of = ofNext /\ of \in SUBSET (1 .. parsed)
  OBVIOUS
<1>2. /\ Told(type, parsed) = IF of = {} THEN <<>> ELSE wire[Max(of)].value
      /\ Told(type, parsed)' = IF ofNext = {} THEN <<>> ELSE wire'[Max(ofNext)].value
  BY DEF Told
<1> HIDE DEF of, ofNext
<1>3. CASE of # {}
  <2>1. Max(of) \in 1 .. parsed
    BY <1>1, <1>3, MaxOf, Zenon
  <2> QED
    BY <1>1, <1>2, <1>3, <2>1
<1>4. CASE of = {}
  BY <1>1, <1>2, <1>4
<1> QED
  BY <1>3, <1>4

\* What a step that leaves the stream and the tunnel alone may do.
Elsewhere ==
    /\ UNCHANGED <<wire, arrived, taken, parsed, assigned, routes>>
    /\ after' \in {after, "plan", "close", "exit"}
    /\ Reading' => Reading

\* A chunk that is read.
ChunkRead(n) ==
    /\ ReadChunk(n) /\ UNCHANGED <<wire, arrived>>
    /\ after' \in {after, "plan", "close", "exit"}
    /\ Reading /\ (Reading' => ~DecodeFails(n))

\* An error or the end of the stream ends the program.
LEMMA StoppedType == Stopped = "close" \/ Stopped = "exit"
BY DEF Stopped

\* The steps, as far as the stream is concerned.
LEMMA StreamMoves ==
    ASSUME after \in {"plan", "close", "exit"}, [Next]_vars
    PROVE  Elsewhere \/ Proxying \/ Deliver \/ Restart \/ \E n \in 1 .. arrived : ChunkRead(n)
<1> USE DEF Reading, Goto, DropGuard
<1>1. CASE DeviceUp \/ Apply \/ Configured \/ Connect \/ Establish \/ Rejected \/ SetupFails
  <2>1. UNCHANGED <<wire, arrived, taken, parsed, assigned, routes, after>>
    BY <1>1, ZenonT(60)
    DEF DeviceUp, Apply, Configured, Connect, Establish, Rejected, SetupFails, stream, tunnel, capsules
  <2>2. pc \in {"connect", "request", "ready", "plan", "run"}
    BY <1>1 DEF DeviceUp, Apply, Configured, Connect, Establish, Rejected, SetupFails
  <2> QED
    BY <2>1, <2>2 DEF Elsewhere
<1>2. CASE Run
  <2>1. UNCHANGED <<wire, arrived, taken, parsed, assigned, routes>>
    BY <1>2, Zenon DEF Run, stream, tunnel, capsules
  <2>2. pc = "run" /\ (UNCHANGED <<pc, after>> \/ (pc' = "undo" /\ after' = "exit"))
    BY <1>2, Zenon DEF Run, program
  <2> QED
    BY <2>1, <2>2 DEF Elsewhere
<1>3. CASE StreamEnds \/ Terminate
  <2>1. UNCHANGED <<wire, arrived, taken, parsed, assigned, routes>>
    BY <1>3, Zenon DEF StreamEnds, ReadEnd, Terminate, stream, tunnel, capsules
  <2>2. (pc' = "undo" /\ after' \in {"close", "exit"}) \/ (pc' = "exit" /\ after' = after)
    BY <1>3, StoppedType, ZenonT(60) DEF StreamEnds, Terminate
  <2> QED
    BY <2>1, <2>2 DEF Elsewhere
<1>4. CASE Undo
  <2>1. UNCHANGED <<wire, arrived, taken, parsed, assigned, routes>>
    BY <1>4, Zenon DEF Undo, stream, tunnel, capsules
  <2>2. pc = "undo" /\ (UNCHANGED <<pc, after>> \/ (pc' = after /\ after' = "exit"))
    BY <1>4, Zenon DEF Undo, program
  <2> QED
    BY <2>1, <2>2 DEF Elsewhere
<1>5. CASE CloseClient \/ Exit \/ Crash \/ PingDone \/ SendFails \/ RecvFails
  <2>1. UNCHANGED <<wire, arrived, taken, parsed, assigned, routes, after>>
    BY <1>5, ZenonT(60) DEF CloseClient, Exit, Crash, PingDone, SendFails, RecvFails, stream, tunnel, capsules
  <2>2. pc' \in {"close", "exit", "done", "dead"}
    BY <1>5 DEF CloseClient, Exit, Crash, PingDone, SendFails, RecvFails
  <2> QED
    BY <2>1, <2>2 DEF Elsewhere
<1>6. CASE SendPing \/ RecvEcho \/ Deadline \/ RequestAddress
  <2>1. UNCHANGED <<wire, arrived, taken, parsed, assigned, routes, after>>
    BY <1>6, Zenon DEF SendPing, RecvEcho, Deadline, RequestAddress, stream, tunnel, capsules, program
  <2>2. pc \in {"ready", "ping", "wait"}
    BY <1>6 DEF SendPing, RecvEcho, Deadline, RequestAddress
  <2> QED
    BY <2>1, <2>2 DEF Elsewhere
<1>7. CASE Signal \/ UNCHANGED vars
  BY <1>7, Zenon DEF Signal, vars, stream, tunnel, capsules, program, Elsewhere
<1>8. CASE \E m \in Mtu : MtuTick(m)
  BY <1>8, Zenon DEF MtuTick, stream, tunnel, capsules, program, Elsewhere
<1>9. CASE Stray \/ Garbage \/ \E n \in 1 .. Pings, kind \in {"echo", "error"} : Answer(n, kind)
  BY <1>9, ZenonT(60) DEF Stray, Garbage, Answer, stream, tunnel, capsules, program, Elsewhere
<1>10. ASSUME NEW n \in 1 .. arrived, Await(n) \/ Capsules(n) \/ Reply(n) PROVE ChunkRead(n)
  <2>1. ReadChunk(n) /\ UNCHANGED <<wire, arrived>>
    BY <1>10, ZenonT(60) DEF Await, Capsules, Reply, stream
  <2>2. pc \in {"await", "select", "reply"}
    BY <1>10 DEF Await, Capsules, Reply
  <2>3. /\ after' \in {after, "plan", "close", "exit"}
        /\ DecodeFails(n) => pc' = "exit" \/ (pc' = "undo" /\ after' \in {"close", "exit"})
    BY <1>10, StoppedType, Zenon DEF Await, Capsules, Reply, program
  <2> QED
    BY <2>1, <2>2, <2>3 DEF ChunkRead
<1> HIDE DEF Reading
<1> QED
  BY <1>1, <1>2, <1>3, <1>4, <1>5, <1>6, <1>7, <1>8, <1>9, <1>10, ZenonT(60) DEF Next, Task

\* Nothing is decoded that the proxy has not written.
LEMMA ParsedIsWritten ==
    ASSUME StreamInv, NEW n \in Nat, n <= arrived
    PROVE  Complete(n) \in Nat /\ Complete(n) <= Len(wire) /\ Pieces * Len(wire) \in Nat
<1>1. Len(wire) \in Nat /\ arrived \in Nat /\ arrived <= Pieces * Len(wire)
  BY DEF StreamInv
<1>2. Pieces * Len(wire) \in Nat
  BY <1>1, ClientAssumption
<1>3. n <= Pieces * Len(wire)
  BY <1>1, <1>2, SMTT(30), Z3T(30)
<1> QED
  BY <1>1, <1>2, <1>3, CompleteBounds, SMTT(30), Z3T(30)

\* Every step keeps the invariant of the stream.
LEMMA StreamStep ==
    ASSUME StreamInv, [Next]_vars
    PROVE  StreamInv'
<1>1. CASE Elsewhere
  <2>1. UNCHANGED <<wire, arrived, taken, parsed, assigned, routes>> /\ after' \in {"plan", "close", "exit"}
    BY <1>1 DEF Elsewhere, StreamInv
  <2>2. Told("assign", parsed)' = Told("assign", parsed) /\ Told("routes", parsed)' = Told("routes", parsed)
    BY <2>1, ToldKept DEF StreamInv
  <2>3. Complete(taken)' = Complete(taken)
    BY <2>1, SMTT(30), Z3T(30) DEF Complete
  <2> QED
    BY <1>1, <2>1, <2>2, <2>3, SMTT(30), Z3T(30) DEF StreamInv, Elsewhere
<1>2. CASE Proxying \/ Deliver
  <2>1. UNCHANGED <<taken, parsed, assigned, routes, pc, after>>
    BY <1>2, ZenonT(60) DEF Proxying, Deliver, tunnel, capsules, program
  <2>2. /\ wire' \in Seq(Capsule) /\ arrived' \in Nat /\ arrived <= arrived' /\ arrived' <= Pieces * Len(wire')
        /\ \A i \in 1 .. Len(wire) : wire'[i] = wire[i]
    <3>1. CASE \E c \in Capsule : ProxyWrites(c)
      <4>1. PICK c \in Capsule : wire' = Append(wire, c) /\ arrived' = arrived
        BY <3>1 DEF ProxyWrites
      <4>2. Pieces * (Len(wire) + 1) = Pieces * Len(wire) + Pieces /\ Pieces * Len(wire) \in Nat /\ Pieces \in Nat
        BY ClientAssumption DEF StreamInv
      <4>3. Len(wire') = Len(wire) + 1
        BY <4>1 DEF StreamInv
      <4> QED
        BY <4>1, <4>2, <4>3 DEF StreamInv
    <3>2. CASE ProxyEnds
      BY <3>2 DEF ProxyEnds, StreamInv
    <3>3. CASE Arrive
      <4>1. Pieces * Len(wire) \in Nat
        BY ClientAssumption, SMTT(30), Z3T(30) DEF StreamInv
      <4> QED
        BY <3>3, <4>1, SMTT(30), Z3T(30) DEF Arrive, StreamInv
    <3> QED
      BY <1>2, <3>1, <3>2, <3>3, SMTT(30), Z3T(30) DEF Proxying, Deliver
  <2>3. parsed <= Len(wire) /\ parsed \in Nat /\ Len(wire) \in Nat
    BY ParsedIsWritten, SMTT(30), Z3T(30) DEF StreamInv
  <2>4. Told("assign", parsed)' = Told("assign", parsed) /\ Told("routes", parsed)' = Told("routes", parsed)
    BY <2>1, <2>2, <2>3, ToldKept, SMTT(30), Z3T(30)
  <2>5. Complete(taken)' = Complete(taken) /\ (Reading' => Reading)
    BY <2>1 DEF Complete, Reading
  <2> QED
    BY <2>1, <2>2, <2>4, <2>5 DEF StreamInv
<1>3. CASE Restart
  <2>1. /\ wire' = <<>> /\ arrived' = 0 /\ taken' = 0 /\ parsed' = 0 /\ assigned' = <<>> /\ routes' = <<>>
        /\ after' = after
    BY <1>3 DEF Restart, Goto
  <2>2. Told("assign", parsed)' = <<>> /\ Told("routes", parsed)' = <<>>
    BY <2>1 DEF Told
  <2>3. Complete(taken)' = 0
    BY <2>1, CompleteBounds DEF Complete
  <2>4. Pieces * Len(wire') = 0
    BY <2>1, ClientAssumption, SMTT(30), Z3T(30)
  <2> QED
    BY <2>1, <2>2, <2>3, <2>4 DEF StreamInv
<1>4. ASSUME NEW n \in 1 .. arrived, ChunkRead(n) PROVE StreamInv'
  <2>1. /\ n \in taken + 1 .. arrived /\ taken' = n /\ parsed' = Decodable(n)
        /\ assigned' = LastOf("assign", parsed', assigned) /\ routes' = LastOf("routes", parsed', routes)
        /\ UNCHANGED <<wire, arrived>> /\ after' \in {"plan", "close", "exit"}
    BY <1>4 DEF ChunkRead, ReadChunk, Chunk, StreamInv
  <2>2. n \in Nat /\ parsed <= Complete(n)
    <3>1. n \in Nat /\ taken \in Nat /\ taken <= n
      BY <2>1 DEF StreamInv
    <3>2. Complete(taken) <= Complete(n) /\ Complete(taken) \in Nat /\ Complete(n) \in Nat
      BY <3>1, CompleteBounds, SMTT(30), Z3T(30)
    <3> QED
      BY <3>1, <3>2, SMTT(30), Z3T(30) DEF StreamInv
  <2>3. parsed' \in Nat /\ parsed <= parsed' /\ parsed' <= Complete(n)
    BY <2>1, <2>2, DecodableBounds, SMTT(30), Z3T(30) DEF StreamInv
  <2>4. Complete(n) \in Nat /\ Complete(n) <= Len(wire) /\ Pieces * Len(wire) \in Nat
    BY <2>1, <2>2, ParsedIsWritten, SMTT(30), Z3T(30)
  <2>5. assigned' = Told("assign", parsed)' /\ routes' = Told("routes", parsed)'
    <3>1. PICK m \in Nat : m = parsed'
      BY <2>3, SMTT(30), Z3T(30)
    <3>2. LastOf("assign", m, assigned) = Told("assign", m) /\ LastOf("routes", m, routes) = Told("routes", m)
      BY <2>3, <3>1, LastIsTold, SMTT(30), Z3T(30) DEF StreamInv
    <3>3. Told("assign", m) = Told("assign", parsed)' /\ Told("routes", m) = Told("routes", parsed)'
      BY <2>1, <3>1, SMTT(30), Z3T(30) DEF Told
    <3> QED
      BY <2>1, <3>1, <3>2, <3>3, SMTT(30), Z3T(30)
  <2>6. Reading' => parsed' = Complete(n)
    BY <1>4, <2>1, <2>3, <2>4, SMTT(30), Z3T(30) DEF ChunkRead, DecodeFails
  <2>7. Complete(taken)' = Complete(n)
    BY <2>1 DEF Complete
  <2> QED
    BY <2>1, <2>2, <2>3, <2>4, <2>5, <2>6, <2>7, SMTT(30), Z3T(30) DEF StreamInv
<1> QED
  BY <1>1, <1>2, <1>3, <1>4, StreamMoves, SMTT(30), Z3T(30) DEF StreamInv

-------------------------------------------------------------------------------
(***************************************************************************)
(* The prefixes and the commands of a plan.                                *)
(***************************************************************************)

\* `prefixes_from_ranges` covers the ranges for all protocols, and no more.
LEMMA RangesCovered ==
    ASSUME NEW ranges \in Seq([lo : Addr, hi : Addr, protocol : Nat]), NEW a \in Addr
    PROVE  (\E p \in PrefixesFromRanges(ranges) : a \in p)
           <=> \E i \in DOMAIN ranges : ranges[i].protocol = 0 /\ a \in ranges[i].lo .. ranges[i].hi
<1>1. ASSUME NEW p \in PrefixesFromRanges(ranges), a \in p
      PROVE  \E i \in DOMAIN ranges : ranges[i].protocol = 0 /\ a \in ranges[i].lo .. ranges[i].hi
  <2>1. PICK i \in DOMAIN ranges : ranges[i].protocol = 0 /\ \E q \in Subnets(ranges[i]) : p \in SplitDefault(q)
    BY DEF PrefixesFromRanges
  <2>2. PICK q \in Subnets(ranges[i]) : p \in SplitDefault(q)
    BY <2>1
  <2>3. q \in Prefix /\ q \subseteq ranges[i].lo .. ranges[i].hi
    BY DEF Subnets
  <2>4. a \in q
    BY <1>1, <2>2 DEF SplitDefault
  <2> QED
    BY <2>1, <2>3, <2>4
<1>2. ASSUME NEW i \in DOMAIN ranges, ranges[i].protocol = 0, a \in ranges[i].lo .. ranges[i].hi
      PROVE  \E p \in PrefixesFromRanges(ranges) : a \in p
  <2> DEFINE r == ranges[i]
             inside == {p \in Prefix : p \subseteq r.lo .. r.hi}
             via == {p \in inside : a \in p}
             parts == {p \in Prefix \ {Addr} : a \in p}
  <2>1. {a} \in Prefix /\ {a} # Addr /\ Addr \subseteq Nat
    BY SetupAssumption
  <2>2. r.lo \in Nat /\ r.hi \in Nat /\ a \in Nat
    <3>1. \A S : \A s \in Seq(S) : \A j \in DOMAIN s : s[j] \in S
      OBVIOUS
    <3>2. ranges[i] \in [lo : Addr, hi : Addr, protocol : Nat]
      BY <3>1, Zenon
    <3>3. ranges[i].lo \in Addr /\ ranges[i].hi \in Addr
      BY <3>2
    <3> QED
      BY <2>1, <3>3, Zenon
  <2>3. r.lo <= r.hi
    BY <1>2, <2>2
  <2>4. {a} \in via /\ via \in SUBSET Prefix /\ \A p \in via : a \in p
    BY <1>2, <2>1
  <2>5. \E b \in via : \A q \in via : q \subseteq b
    <3> HIDE DEF via
    <3> QED
      BY <2>4, Largest, SMTT(30), Z3T(30)
  <2>6. PICK b \in via : \A q \in via : q \subseteq b
    BY <2>5
  <2>7. b \in Subnets(r)
    BY <2>6, Zenon DEF Subnets
  <2>8. \E p \in SplitDefault(b) : a \in p
    <3>1. CASE b # Addr
      BY <3>1 DEF SplitDefault
    <3>2. CASE b = Addr
      <4>1. {a} \in parts /\ parts \in SUBSET Prefix /\ \A p \in parts : a \in p
        BY <2>1
      <4>2. \E p \in parts : \A q \in parts : q \subseteq p
        <5> HIDE DEF parts
        <5> QED
          BY <4>1, Largest
      <4>3. PICK p \in parts : \A q \in parts : q \subseteq p
        BY <4>2
      <4>4. p \in SplitDefault(b)
        BY <3>2, <4>3, Zenon DEF SplitDefault
      <4> QED
        BY <4>3, <4>4
    <3> QED
      BY <3>1, <3>2
  <2>9. SplitDefault(b) \subseteq PrefixesFromRanges(ranges)
    BY <1>2, <2>3, <2>7 DEF PrefixesFromRanges
  <2> QED
    BY <2>8, <2>9
<1> QED
  BY <1>1, <1>2

\* Every command of a plan, and the ones that one plan asks for.
Command ==
    {AddrCmd(a) : a \in Assignable} \cup {RouteCmd(p) : p \in Prefix \ {Addr}}
        \cup {PinCmd(dev) : dev \in {"uplink", "tunnel"}}
CmdsOf(want, path) ==
    {c \in {PinCmd(path)} : want.keepOffTunnel} \cup {AddrCmd(want.addresses[i]) : i \in DOMAIN want.addresses}
        \cup {RouteCmd(p) : p \in want.routes}

\* The two kinds of commands.
LEMMA CommandKinds ==
    ASSUME NEW c \in Command
    PROVE  /\ c.kind = "addr" => c.dev = "tunnel" /\ \E a \in Assignable : c.key = {a} /\ c = AddrCmd(a)
           /\ c.kind # "addr" => c.kind = "route" /\ c.key \in Prefix \ {Addr} /\ c.dev \in {"uplink", "tunnel"}
           /\ c.dev = "uplink" => c.key = {Proxy}
<1>1. ASSUME NEW a \in Assignable, c = AddrCmd(a)
      PROVE  c.kind = "addr" /\ c.dev = "tunnel" /\ c.key = {a}
  BY <1>1 DEF AddrCmd
<1>2. CASE \E p \in Prefix \ {Addr} : c = RouteCmd(p)
  BY <1>2 DEF RouteCmd
<1>3. CASE \E dev \in {"uplink", "tunnel"} : c = PinCmd(dev)
  BY <1>3, SetupAssumption DEF PinCmd
<1> QED
  BY <1>1, <1>2, <1>3 DEF Command

\* The list u holds what the lists s and t hold together.
Joins(u, s, t) ==
    /\ \A i \in DOMAIN u : (\E j \in DOMAIN s : u[i] = s[j]) \/ \E j \in DOMAIN t : u[i] = t[j]
    /\ \A j \in DOMAIN s : \E i \in DOMAIN u : u[i] = s[j]
    /\ \A j \in DOMAIN t : \E i \in DOMAIN u : u[i] = t[j]

\* What two lists of commands hold together.
LEMMA RangeConcat ==
    ASSUME NEW S, NEW s \in Seq(S), NEW t \in Seq(S)
    PROVE  s \o t \in Seq(S) /\ Joins(s \o t, s, t)
<1>1. /\ s \o t \in Seq(S) /\ Len(s \o t) = Len(s) + Len(t) /\ Len(s) \in Nat /\ Len(t) \in Nat
      /\ DOMAIN s = 1 .. Len(s) /\ DOMAIN t = 1 .. Len(t) /\ DOMAIN (s \o t) = 1 .. Len(s) + Len(t)
  OBVIOUS
<1>2. /\ \A i \in 1 .. Len(s) : (s \o t)[i] = s[i]
      /\ \A i \in 1 .. Len(t) : (s \o t)[Len(s) + i] = t[i]
  OBVIOUS
<1>3. ASSUME NEW i \in 1 .. Len(s) + Len(t)
      PROVE  i \in 1 .. Len(s) \/ (i - Len(s) \in 1 .. Len(t) /\ i = Len(s) + (i - Len(s)))
  BY <1>1
<1>4. ASSUME NEW i \in DOMAIN (s \o t)
      PROVE  (\E j \in DOMAIN s : (s \o t)[i] = s[j]) \/ \E j \in DOMAIN t : (s \o t)[i] = t[j]
  <2>1. CASE i \in 1 .. Len(s)
    BY <1>1, <1>2, <2>1, SMTT(30), Z3T(30)
  <2>2. CASE i - Len(s) \in 1 .. Len(t) /\ i = Len(s) + (i - Len(s))
    BY <1>1, <1>2, <2>2
  <2> QED
    BY <1>1, <1>3, <2>1, <2>2, SMTT(30), Z3T(30)
<1>5. ASSUME NEW j \in DOMAIN s PROVE \E i \in DOMAIN (s \o t) : (s \o t)[i] = s[j]
  BY <1>1, <1>2
<1>6. ASSUME NEW j \in DOMAIN t PROVE \E i \in DOMAIN (s \o t) : (s \o t)[i] = t[j]
  <2>1. Len(s) + j \in DOMAIN (s \o t) /\ (s \o t)[Len(s) + j] = t[j]
    BY <1>1, <1>2
  <2> QED
    BY <2>1
<1> QED
  BY <1>1, <1>4, <1>5, <1>6, SMTT(30), Z3T(30) DEF Joins

\* prefixes_from_ranges never returns the default route.
LEMMA WantedRoutes ==
    ASSUME NEW ranges
    PROVE  PrefixesFromRanges(ranges) \subseteq Prefix \ {Addr}
<1>1. \A p \in Prefix : SplitDefault(p) \subseteq Prefix \ {Addr}
  BY DEF SplitDefault
<1>2. \A r : Subnets(r) \subseteq Prefix
  BY DEF Subnets
<1> QED
  BY <1>1, <1>2 DEF PrefixesFromRanges

\* The sorted prefixes are a sequence of them all.
LEMMA SortedIsAll ==
    ASSUME NEW R \in SUBSET Prefix, NEW s \in Sorted(R)
    PROVE  s \in Seq(R) /\ \A p \in R : \E i \in DOMAIN s : s[i] = p
<1>1. IsFiniteSet(SUBSET Addr) /\ R \in SUBSET SUBSET Addr
  BY SetupAssumption, FS_SUBSET
<1>2. IsFiniteSet(R)
  BY <1>1, FS_Subset
<1>3. Cardinality(R) \in Nat
  BY <1>2, FS_CardinalityType
<1>4. s \in [1 .. Cardinality(R) -> R] /\ \A p \in R : \E i \in DOMAIN s : s[i] = p
  BY Zenon DEF Sorted
<1> QED
  BY <1>3, <1>4

\* The list cmds realizes a plan.
Realizes(cmds, want, path) ==
    /\ cmds \in Seq(Command)
    /\ \A i \in DOMAIN cmds : cmds[i] \in CmdsOf(want, path)
    /\ \A c \in CmdsOf(want, path) : \E i \in DOMAIN cmds : cmds[i] = c
    /\ want.keepOffTunnel => cmds # <<>> /\ cmds[1] = PinCmd(path)

\* `commands`: the pin first, and exactly what was asked for.
LEMMA CommandsAre ==
    ASSUME NEW want, want.addresses \in Seq(Assignable), want.routes \in SUBSET (Prefix \ {Addr}),
           NEW path, want.keepOffTunnel => path \in {"uplink", "tunnel"}, NEW sorted \in Sorted(want.routes)
    PROVE  Realizes(Commands(want, path, sorted), want, path)
<1> DEFINE pin == IF want.keepOffTunnel THEN <<PinCmd(path)>> ELSE <<>>
           addrs == AddrCmds(want.addresses)
           nets == RouteCmds(sorted)
<1>1. /\ pin \in Seq(Command) /\ (want.keepOffTunnel => Len(pin) = 1 /\ pin[1] = PinCmd(path))
      /\ \A i \in DOMAIN pin : want.keepOffTunnel /\ i = 1
  <2>1. CASE want.keepOffTunnel
    <3>1. PinCmd(path) \in Command
      BY <2>1 DEF Command
    <3> QED
      BY <2>1, <3>1
  <2>2. CASE ~want.keepOffTunnel
    BY <2>2
  <2> QED
    BY <2>1, <2>2
<1>2. /\ addrs \in Seq(Command) /\ DOMAIN addrs = DOMAIN want.addresses
      /\ \A i \in DOMAIN want.addresses : addrs[i] = AddrCmd(want.addresses[i])
  <2>1. \A i \in DOMAIN want.addresses : AddrCmd(want.addresses[i]) \in Command
    BY DEF Command
  <2>2. DOMAIN want.addresses = 1 .. Len(want.addresses) /\ Len(want.addresses) \in Nat
    OBVIOUS
  <2> QED
    BY <2>1, <2>2 DEF AddrCmds
<1>3. sorted \in Seq(want.routes) /\ \A p \in want.routes : \E i \in DOMAIN sorted : sorted[i] = p
  <2>1. want.routes \in SUBSET Prefix
    OBVIOUS
  <2> QED
    BY <2>1, SortedIsAll
<1>4. /\ nets \in Seq(Command) /\ DOMAIN nets = DOMAIN sorted
      /\ \A i \in DOMAIN sorted : nets[i] = RouteCmd(sorted[i]) /\ sorted[i] \in want.routes
  <2>1. \A i \in DOMAIN sorted : RouteCmd(sorted[i]) \in Command /\ sorted[i] \in want.routes
    BY <1>3 DEF Command
  <2>2. DOMAIN sorted = 1 .. Len(sorted) /\ Len(sorted) \in Nat
    BY <1>3
  <2> QED
    BY <2>1, <2>2 DEF RouteCmds
<1> DEFINE first == pin \o addrs
           cmds == first \o nets
<1>5. Commands(want, path, sorted) = cmds
  BY DEF Commands
<1> HIDE DEF pin, addrs, nets
<1>6. first \in Seq(Command) /\ Joins(first, pin, addrs)
  BY <1>1, <1>2, RangeConcat
<1>7. Len(pin) = 1 => first # <<>> /\ first[1] = pin[1]
  BY <1>1, <1>2
<1> HIDE DEF first
<1>8. cmds \in Seq(Command) /\ Joins(cmds, first, nets)
  BY <1>4, <1>6, RangeConcat
<1>9. first # <<>> => cmds # <<>> /\ cmds[1] = first[1]
  BY <1>4, <1>6
<1> HIDE DEF cmds
<1> DEFINE P == {c \in {PinCmd(path)} : want.keepOffTunnel}
           A == {AddrCmd(want.addresses[i]) : i \in DOMAIN want.addresses}
           N == {RouteCmd(p) : p \in want.routes}
<1>10. ASSUME NEW i \in DOMAIN cmds PROVE cmds[i] \in P \cup A \cup N
  <2>1. \A j \in DOMAIN pin : pin[j] \in P
    BY <1>1
  <2>2. \A j \in DOMAIN addrs : addrs[j] \in A
    BY <1>2
  <2>3. \A j \in DOMAIN nets : nets[j] \in N
    BY <1>4
  <2> HIDE DEF P, A, N
  <2>4. ASSUME NEW j \in DOMAIN first PROVE first[j] \in P \cup A
    <3>1. (\E k \in DOMAIN pin : first[j] = pin[k]) \/ \E k \in DOMAIN addrs : first[j] = addrs[k]
      BY <1>6, Zenon DEF Joins
    <3> QED
      BY <2>1, <2>2, <3>1, Zenon
  <2>5. (\E j \in DOMAIN first : cmds[i] = first[j]) \/ \E j \in DOMAIN nets : cmds[i] = nets[j]
    BY <1>8, Zenon DEF Joins
  <2> QED
    BY <2>3, <2>4, <2>5, Zenon
<1>11. ASSUME NEW c \in P \cup A \cup N PROVE \E i \in DOMAIN cmds : cmds[i] = c
  <2>1. CASE c \in P
    <3>1. 1 \in DOMAIN pin /\ pin[1] = c
      BY <1>1, <2>1, SMTT(30), Z3T(30)
    <3> QED
      BY <1>6, <1>8, <3>1, SMTT(30), Z3T(30) DEF Joins
  <2>2. CASE c \in A
    <3>1. \E j \in DOMAIN addrs : addrs[j] = c
      BY <1>2, <2>2, SMTT(30), Z3T(30)
    <3> QED
      BY <1>6, <1>8, <3>1, SMTT(30), Z3T(30) DEF Joins
  <2>3. CASE c \in N
    <3>1. \E j \in DOMAIN nets : nets[j] = c
      BY <1>3, <1>4, <2>3, SMTT(30), Z3T(30)
    <3> QED
      BY <1>8, <3>1 DEF Joins
  <2> QED
    BY <2>1, <2>2, <2>3, SMTT(30), Z3T(30)
<1>12. want.keepOffTunnel => cmds # <<>> /\ cmds[1] = PinCmd(path)
  BY <1>1, <1>7, <1>9
<1>13. CmdsOf(want, path) = P \cup A \cup N
  BY Zenon DEF CmdsOf
<1> HIDE DEF P, A, N
<1> QED
  BY <1>5, <1>8, <1>10, <1>11, <1>12, <1>13, SMTT(30), Z3T(30) DEF Realizes
================================================================================
