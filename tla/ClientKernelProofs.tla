-------------------------- MODULE ClientKernelProofs ---------------------------
(***************************************************************************)
(* What a client of a tunnel does to the kernel: the commands of a plan, the *)
(* list that undoes them, and the crashes and restarts in between.         *)
(***************************************************************************)
EXTENDS ClientStreamProofs

-------------------------------------------------------------------------------
(***************************************************************************)
(* The kernel and the commands.                                            *)
(***************************************************************************)
Label ==
    {"connect", "request", "await", "ready", "plan", "run", "select", "undo", "close", "exit", "done", "dead",
     "ping", "wait", "reply"}
Device == {"none", "uplink", "tunnel"}

\* The types of the setup, and where in the program there are commands to run or to undo.
SetupTypes ==
    /\ option \in Option
    /\ pc \in Label
    /\ after \in {"plan", "close", "exit"}
    /\ kernelRoutes \in [Prefix -> Device] /\ before \in [Prefix -> Device] /\ kernelAddrs \subseteq Assignable
    /\ todo \in Seq(Command) /\ undo \in Seq(Command)
    /\ todo # <<>> => pc = "run"
    /\ undo # <<>> => pc \in {"run", "select", "undo"}

\* Whether a host route keeps the proxy off the tunnel.
Pins == option.pin /\ option.installRoutes

\* A kernel without a tunnel: the default route, and the pin that a killed process left.
Pristine(table) ==
    /\ table[Addr] = "uplink"
    /\ \A p \in Prefix \ {Addr} : table[p] # "none" => table[p] = "uplink" /\ p = {Proxy} /\ Pins

\* The undo list tells, one by one, how the kernel differs from the one before.
Effects ==
    /\ \A i \in DOMAIN undo : undo[i].kind = "route" =>
         before[undo[i].key] = "none" /\ kernelRoutes[undo[i].key] = undo[i].dev
    /\ \A p \in Prefix : (\A i \in DOMAIN undo : undo[i].kind = "route" => undo[i].key # p) =>
         kernelRoutes[p] = before[p]
    /\ \A i \in DOMAIN undo : undo[i].kind = "addr" => undo[i].key \subseteq kernelAddrs
    /\ \A a \in kernelAddrs : \E i \in DOMAIN undo : undo[i] = AddrCmd(a)
    /\ \A i, j \in DOMAIN undo : i # j => undo[i].kind # undo[j].kind \/ undo[i].key # undo[j].key

\* A command routes to the tunnel only on request, and elsewhere only as a pin.
Justified(cmds) ==
    \A i \in DOMAIN cmds : cmds[i].kind = "route" =>
        IF cmds[i].dev = "tunnel" THEN option.installRoutes ELSE Pins

\* The pin is the first command to be run and the last to be undone.
PinFirst ==
    /\ Justified(todo) /\ Justified(undo)
    /\ Pins /\ undo # <<>> => undo[1] = PinCmd("uplink")
    /\ Pins /\ undo = <<>> /\ pc = "run" => todo # <<>> /\ todo[1] = PinCmd("uplink")

\* The plan for the state of the tunnel, and the commands that it asks for.
Wanted == Plan(assigned, routes, option.pin, option.installRoutes)
WantedCmds == CmdsOf(Wanted, "uplink")

\* What was run and what is still to be run is what is wanted.
Complying ==
    /\ \A i \in DOMAIN undo : undo[i] \in WantedCmds
    /\ \A i \in DOMAIN todo : todo[i] \in WantedCmds
    /\ \A c \in WantedCmds : (\E i \in DOMAIN undo : undo[i] = c) \/ (\E i \in DOMAIN todo : todo[i] = c)

\* The inductive invariant of the setup, as long as no command of an undo list fails.
KernelInv ==
    /\ SetupTypes
    /\ "undo" \notin faults =>
         /\ Pristine(before)
         /\ IF pc = "dead" THEN Pristine(kernelRoutes) /\ kernelAddrs = {} ELSE Effects
         /\ PinFirst
         /\ pc \in {"run", "select"} => Complying

\* A step that leaves the kernel, the commands and what they are for alone.
Quiet ==
    /\ UNCHANGED <<kernelRoutes, kernelAddrs, todo, undo, before, option>>
    /\ pc' \in Label /\ after' \in {"plan", "close", "exit"}
    /\ "undo" \in faults => "undo" \in faults'
    /\ pc' = "dead" <=> pc = "dead"
    /\ pc' = "run" => pc = "run"
    /\ pc' \in {"run", "select"} => pc \in {"run", "select"} /\ UNCHANGED <<assigned, routes>>
    /\ todo = <<>> \/ (pc = "run" => pc' = "run")
    /\ undo = <<>> \/ (pc \in {"run", "select", "undo"} => pc' \in {"run", "select", "undo"})

\* Such a step keeps the invariant.
LEMMA QuietKeeps ==
    ASSUME KernelInv, Quiet
    PROVE  KernelInv'
<1>1. /\ UNCHANGED <<kernelRoutes, kernelAddrs, todo, undo, before, option>>
      /\ "undo" \notin faults' => "undo" \notin faults
      /\ pc' = "dead" <=> pc = "dead"
      /\ pc' = "run" => pc = "run"
      /\ pc' \in {"run", "select"} => pc \in {"run", "select"} /\ UNCHANGED <<assigned, routes>>
  BY Zenon DEF Quiet
<1>2. SetupTypes'
  BY DEF KernelInv, SetupTypes, Quiet
<1>3. (Pristine(before) => Pristine(before)') /\ (Pristine(kernelRoutes) => Pristine(kernelRoutes)')
  BY <1>1, Zenon DEF Pristine, Pins
<1>4. Effects => Effects'
  BY <1>1, ZenonT(60) DEF Effects
<1>5. PinFirst => PinFirst'
  <2>1. (Justified(todo) => Justified(todo)') /\ (Justified(undo) => Justified(undo)')
    BY <1>1, Zenon DEF Justified, Pins
  <2> QED
    BY <1>1, <2>1, Zenon DEF PinFirst, Pins
<1>6. Complying /\ UNCHANGED <<assigned, routes>> => Complying'
  <2> SUFFICES ASSUME Complying, UNCHANGED <<assigned, routes>> PROVE Complying'
    OBVIOUS
  <2>1. WantedCmds' = WantedCmds
    BY <1>1, Zenon DEF WantedCmds, Wanted
  <2> QED
    BY <1>1, <2>1, Zenon DEF Complying
<1> QED
  BY <1>1, <1>2, <1>3, <1>4, <1>5, <1>6, ZenonT(60) DEF KernelInv

\* A capsule that does not reconfigure leaves the addresses and the routes as they were.
LEMMA NotReconfigured ==
    ASSUME NEW n, ReadChunk(n), ~Reconfigures(Seen(n))
    PROVE  UNCHANGED <<assigned, routes>>
<1>1. \A i \in parsed + 1 .. Decodable(n) : wire[i].type \notin {"assign", "routes"}
  BY DEF Reconfigures, Seen
<1>2. /\ {i \in parsed + 1 .. Decodable(n) : wire[i].type = "assign"} = {}
      /\ {i \in parsed + 1 .. Decodable(n) : wire[i].type = "routes"} = {}
  BY <1>1
<1>3. LastOf("assign", Decodable(n), assigned) = assigned /\ LastOf("routes", Decodable(n), routes) = routes
  BY <1>2, Zenon DEF LastOf
<1> QED
  BY <1>3, Zenon DEF ReadChunk

\* The steps, as far as the setup is concerned.
LEMMA SetupMoves ==
    ASSUME SetupTypes, [Next]_vars
    PROVE  \/ Quiet \/ Apply \/ Exit \/ Crash \/ Restart
           \/ pc = "run" /\ RunNext /\ UNCHANGED <<option, pc, after, before, assigned, routes>>
           \/ pc = "run" /\ RunFails /\ DropGuard("exit") /\ UNCHANGED before
           \/ pc = "undo" /\ UndoLast /\ UNCHANGED <<option, pc, after, before>>
<1> DEFINE Same == UNCHANGED <<kernelRoutes, kernelAddrs, todo, undo, before, option, faults>>
           Alone == UNCHANGED <<kernelRoutes, kernelAddrs, todo, undo, before, option, after>>
<1>1. CASE Connect \/ Establish \/ Rejected \/ DeviceUp \/ SetupFails \/ SendFails \/ RecvFails \/ SendPing \/ Deadline \/ PingDone
           \/ RequestAddress \/ CloseClient
  <2>1. Alone
    BY <1>1, Zenon
    DEF Connect, Establish, Rejected, DeviceUp, SetupFails, SendFails, RecvFails, SendPing, Deadline, PingDone, RequestAddress,
        CloseClient, Goto, setup, kernel, process
  <2>2. "undo" \in faults => "undo" \in faults'
    BY <1>1, Zenon
    DEF Connect, Establish, Rejected, DeviceUp, SetupFails, SendFails, RecvFails, SendPing, Deadline, PingDone, RequestAddress,
        CloseClient, Fault, setup
  <2>3. /\ pc \in {"connect", "request", "ready", "plan", "ping", "wait", "close"}
        /\ pc' \in {"request", "await", "exit", "plan", "wait", "ping", "close", "reply"}
    BY <1>1, Zenon
    DEF Connect, Establish, Rejected, DeviceUp, SetupFails, SendFails, RecvFails, SendPing, Deadline, PingDone, RequestAddress,
        CloseClient, Goto
  <2> QED
    BY <2>1, <2>2, <2>3 DEF Quiet, Label, SetupTypes
<1>2. CASE Configured
  <2>1. Same /\ UNCHANGED <<assigned, routes, after>> /\ pc = "run" /\ pc' = "select" /\ todo = <<>>
    BY <1>2, Zenon DEF Configured, Goto, setup, kernel, process, tunnel
  <2> QED
    BY <2>1 DEF Quiet, Label, SetupTypes
<1>3. CASE \E n \in 1 .. arrived : Await(n) \/ Reply(n)
  <2>1. Same /\ UNCHANGED after
    BY <1>3, Zenon DEF Await, Reply, Goto, setup, kernel, process
  <2>2. pc \in {"await", "reply"} /\ pc' \in {"exit", "ready", "await", "close", "reply"}
    BY <1>3, Zenon DEF Await, Reply, Goto
  <2> QED
    BY <2>1, <2>2 DEF Quiet, Label, SetupTypes
<1>4. CASE \E n \in 1 .. arrived : Capsules(n)
  <2>1. PICK n \in 1 .. arrived : Capsules(n)
    BY <1>4
  <2>2. Same /\ pc = "select"
    BY <2>1, Zenon DEF Capsules, DropGuard, setup, kernel, program
  <2>3. \/ pc' = "undo" /\ after' \in {"plan", "close", "exit"}
        \/ UNCHANGED <<pc, after, assigned, routes>>
    BY <2>1, StoppedType, NotReconfigured, Zenon DEF Capsules, DropGuard, program
  <2> QED
    BY <2>2, <2>3 DEF Quiet, Label, SetupTypes
<1>5. CASE StreamEnds \/ Terminate
  <2>1. Same
    BY <1>5, Zenon DEF StreamEnds, Terminate, DropGuard, Goto, setup, kernel
  <2>2. \/ pc = "select" /\ pc' = "undo" /\ after' \in {"close", "exit"}
        \/ pc \in {"await", "reply"} /\ pc' = "exit" /\ after' = after
    BY <1>5, StoppedType, Zenon DEF StreamEnds, Terminate, Reads, DropGuard, Goto
  <2> QED
    BY <2>1, <2>2 DEF Quiet, Label, SetupTypes
<1>6. CASE Undo
  <2>1. UNCHANGED before /\ pc = "undo"
    BY <1>6, Zenon DEF Undo, process
  <2>2. CASE UndoLast /\ UNCHANGED program
    BY <2>1, <2>2, Zenon DEF program
  <2>3. CASE undo = <<>> /\ pc' = after /\ after' = "exit" /\ UNCHANGED <<option, setup>>
    <3>1. Same
      BY <2>1, <2>3, Zenon DEF setup, kernel
    <3> QED
      BY <2>1, <2>3, <3>1 DEF Quiet, Label, SetupTypes
  <2> QED
    BY <1>6, <2>2, <2>3, ZenonT(60) DEF Undo
<1>7. CASE Run
  BY <1>7, Zenon DEF Run, program, process, tunnel
<1>8. CASE RecvEcho
  <2>1. Same /\ UNCHANGED after
    BY <1>8, Zenon DEF RecvEcho, Goto, program, setup, kernel, process
  <2>2. pc = "wait" /\ pc' \in {"wait", "ping", "exit"}
    BY <1>8, ZenonT(60) DEF RecvEcho, Goto, program
  <2> QED
    BY <2>1, <2>2 DEF Quiet, Label, SetupTypes
<1>9. CASE Proxying \/ Deliver \/ Signal \/ UNCHANGED vars \/ (\E m \in Mtu : MtuTick(m))
           \/ Stray \/ Garbage \/ (\E n \in 1 .. Pings, kind \in {"echo", "error"} : Answer(n, kind))
  <2>1. Same /\ UNCHANGED <<pc, after, assigned, routes>>
    BY <1>9, Zenon DEF Proxying, Deliver, Signal, vars, MtuTick, Stray, Garbage, Answer, program, setup, kernel, process, tunnel
  <2> QED
    BY <2>1 DEF Quiet, SetupTypes
<1> QED
  BY <1>1, <1>2, <1>3, <1>4, <1>5, <1>6, <1>7, <1>8, <1>9, Zenon DEF Next, Task

\* Without a tunnel every address is reached by the uplink.
LEMMA PristinePath ==
    ASSUME Pristine(kernelRoutes), NEW a \in Addr
    PROVE  PathTo(a) = "uplink"
<1>1. PICK b \in Prefix : kernelRoutes[b] # "none" /\ PathTo(a) = kernelRoutes[b]
  BY PathExists DEF Pristine
<1> QED
  BY <1>1 DEF Pristine

\* `ip route get` answers with a device, or with none.
LEMMA PathType ==
    ASSUME SetupTypes, NEW a
    PROVE  PathTo(a) \in Device
<1> DEFINE via == {p \in Prefix : a \in p /\ kernelRoutes[p] # "none"}
           best == {p \in via : \A q \in via : p \subseteq q}
<1>1. PathTo(a) = IF best = {} THEN "none" ELSE kernelRoutes[CHOOSE p \in best : TRUE]
  BY DEF PathTo
<1>2. best \subseteq Prefix
  OBVIOUS
<1> HIDE DEF via, best
<1>3. best # {} => (CHOOSE p \in best : TRUE) \in Prefix
  BY <1>2
<1>4. \A p \in Prefix : kernelRoutes[p] \in Device
  BY DEF SetupTypes
<1>5. "none" \in Device
  BY DEF Device
<1> QED
  BY <1>1, <1>3, <1>4, <1>5, SMTT(30), Z3T(30)

\* With an empty undo list the kernel is as it was.
LEMMA NothingToUndo ==
    ASSUME SetupTypes, Effects, undo = <<>>
    PROVE  (\A p \in Prefix : kernelRoutes[p] = before[p]) /\ kernelRoutes = before /\ kernelAddrs = {}
<1>1. DOMAIN undo = {}
  OBVIOUS
<1>2. (\A p \in Prefix : kernelRoutes[p] = before[p]) /\ kernelAddrs = {}
  BY <1>1, Zenon DEF Effects
<1> QED
  BY <1>2 DEF SetupTypes

\* `realize` starts: the commands are those that are wanted, and the pin is the first.
LEMMA ApplyStep ==
    ASSUME KernelInv, assigned \in Seq(Assignable), Apply
    PROVE  KernelInv'
<1>1. /\ pc = "plan" /\ pc' = "run" /\ UNCHANGED <<option, after, before, assigned, routes>>
      /\ UNCHANGED <<kernelRoutes, kernelAddrs, undo, faults>>
  BY Zenon DEF Apply, Goto, Realize, kernel, process, tunnel
<1>2. undo = <<>> /\ todo = <<>> /\ SetupTypes
  BY <1>1 DEF KernelInv, SetupTypes
<1>3. /\ Wanted.addresses = assigned /\ Wanted.keepOffTunnel = (option.installRoutes /\ option.pin)
      /\ Wanted.routes \in SUBSET (Prefix \ {Addr}) /\ (Wanted.routes # {} => option.installRoutes)
  BY WantedRoutes DEF Wanted, Plan
<1>4. PICK sorted \in Sorted(Wanted.routes) : todo' = Commands(Wanted, PathTo(Proxy), sorted)
  BY DEF Apply, Realize, Wanted
<1>5. Wanted.keepOffTunnel => PathTo(Proxy) \in {"uplink", "tunnel"}
  BY <1>2, PathType, SMTT(30), Z3T(30) DEF Apply, Realize, Wanted, Device
<1>6. Realizes(todo', Wanted, PathTo(Proxy))
  BY <1>3, <1>4, <1>5, CommandsAre, SMTT(30), Z3T(30)
<1>7. SetupTypes'
  BY <1>1, <1>2, <1>6, SMTT(30), Z3T(30) DEF SetupTypes, Label, Realizes
<1>8. ASSUME "undo" \notin faults'
      PROVE  Pristine(before)' /\ Effects' /\ PinFirst' /\ Complying'
  <2>1. Pristine(before) /\ Effects
    BY <1>1, <1>8 DEF KernelInv
  <2>2. Pristine(before)' /\ Effects'
    <3>1. Pristine(before)'
      BY <1>1, <2>1, SMTT(30), Z3T(30) DEF Pristine, Pins
    <3>2. Effects'
      BY <1>1, <2>1, SMTT(30), Z3T(30) DEF Effects
    <3> QED
      BY <3>1, <3>2, SMTT(30), Z3T(30)
  <2>3. PathTo(Proxy) = "uplink"
    BY <1>2, <2>1, NothingToUndo, PristinePath, SetupAssumption
  <2>4. WantedCmds = CmdsOf(Wanted, PathTo(Proxy)) /\ WantedCmds' = WantedCmds
    BY <1>1, <2>3, Zenon DEF WantedCmds, Wanted
  <2>5. Complying'
    BY <1>1, <1>2, <1>6, <2>4, SMTT(30), Z3T(30) DEF Complying, Realizes
  <2>6. Justified(todo)'
    <3> SUFFICES ASSUME NEW i \in DOMAIN todo', todo'[i].kind = "route"
                 PROVE  IF todo'[i].dev = "tunnel" THEN option'.installRoutes ELSE Pins'
      BY DEF Justified
    <3>1. todo'[i] \in WantedCmds
      BY <1>6, <2>4 DEF Realizes
    <3>2. CASE todo'[i] = PinCmd("uplink") /\ Wanted.keepOffTunnel
      BY <1>1, <1>3, <3>2, ZenonT(60) DEF PinCmd, Pins
    <3>3. CASE \E j \in DOMAIN assigned : todo'[i] = AddrCmd(assigned[j])
      BY <3>3, SMTT(30), Z3T(30) DEF AddrCmd
    <3>4. CASE \E p \in Wanted.routes : todo'[i] = RouteCmd(p)
      BY <1>1, <1>3, <3>4 DEF RouteCmd
    <3> QED
      BY <1>3, <3>1, <3>2, <3>3, <3>4, SMTT(30), Z3T(30) DEF WantedCmds, CmdsOf
  <2>7. Justified(undo)'
    BY <1>1, <1>2 DEF Justified
  <2>8. PinFirst'
    BY <1>1, <1>2, <1>3, <1>6, <2>3, <2>6, <2>7, ZenonT(60) DEF PinFirst, Pins, Realizes
  <2> QED
    BY <2>2, <2>5, <2>8, SMTT(30), Z3T(30)
<1> QED
  BY <1>1, <1>7, <1>8 DEF KernelInv

\* `realize` runs a command, and the undo list grows by it.
LEMMA RunNextStep ==
    ASSUME KernelInv, pc = "run", RunNext, UNCHANGED <<option, pc, after, before, assigned, routes>>
    PROVE  KernelInv'
<1> DEFINE h == Head(todo)
           n == Len(undo)
<1>1. /\ todo # <<>> /\ ~Exists(h) /\ Put(h, h.dev) /\ undo' = Append(undo, h) /\ todo' = Tail(todo)
      /\ UNCHANGED faults
  BY DEF RunNext
<1>2. SetupTypes /\ todo \in Seq(Command) /\ undo \in Seq(Command)
  BY DEF KernelInv, SetupTypes
<1>3. /\ h \in Command /\ h = todo[1] /\ Tail(todo) \in Seq(Command) /\ 1 \in DOMAIN todo
      /\ \A i \in DOMAIN Tail(todo) : i + 1 \in DOMAIN todo /\ Tail(todo)[i] = todo[i + 1]
      /\ \A i \in DOMAIN todo : i = 1 \/ (i - 1 \in DOMAIN Tail(todo) /\ Tail(todo)[i - 1] = todo[i])
  BY <1>1, <1>2, SMTT(30), Z3T(30)
<1>4. /\ undo' \in Seq(Command) /\ DOMAIN undo' = DOMAIN undo \cup {n + 1} /\ n + 1 \notin DOMAIN undo
      /\ undo'[n + 1] = h /\ \A i \in DOMAIN undo : undo'[i] = undo[i]
  BY <1>1, <1>2, <1>3, SMTT(30), Z3T(30)
<1>5. undo' # <<>> /\ (undo # <<>> => undo'[1] = undo[1]) /\ (undo = <<>> => undo'[1] = h)
  BY <1>2, <1>4, SMTT(30), Z3T(30)
<1> HIDE DEF h, n
<1>6. \/ /\ h.kind = "addr" /\ kernelRoutes' = kernelRoutes /\ kernelAddrs' = kernelAddrs \cup h.key
         /\ ~(h.key \subseteq kernelAddrs)
         /\ \E a \in Assignable : h.key = {a} /\ h = AddrCmd(a)
      \/ /\ h.kind = "route" /\ kernelAddrs' = kernelAddrs /\ kernelRoutes' = [kernelRoutes EXCEPT ![h.key] = h.dev]
         /\ kernelRoutes[h.key] = "none" /\ h.key \in Prefix /\ h.dev \in {"uplink", "tunnel"}
  BY <1>1, <1>3, CommandKinds, SMTT(30), Z3T(30) DEF Put, Exists
<1>7. SetupTypes'
  <2>1. kernelRoutes' \in [Prefix -> Device] /\ kernelAddrs' \subseteq Assignable
    BY <1>2, <1>6, SMTT(30), Z3T(30) DEF SetupTypes, Device
  <2> QED
    BY <1>1, <1>2, <1>3, <1>4, <2>1, SMTT(30), Z3T(30) DEF SetupTypes
<1>8. ASSUME "undo" \notin faults
      PROVE  Pristine(before)' /\ Effects' /\ PinFirst' /\ Complying'
  <2>1. Pristine(before) /\ Effects /\ PinFirst /\ Complying
    BY <1>8, SMTT(30), Z3T(30) DEF KernelInv
  <2>2. Pristine(before)'
    BY <2>1, SMTT(30), Z3T(30) DEF Pristine, Pins
  <2>3. Effects'
    <3>1. CASE h.kind = "route"
      <4>1. \A i \in DOMAIN undo : undo[i].kind = "route" => undo[i].key # h.key
        <5> SUFFICES ASSUME NEW i \in DOMAIN undo, undo[i].kind = "route", undo[i].key = h.key PROVE FALSE
          OBVIOUS
        <5>1. undo[i] \in Command
          BY <1>2, SMTT(30), Z3T(30)
        <5>2. undo[i].dev # "none"
          BY <5>1, CommandKinds, SMTT(30), Z3T(30)
        <5> QED
          BY <1>6, <2>1, <3>1, <5>2, SMTT(30), Z3T(30) DEF Effects
      <4>2. before[h.key] = "none"
        BY <1>6, <2>1, <3>1, <4>1, SMTT(30), Z3T(30) DEF Effects
      <4>3. /\ kernelAddrs' = kernelAddrs /\ kernelRoutes'[h.key] = h.dev
            /\ \A p \in Prefix : p # h.key => kernelRoutes'[p] = kernelRoutes[p]
        BY <1>2, <1>6, <3>1, SMTT(30), Z3T(30) DEF SetupTypes
      <4>4. \A i \in DOMAIN undo : undo[i].kind = "route" => undo[i].key \in Prefix
        BY <1>2, CommandKinds, SMTT(30), Z3T(30)
      <4>5. \A i \in DOMAIN undo' : undo'[i].kind = "route" =>
              before'[undo'[i].key] = "none" /\ kernelRoutes'[undo'[i].key] = undo'[i].dev
        BY <1>4, <2>1, <4>1, <4>2, <4>3, <4>4, SMTT(30), Z3T(30) DEF Effects
      <4>6. \A p \in Prefix : (\A i \in DOMAIN undo' : undo'[i].kind = "route" => undo'[i].key # p) =>
              kernelRoutes'[p] = before'[p]
        BY <1>4, <2>1, <3>1, <4>3, SMTT(30), Z3T(30) DEF Effects
      <4>7. /\ \A i \in DOMAIN undo' : undo'[i].kind = "addr" => undo'[i].key \subseteq kernelAddrs'
            /\ \A a \in kernelAddrs' : \E i \in DOMAIN undo' : undo'[i] = AddrCmd(a)
        BY <1>4, <2>1, <3>1, <4>3, SMTT(30), Z3T(30) DEF Effects
      <4>8. \A i, j \in DOMAIN undo' : i # j => undo'[i].kind # undo'[j].kind \/ undo'[i].key # undo'[j].key
        BY <1>4, <2>1, <3>1, <4>1, SMTT(30), Z3T(30) DEF Effects
      <4> QED
        BY <4>5, <4>6, <4>7, <4>8, ZenonT(60) DEF Effects
    <3>2. CASE h.kind = "addr"
      <4>1. PICK a \in Assignable : h.key = {a} /\ h = AddrCmd(a) /\ a \notin kernelAddrs
        BY <1>6, <3>2, SMTT(30), Z3T(30)
      <4>2. kernelRoutes' = kernelRoutes /\ kernelAddrs' = kernelAddrs \cup {a}
        BY <1>6, <3>2, <4>1, SMTT(30), Z3T(30)
      <4>3. \A i \in DOMAIN undo : undo[i].kind = "addr" => undo[i].key # h.key
        BY <2>1, <4>1, SMTT(30), Z3T(30) DEF Effects
      <4>4. /\ \A i \in DOMAIN undo' : undo'[i].kind = "route" =>
                 before'[undo'[i].key] = "none" /\ kernelRoutes'[undo'[i].key] = undo'[i].dev
            /\ \A p \in Prefix : (\A i \in DOMAIN undo' : undo'[i].kind = "route" => undo'[i].key # p) =>
                 kernelRoutes'[p] = before'[p]
        BY <1>4, <2>1, <3>2, <4>2, SMTT(30), Z3T(30) DEF Effects
      <4>5. /\ \A i \in DOMAIN undo' : undo'[i].kind = "addr" => undo'[i].key \subseteq kernelAddrs'
            /\ \A b \in kernelAddrs' : \E i \in DOMAIN undo' : undo'[i] = AddrCmd(b)
        BY <1>4, <2>1, <4>1, <4>2, SMTT(30), Z3T(30) DEF Effects
      <4>6. \A i, j \in DOMAIN undo' : i # j => undo'[i].kind # undo'[j].kind \/ undo'[i].key # undo'[j].key
        BY <1>4, <2>1, <3>2, <4>3, SMTT(30), Z3T(30) DEF Effects
      <4> QED
        BY <4>4, <4>5, <4>6, ZenonT(60) DEF Effects
    <3> QED
      BY <1>6, <3>1, <3>2, SMTT(30), Z3T(30)
  <2>4. PinFirst'
    <3>1. Justified(todo)' /\ Justified(undo)'
      BY <1>1, <1>3, <1>4, <2>1, SMTT(30), Z3T(30) DEF PinFirst, Justified, Pins
    <3> QED
      BY <1>3, <1>5, <2>1, <3>1, SMTT(30), Z3T(30) DEF PinFirst, Pins
  <2>5. Complying'
    <3>1. WantedCmds' = WantedCmds
      BY ZenonT(60) DEF WantedCmds, Wanted
    <3>2. /\ \A i \in DOMAIN undo' : undo'[i] \in WantedCmds
          /\ \A i \in DOMAIN todo' : todo'[i] \in WantedCmds
      BY <1>1, <1>3, <1>4, <2>1, SMTT(30), Z3T(30) DEF Complying
    <3>3. ASSUME NEW c \in WantedCmds
          PROVE  (\E i \in DOMAIN undo' : undo'[i] = c) \/ (\E i \in DOMAIN todo' : todo'[i] = c)
      <4>1. CASE \E i \in DOMAIN undo : undo[i] = c
        BY <1>4, <4>1, SMTT(30), Z3T(30)
      <4>2. ASSUME NEW i \in DOMAIN todo, todo[i] = c
            PROVE  (\E j \in DOMAIN undo' : undo'[j] = c) \/ (\E j \in DOMAIN todo' : todo'[j] = c)
        <5>1. CASE i = 1
          BY <1>3, <1>4, <4>2, <5>1, SMTT(30), Z3T(30)
        <5>2. CASE i - 1 \in DOMAIN todo' /\ todo'[i - 1] = todo[i]
          BY <4>2, <5>2, SMTT(30), Z3T(30)
        <5> QED
          BY <1>1, <1>3, <5>1, <5>2, SMTT(30), Z3T(30)
      <4> QED
        BY <2>1, <4>1, <4>2, SMTT(30), Z3T(30) DEF Complying
    <3> QED
      BY <3>1, <3>2, <3>3, ZenonT(60) DEF Complying
  <2> QED
    BY <2>2, <2>3, <2>4, <2>5, SMTT(30), Z3T(30)
<1> QED
  BY <1>1, <1>7, <1>8, SMTT(30), Z3T(30) DEF KernelInv

\* A command fails, and the guard is dropped.
LEMMA RunFailsStep ==
    ASSUME KernelInv, pc = "run", RunFails, DropGuard("exit"), UNCHANGED before
    PROVE  KernelInv'
<1>1. /\ todo' = <<>> /\ UNCHANGED <<kernelRoutes, kernelAddrs, undo, before, option>>
      /\ pc' = "undo" /\ after' = "exit"
  BY Zenon DEF RunFails, DropGuard, kernel
<1>2. "undo" \notin faults' => "undo" \notin faults
  BY DEF RunFails, Fault
<1>3. SetupTypes'
  BY <1>1 DEF KernelInv, SetupTypes, Label
<1>4. ASSUME "undo" \notin faults
      PROVE  Pristine(before)' /\ Effects' /\ PinFirst'
  <2>1. Pristine(before) /\ Effects /\ PinFirst
    BY <1>4 DEF KernelInv
  <2>2. Pristine(before)' /\ Effects'
    <3>1. Pristine(before)'
      BY <1>1, <2>1, SMTT(30), Z3T(30) DEF Pristine, Pins
    <3>2. Effects'
      BY <1>1, <2>1, SMTT(30), Z3T(30) DEF Effects
    <3> QED
      BY <3>1, <3>2
  <2>3. Justified(todo)' /\ Justified(undo)'
    BY <1>1, <2>1, SMTT(30), Z3T(30) DEF PinFirst, Justified, Pins
  <2> QED
    BY <1>1, <2>1, <2>2, <2>3 DEF PinFirst, Pins
<1> QED
  BY <1>1, <1>2, <1>3, <1>4 DEF KernelInv

\* The guard undoes the last of its commands.
LEMMA UndoLastStep ==
    ASSUME KernelInv, pc = "undo", UndoLast, UNCHANGED <<option, pc, after, before>>
    PROVE  KernelInv'
<1> DEFINE n == Len(undo)
           l == undo[n]
<1>1. undo # <<>> /\ undo' = SubSeq(undo, 1, n - 1) /\ UNCHANGED todo
  BY DEF UndoLast
<1>2. SetupTypes /\ undo \in Seq(Command) /\ todo = <<>>
  BY DEF KernelInv, SetupTypes
<1>3. n \in Nat \ {0} /\ DOMAIN undo = 1 .. n /\ l \in Command
  BY <1>1, <1>2, SMTT(30), Z3T(30)
<1>4. undo' \in Seq(Command) /\ DOMAIN undo' = 1 .. n - 1 /\ \A i \in 1 .. n - 1 : undo'[i] = undo[i]
  BY <1>1, <1>2, <1>3, SMTT(30), Z3T(30)
<1>5. DOMAIN undo = DOMAIN undo' \cup {n} /\ n \notin DOMAIN undo'
  BY <1>3, <1>4
<1>6. undo' # <<>> => undo'[1] = undo[1]
  BY <1>4
<1>7. l = undo[Len(undo)]
  BY SMTT(30), Z3T(30)
<1> HIDE DEF n, l
<1>8. \/ "undo" \in faults' /\ UNCHANGED <<kernelRoutes, kernelAddrs>>
      \/ /\ l.kind = "addr" /\ kernelRoutes' = kernelRoutes /\ kernelAddrs' = kernelAddrs \ l.key
         /\ UNCHANGED faults /\ \E a \in Assignable : l.key = {a} /\ l = AddrCmd(a)
      \/ /\ l.kind = "route" /\ kernelAddrs' = kernelAddrs /\ kernelRoutes' = [kernelRoutes EXCEPT ![l.key] = "none"]
         /\ UNCHANGED faults /\ l.key \in Prefix
  BY <1>3, <1>7, CommandKinds, SMTT(30), Z3T(30) DEF UndoLast, Put, Fault, kernel
<1>9. SetupTypes'
  <2>1. kernelRoutes' \in [Prefix -> Device] /\ kernelAddrs' \subseteq Assignable
    BY <1>2, <1>8, SMTT(30), Z3T(30) DEF SetupTypes, Device
  <2> QED
    BY <1>1, <1>2, <1>4, <2>1, SMTT(30), Z3T(30) DEF SetupTypes
<1>10. ASSUME "undo" \notin faults'
       PROVE  Pristine(before)' /\ Effects' /\ PinFirst'
  <2>1. Pristine(before) /\ Effects /\ PinFirst
    BY <1>8, <1>10, SMTT(30), ZenonT(60) DEF KernelInv
  <2>2. Pristine(before)'
    BY <2>1, SMTT(30), Z3T(30) DEF Pristine, Pins
  <2>3. Effects'
    <3>1. CASE l.kind = "route"
      <4>1. /\ kernelAddrs' = kernelAddrs /\ kernelRoutes'[l.key] = "none" /\ l.key \in Prefix
            /\ \A p \in Prefix : p # l.key => kernelRoutes'[p] = kernelRoutes[p]
        BY <1>2, <1>8, <1>10, <3>1, SMTT(30), Z3T(30) DEF SetupTypes
      <4>2. \A i \in DOMAIN undo' : /\ undo[i].kind = "route" => undo[i].key # l.key /\ undo[i].key \in Prefix
                                   /\ undo'[i] = undo[i] /\ i \in DOMAIN undo
        BY <1>2, <1>3, <1>4, <1>5, <2>1, <3>1, CommandKinds, SMTT(30), Z3T(30) DEF Effects, l
      <4>3. before[l.key] = "none"
        BY <1>5, <2>1, <3>1, SMTT(30), Z3T(30) DEF Effects, l
      <4>4. \A i \in DOMAIN undo' : undo'[i].kind = "route" =>
              before'[undo'[i].key] = "none" /\ kernelRoutes'[undo'[i].key] = undo'[i].dev
        BY <2>1, <4>1, <4>2, SMTT(30), Z3T(30) DEF Effects
      <4>5. ASSUME NEW p \in Prefix, \A i \in DOMAIN undo' : undo'[i].kind = "route" => undo'[i].key # p
            PROVE  kernelRoutes'[p] = before'[p]
        BY <1>5, <2>1, <4>1, <4>2, <4>3, <4>5, SMTT(30), Z3T(30) DEF Effects, l
      <4>6. /\ \A i \in DOMAIN undo' : undo'[i].kind = "addr" => undo'[i].key \subseteq kernelAddrs'
            /\ \A a \in kernelAddrs' : \E i \in DOMAIN undo' : undo'[i] = AddrCmd(a)
        <5>1. \A a : l # AddrCmd(a)
          BY <3>1 DEF AddrCmd
        <5> QED
          BY <1>5, <2>1, <4>1, <4>2, <5>1 DEF Effects, l
      <4>7. \A i, j \in DOMAIN undo' : i # j => undo'[i].kind # undo'[j].kind \/ undo'[i].key # undo'[j].key
        <5>1. \A i, j \in DOMAIN undo : i # j => undo[i].kind # undo[j].kind \/ undo[i].key # undo[j].key
          BY <2>1, Zenon DEF Effects
        <5> QED
          BY <4>2, <5>1, Zenon
      <4> QED
        BY <4>4, <4>5, <4>6, <4>7, ZenonT(60) DEF Effects
    <3>2. CASE l.kind = "addr"
      <4>1. PICK a \in Assignable : l.key = {a} /\ l = AddrCmd(a)
        BY <1>8, <1>10, <3>2, SMTT(30), Z3T(30)
      <4>2. kernelRoutes' = kernelRoutes /\ kernelAddrs' = kernelAddrs \ {a}
        BY <1>8, <1>10, <3>2, <4>1, SMTT(30), Z3T(30)
      <4>3. \A i \in DOMAIN undo' : /\ undo[i].kind = "addr" => undo[i].key # l.key
                                   /\ undo'[i] = undo[i] /\ i \in DOMAIN undo
        BY <1>3, <1>4, <1>5, <2>1, <3>2, SMTT(30), Z3T(30) DEF Effects, l
      <4>4. /\ \A i \in DOMAIN undo' : undo'[i].kind = "route" =>
                 before'[undo'[i].key] = "none" /\ kernelRoutes'[undo'[i].key] = undo'[i].dev
            /\ \A p \in Prefix : (\A i \in DOMAIN undo' : undo'[i].kind = "route" => undo'[i].key # p) =>
                 kernelRoutes'[p] = before'[p]
        <5>1. before' = before /\ l.kind # "route"
          BY <3>2, SMTT(30), Z3T(30)
        <5>2. ASSUME NEW i \in DOMAIN undo', undo'[i].kind = "route"
              PROVE  before'[undo'[i].key] = "none" /\ kernelRoutes'[undo'[i].key] = undo'[i].dev
          BY <2>1, <4>2, <4>3, <5>1, <5>2 DEF Effects
        <5>3. ASSUME NEW p \in Prefix, \A i \in DOMAIN undo' : undo'[i].kind = "route" => undo'[i].key # p
              PROVE  kernelRoutes'[p] = before'[p]
          <6>1. ASSUME NEW i \in DOMAIN undo, undo[i].kind = "route" PROVE undo[i].key # p
            <7>1. i \in DOMAIN undo'
              BY <1>5, <2>1, <5>1, <6>1 DEF l
            <7> QED
              BY <4>3, <5>3, <6>1, <7>1, SMTT(30), Z3T(30)
          <6>2. kernelRoutes[p] = before[p]
            BY <2>1, <6>1, Zenon DEF Effects
          <6> QED
            BY <4>2, <5>1, <6>2, SMTT(30), Z3T(30)
        <5> QED
          BY <5>2, <5>3
      <4>5. ASSUME NEW i \in DOMAIN undo', undo'[i].kind = "addr" PROVE undo'[i].key \subseteq kernelAddrs'
        <5>1. undo[i] \in Command /\ undo[i].kind = "addr" /\ undo[i].key # {a} /\ undo[i].key \subseteq kernelAddrs
          BY <1>2, <2>1, <4>1, <4>3, <4>5, SMTT(30), Z3T(30) DEF Effects
        <5>2. \E b \in Assignable : undo[i].key = {b}
          BY <5>1, CommandKinds, SMTT(30), Z3T(30)
        <5> QED
          BY <4>2, <4>3, <5>1, <5>2, SMTT(30), Z3T(30)
      <4>6. ASSUME NEW b \in kernelAddrs' PROVE \E i \in DOMAIN undo' : undo'[i] = AddrCmd(b)
        <5>1. b \in kernelAddrs /\ b # a
          BY <4>2, SMTT(30), Z3T(30)
        <5>2. PICK i \in DOMAIN undo : undo[i] = AddrCmd(b)
          BY <2>1, <5>1 DEF Effects
        <5>3. AddrCmd(b).key = {b} /\ AddrCmd(a).key = {a}
          BY DEF AddrCmd
        <5>4. AddrCmd(b) # AddrCmd(a)
          BY <5>1, <5>3, SMTT(30), Z3T(30)
        <5> QED
          BY <1>5, <4>1, <4>3, <5>2, <5>4 DEF l
      <4>7. \A i, j \in DOMAIN undo' : i # j => undo'[i].kind # undo'[j].kind \/ undo'[i].key # undo'[j].key
        BY <2>1, <4>3 DEF Effects
      <4> QED
        BY <4>4, <4>5, <4>6, <4>7, ZenonT(60) DEF Effects
    <3> QED
      BY <1>8, <1>10, <3>1, <3>2
  <2>4. PinFirst'
    <3>1. Justified(todo)' /\ Justified(undo)'
      BY <1>1, <1>4, <1>5, <2>1, SMTT(30), Z3T(30) DEF PinFirst, Justified, Pins
    <3> QED
      BY <1>1, <1>6, <2>1, <3>1, ZenonT(60) DEF PinFirst, Pins
  <2> QED
    BY <2>2, <2>3, <2>4, SMTT(30), Z3T(30)
<1> QED
  BY <1>9, <1>10, SMTT(30), Z3T(30) DEF KernelInv

\* What the kernel routes where: the default route is never touched, only the pin goes
\* elsewhere, and what goes to the tunnel is on the undo list.
LEMMA KernelShape ==
    ASSUME KernelInv, "undo" \notin faults
    PROVE  /\ kernelRoutes[Addr] = "uplink"
           /\ \A p \in Prefix \ {Addr} : kernelRoutes[p] = "uplink" => p = {Proxy} /\ Pins
           /\ \A p \in Prefix \ {Addr} : kernelRoutes[p] = "tunnel" =>
                pc # "dead" /\ \E i \in DOMAIN undo : undo[i].kind = "route" /\ undo[i].key = p /\ undo[i].dev = "tunnel"
<1>1. SetupTypes /\ Pristine(before) /\ PinFirst
  BY DEF KernelInv
<1>2. CASE pc = "dead"
  <2>1. Pristine(kernelRoutes)
    BY <1>2, SMTT(30), Z3T(30) DEF KernelInv
  <2> QED
    BY <2>1 DEF Pristine
<1>3. CASE pc # "dead"
  <2>1. Effects
    BY <1>3 DEF KernelInv
  <2>2. \A i \in DOMAIN undo : undo[i] \in Command
    BY <1>1 DEF SetupTypes
  <2>3. \A i \in DOMAIN undo : undo[i].kind = "route" => undo[i].key \in Prefix \ {Addr}
    BY <2>2, CommandKinds
  <2>4. Addr \in Prefix /\ before[Addr] = "uplink"
    BY <1>1, SetupAssumption, SMTT(30), Z3T(30) DEF Pristine
  <2>5. kernelRoutes[Addr] = "uplink"
    BY <2>1, <2>3, <2>4 DEF Effects
  <2>6. ASSUME NEW p \in Prefix \ {Addr}, kernelRoutes[p] = "uplink"
        PROVE  p = {Proxy} /\ Pins
    <3>1. CASE \A i \in DOMAIN undo : undo[i].kind = "route" => undo[i].key # p
      BY <1>1, <2>1, <2>6, <3>1, SMTT(30), Z3T(30) DEF Effects, Pristine
    <3>2. ASSUME NEW i \in DOMAIN undo, undo[i].kind = "route", undo[i].key = p
          PROVE  p = {Proxy} /\ Pins
      <4>1. undo[i].dev = "uplink"
        BY <2>1, <2>6, <3>2 DEF Effects
      <4>2. p = {Proxy}
        BY <2>2, <3>2, <4>1, CommandKinds
      <4> QED
        BY <1>1, <3>2, <4>1, <4>2, SMTT(30), Z3T(30) DEF PinFirst, Justified
    <3> QED
      BY <3>1, <3>2, SMTT(30), Z3T(30)
  <2>7. ASSUME NEW p \in Prefix \ {Addr}, kernelRoutes[p] = "tunnel"
        PROVE  \E i \in DOMAIN undo : undo[i].kind = "route" /\ undo[i].key = p /\ undo[i].dev = "tunnel"
    <3>1. before[p] # "tunnel"
      BY <1>1, SMTT(30), Z3T(30) DEF Pristine
    <3>2. PICK i \in DOMAIN undo : undo[i].kind = "route" /\ undo[i].key = p
      BY <2>1, <2>7, <3>1, SMTT(30), Z3T(30) DEF Effects
    <3>3. undo[i].dev = "tunnel"
      BY <2>1, <2>7, <3>2 DEF Effects
    <3> QED
      BY <3>2, <3>3
  <2> QED
    BY <1>3, <2>5, <2>6, <2>7
<1> QED
  BY <1>2, <1>3

\* The process ends, with nothing left to undo.
LEMMA ExitStep ==
    ASSUME KernelInv, Exit
    PROVE  KernelInv'
<1>1. /\ pc = "exit" /\ pc' = "done" /\ UNCHANGED <<option, after, before, faults>>
      /\ todo' = <<>> /\ undo' = <<>> /\ kernelAddrs' = {}
      /\ kernelRoutes' = [p \in Prefix |-> IF kernelRoutes[p] = "tunnel" THEN "none" ELSE kernelRoutes[p]]
  BY Zenon DEF Exit, Goto, DeviceGone, process
<1>2. SetupTypes /\ undo = <<>>
  BY <1>1 DEF KernelInv, SetupTypes
<1>3. SetupTypes'
  BY <1>1, <1>2 DEF SetupTypes, Label, Device
<1>4. ASSUME "undo" \notin faults'
      PROVE  Pristine(before)' /\ Effects' /\ PinFirst'
  <2>1. Pristine(before) /\ Effects
    BY <1>1, <1>4 DEF KernelInv
  <2>2. \A p \in Prefix : kernelRoutes[p] = before[p]
    BY <1>2, <2>1, NothingToUndo
  <2>3. \A p \in Prefix : kernelRoutes[p] # "tunnel"
    BY <2>1, <2>2 DEF Pristine
  <2>4. Pristine(before)'
    BY <1>1, <2>1, SMTT(30), Z3T(30) DEF Pristine, Pins
  <2>5. Effects'
    BY <1>1, <2>2, <2>3 DEF Effects
  <2>6. PinFirst'
    BY <1>1 DEF PinFirst, Justified
  <2> QED
    BY <2>4, <2>5, <2>6
<1> QED
  BY <1>1, <1>3, <1>4 DEF KernelInv

\* The process is killed: the pin stays, and nothing else.
LEMMA CrashStep ==
    ASSUME KernelInv, Crash
    PROVE  KernelInv'
<1>1. /\ pc' = "dead" /\ UNCHANGED <<option, after, before>>
      /\ todo' = <<>> /\ undo' = <<>> /\ kernelAddrs' = {}
      /\ kernelRoutes' = [p \in Prefix |-> IF kernelRoutes[p] = "tunnel" THEN "none" ELSE kernelRoutes[p]]
  BY Zenon DEF Crash, Goto, DeviceGone, process
<1>2. "undo" \notin faults' => "undo" \notin faults
  BY DEF Crash, Fault
<1>3. SetupTypes'
  BY <1>1 DEF KernelInv, SetupTypes, Label, Device
<1>4. ASSUME "undo" \notin faults
      PROVE  Pristine(before)' /\ Pristine(kernelRoutes)' /\ PinFirst'
  <2>1. Pristine(before)'
    BY <1>1, <1>4 DEF KernelInv, Pristine, Pins
  <2>2. kernelRoutes \in [Prefix -> Device] /\ Addr \in Prefix
    BY SetupAssumption DEF KernelInv, SetupTypes
  <2>3. kernelRoutes'[Addr] = "uplink"
    BY <1>1, <1>4, <2>2, KernelShape, SMTT(30), Z3T(30)
  <2>4. ASSUME NEW p \in Prefix \ {Addr}, kernelRoutes'[p] # "none"
        PROVE  kernelRoutes'[p] = "uplink" /\ p = {Proxy} /\ Pins'
    <3>1. kernelRoutes[p] = "uplink" /\ kernelRoutes'[p] = "uplink"
      BY <1>1, <2>2, <2>4 DEF Device
    <3>2. p = {Proxy} /\ Pins
      BY <1>4, <3>1, KernelShape
    <3> QED
      BY <1>1, <3>1, <3>2 DEF Pins
  <2>5. Pristine(kernelRoutes)'
    BY <2>3, <2>4 DEF Pristine
  <2>6. PinFirst'
    BY <1>1 DEF PinFirst, Justified
  <2> QED
    BY <2>1, <2>5, <2>6, SMTT(30), Z3T(30)
<1> QED
  BY <1>1, <1>2, <1>3, <1>4 DEF KernelInv

\* It is started again, on the kernel that it left.
LEMMA RestartStep ==
    ASSUME KernelInv, Restart
    PROVE  KernelInv'
<1>1. /\ pc = "dead" /\ pc' = "connect" /\ UNCHANGED <<option, after>> /\ before' = kernelRoutes
      /\ UNCHANGED <<kernelRoutes, kernelAddrs, todo, undo, faults>>
  BY Zenon DEF Restart, Goto, setup, kernel
<1>2. SetupTypes /\ undo = <<>> /\ todo = <<>>
  BY <1>1 DEF KernelInv, SetupTypes
<1>3. SetupTypes'
  BY <1>1, <1>2 DEF SetupTypes, Label
<1>4. ASSUME "undo" \notin faults'
      PROVE  Pristine(before)' /\ Effects' /\ PinFirst'
  <2>1. Pristine(kernelRoutes) /\ kernelAddrs = {}
    BY <1>1, <1>4 DEF KernelInv
  <2>2. Pristine(before)'
    BY <1>1, <2>1 DEF Pristine, Pins
  <2>3. Effects'
    BY <1>1, <1>2, <2>1 DEF Effects
  <2>4. PinFirst'
    BY <1>1, <1>2 DEF PinFirst, Justified
  <2> QED
    BY <2>2, <2>3, <2>4
<1> QED
  BY <1>1, <1>3, <1>4 DEF KernelInv

\* Every step keeps the invariant of the setup.
LEMMA KernelStep ==
    ASSUME StreamInv, KernelInv, [Next]_vars
    PROVE  KernelInv'
<1>1. SetupTypes
  BY DEF KernelInv
<1>2. assigned \in Seq(Assignable)
  BY ToldTypes
<1> QED
  BY <1>1, <1>2, SetupMoves, QuietKeeps, ApplyStep, ExitStep, CrashStep, RestartStep, RunNextStep, RunFailsStep,
     UndoLastStep, SMTT(30), Z3T(30)

\* What else the task has at hand: the packets of its queue, a signal, and the MTU.
TaskInv ==
    /\ demux \in {"none", "queue", "sink"} /\ queue \in Seq({"echo", "error", "garbage"}) /\ Len(queue) <= QueueDepth
    /\ signal \in BOOLEAN
    /\ mtu = currentMtu

\* Every step keeps it: the queue takes a packet only below its depth, and a tick reads the MTU that it stores.
LEMMA TaskStep ==
    ASSUME TaskInv, [Next]_vars
    PROVE  TaskInv'
<1>1. demux' \in {"none", "queue", "sink"} /\ queue' \in Seq({"echo", "error", "garbage"}) /\ Len(queue') <= QueueDepth
  <2>1. \/ UNCHANGED <<demux, queue>>
        \/ demux' \in {"none", "queue", "sink"} /\ queue' = <<>>
        \/ RecvPacket
        \/ \E kind \in {"echo", "error", "garbage"} : Dispatch(kind)
    <3>1. CASE DeviceUp \/ Apply \/ Run \/ StreamEnds \/ Terminate \/ Undo \/ Exit \/ Deadline \/ PingDone \/ RequestAddress
               \/ SendPing
      BY <3>1, Zenon
      DEF DeviceUp, Apply, Run, StreamEnds, Terminate, Undo, Exit, Deadline, PingDone, RequestAddress, SendPing, inbound
    <3>2. CASE \E n \in 1 .. arrived : Await(n) \/ Capsules(n) \/ Reply(n)
      BY <3>2, Zenon DEF Await, Capsules, Reply, inbound
    <3>3. CASE Configured \/ CloseClient \/ Establish \/ Restart
      BY <3>3, Zenon DEF Configured, CloseClient, Establish, Restart, SetPacketSink, Close, DemuxInsert, inbound
    <3>4. CASE Proxying \/ Deliver \/ Connect \/ Rejected \/ SetupFails \/ SendFails \/ RecvFails \/ Signal \/ Crash
      BY <3>4, Zenon DEF Proxying, Deliver, Connect, Rejected, SetupFails, SendFails, RecvFails, Signal, Crash, inbound
    <3>5. CASE UNCHANGED vars \/ (\E m \in Mtu : MtuTick(m))
      BY <3>5, Zenon DEF MtuTick, vars, inbound
    <3>6. CASE RecvEcho \/ Stray \/ Garbage \/ (\E n \in 1 .. Pings, kind \in {"echo", "error"} : Answer(n, kind))
      BY <3>6, Zenon DEF RecvEcho, Stray, Garbage, Answer
    <3> QED
      BY <3>1, <3>2, <3>3, <3>4, <3>5, <3>6, Zenon DEF Next, Task
  <2>2. CASE RecvPacket
    BY <2>2, ClientAssumption DEF RecvPacket, TaskInv
  <2>3. ASSUME NEW kind \in {"echo", "error", "garbage"}, Dispatch(kind)
        PROVE  demux' = demux /\ queue' \in Seq({"echo", "error", "garbage"}) /\ Len(queue') <= QueueDepth
    BY <2>3, ClientAssumption DEF Dispatch, TaskInv
  <2>4. CASE demux' \in {"none", "queue", "sink"} /\ queue' = <<>>
    BY <2>4, ClientAssumption
  <2> QED
    BY <2>1, <2>2, <2>3, <2>4 DEF TaskInv
<1>2. signal' \in BOOLEAN /\ mtu' = currentMtu'
  <2> USE DEF TaskInv
  <2>1. CASE DeviceUp \/ Apply \/ Run \/ StreamEnds \/ Terminate \/ Undo \/ Exit \/ Deadline \/ PingDone \/ RequestAddress
             \/ SendPing \/ RecvEcho
    BY <2>1, Zenon
    DEF DeviceUp, Apply, Run, StreamEnds, Terminate, Undo, Exit, Deadline, PingDone, RequestAddress, SendPing, RecvEcho,
        device, process
  <2>2. CASE \E n \in 1 .. arrived : Await(n) \/ Reply(n)
    BY <2>2, Zenon DEF Await, Reply, device, process
  <2>3. CASE \E n \in 1 .. arrived : Capsules(n)
    <3>1. PICK n \in 1 .. arrived : Capsules(n)
      BY <2>3
    <3> QED
      BY <3>1 DEF Capsules, device
  <2>4. CASE Configured \/ CloseClient \/ Establish \/ Restart
    BY <2>4, Zenon DEF Configured, CloseClient, Establish, Restart, device, process
  <2>5. CASE Proxying \/ Deliver \/ Connect \/ Rejected \/ SetupFails \/ SendFails \/ RecvFails \/ Signal \/ Crash
    BY <2>5, Zenon DEF Proxying, Deliver, Connect, Rejected, SetupFails, SendFails, RecvFails, Signal, Crash, device, process
  <2>6. CASE UNCHANGED vars \/ (\E m \in Mtu : MtuTick(m))
             \/ Stray \/ Garbage \/ (\E n \in 1 .. Pings, kind \in {"echo", "error"} : Answer(n, kind))
    BY <2>6, Zenon DEF MtuTick, Stray, Garbage, Answer, vars, device, process
  <2> HIDE DEF TaskInv
  <2> QED
    BY <2>1, <2>2, <2>3, <2>4, <2>5, <2>6, Zenon DEF Next, Task
<1> QED
  BY <1>1, <1>2 DEF TaskInv

\* The invariant of the program, of its stream, and of what it did to the kernel.
ClientInv == StreamInv /\ KernelInv /\ TaskInv

\* It holds of every behaviour of the client programs.
THEOREM ClientInvariant == Spec => []ClientInv
<1>1. Init => ClientInv
  <2> SUFFICES ASSUME Init PROVE ClientInv
    OBVIOUS
  <2>1. StreamInv
    <3>1. Complete(0) = 0
      BY CompleteBounds
    <3>2. wire = <<>> /\ arrived = 0 /\ taken = 0 /\ parsed = 0 /\ assigned = <<>> /\ routes = <<>> /\ after = "exit"
      BY DEF Init, ClientInit
    <3>3. Told("assign", parsed) = <<>> /\ Told("routes", parsed) = <<>>
      BY <3>2 DEF Told
    <3> QED
      BY <3>1, <3>2, <3>3, ClientAssumption DEF StreamInv
  <2>2. KernelInv
    <3>1. /\ kernelRoutes = [p \in Prefix |-> IF p = Addr THEN "uplink" ELSE "none"] /\ before = kernelRoutes
          /\ kernelAddrs = {} /\ todo = <<>> /\ undo = <<>> /\ pc = "connect" /\ after = "exit" /\ option \in Option
      BY DEF Init, SetupInit
    <3>2. SetupTypes
      BY <3>1 DEF SetupTypes, Label, Device
    <3>3. Pristine(before)
      BY <3>1, SetupAssumption, SMTT(30), Z3T(30) DEF Pristine
    <3>4. Effects /\ PinFirst
      BY <3>1 DEF Effects, PinFirst, Justified
    <3> QED
      BY <3>1, <3>2, <3>3, <3>4 DEF KernelInv
  <2>3. TaskInv
    <3>1. demux = "none" /\ queue = <<>> /\ signal = FALSE /\ mtu = 0 /\ currentMtu = 0
      BY DEF Init, ClientInit
    <3>2. queue \in Seq({"echo", "error", "garbage"}) /\ Len(queue) <= QueueDepth
      BY <3>1, ClientAssumption
    <3> QED
      BY <3>1, <3>2, Zenon DEF TaskInv
  <2> QED
    BY <2>1, <2>2, <2>3 DEF ClientInv
<1>2. ClientInv /\ [Next]_vars => ClientInv'
  BY StreamStep, KernelStep, TaskStep DEF ClientInv
<1> QED
  BY <1>1, <1>2, PTL DEF Spec

\* Every variable of the client programs keeps its type, and the request stream is read
\* in order.
THEOREM ClientTypeCorrect == Spec => []TypeOK
<1>1. ClientInv => TypeOK
  <2> SUFFICES ASSUME ClientInv PROVE TypeOK
    OBVIOUS
  <2>1. Pieces * Complete(taken) <= taken /\ Complete(taken) \in Nat
    BY CompleteBounds DEF ClientInv, StreamInv
  <2>2. \A x, y, z \in Nat : x <= y => z * x <= z * y
    OBVIOUS
  <2>3. Pieces * parsed <= Pieces * Complete(taken)
    BY <2>1, <2>2, ClientAssumption, Zenon DEF ClientInv, StreamInv
  <2>4. Pieces * parsed <= taken
    <3>1. Pieces * parsed \in Nat /\ Pieces * Complete(taken) \in Nat /\ taken \in Nat
      BY <2>1, ClientAssumption DEF ClientInv, StreamInv
    <3> DEFINE u == Pieces * parsed
               v == Pieces * Complete(taken)
    <3> HIDE DEF u, v
    <3>2. u <= v /\ v <= taken /\ u \in Nat /\ v \in Nat /\ taken \in Nat
      BY <2>1, <2>3, <3>1 DEF u, v
    <3>3. u <= taken
      BY <3>2
    <3> QED
      BY <3>3 DEF u
  <2> QED
    BY <2>4 DEF ClientInv, StreamInv, KernelInv, SetupTypes, TaskInv, TypeOK, Label, Device
<1> QED
  BY <1>1, ClientInvariant, PTL

\* A host route keeps a pinned proxy off the tunnel between any two commands, in every
\* reconfiguration, while tearing down, and after a crash and a restart, whatever is
\* assigned and advertised.
THEOREM TransportStaysOff == Spec => []TransportOffTunnel
<1>1. ClientInv => TransportOffTunnel
  <2> SUFFICES ASSUME ClientInv, option.pin, "undo" \notin faults, PathTo(Proxy) = "tunnel" PROVE FALSE
    BY DEF TransportOffTunnel
  <2>1. KernelInv /\ SetupTypes /\ PinFirst
    BY DEF ClientInv, KernelInv
  <2>2. /\ kernelRoutes[Addr] = "uplink"
        /\ \A p \in Prefix \ {Addr} : kernelRoutes[p] = "tunnel" => pc # "dead" /\
             \E i \in DOMAIN undo : undo[i].kind = "route" /\ undo[i].key = p /\ undo[i].dev = "tunnel"
    BY <2>1, KernelShape, SMTT(30), Z3T(30)
  <2>3. PICK b \in Prefix : /\ Proxy \in b /\ kernelRoutes[b] = "tunnel"
                            /\ \A q \in Prefix : Proxy \in q /\ kernelRoutes[q] # "none" => b \subseteq q
    BY <2>2, PathExists, SetupAssumption
  <2>4. PICK i \in DOMAIN undo : undo[i].kind = "route" /\ undo[i].dev = "tunnel"
    BY <2>2, <2>3, SMTT(30), Z3T(30)
  <2>5. pc # "dead" /\ Pins /\ undo # <<>> /\ 1 \in DOMAIN undo
    BY <2>1, <2>2, <2>3, <2>4, SMTT(30), Z3T(30) DEF PinFirst, Justified, Pins, SetupTypes
  <2>6. undo[1] = PinCmd("uplink") /\ Effects
    BY <2>1, <2>5 DEF PinFirst, ClientInv, KernelInv
  <2>7. kernelRoutes[{Proxy}] = "uplink" /\ {Proxy} \in Prefix
    <3>1. undo[1].kind = "route" /\ undo[1].key = {Proxy} /\ undo[1].dev = "uplink"
      BY <2>6, SMTT(30), Z3T(30) DEF PinCmd
    <3>2. kernelRoutes[undo[1].key] = undo[1].dev
      BY <2>5, <2>6, <3>1 DEF Effects
    <3> QED
      BY <3>1, <3>2, SetupAssumption, SMTT(30), Z3T(30)
  <2>8. b = {Proxy}
    BY <2>3, <2>7, SMTT(30), Z3T(30)
  <2> QED
    BY <2>3, <2>7, <2>8
<1> QED
  BY <1>1, ClientInvariant, PTL

\* A process that ends by itself leaves the kernel as it found it.
THEOREM KernelIsRestored == Spec => []NothingLeft
<1>1. ClientInv => NothingLeft
  BY NothingToUndo DEF ClientInv, KernelInv, SetupTypes, NothingLeft
<1> QED
  BY <1>1, ClientInvariant, PTL

\* Once everything is run, the undo list is what is wanted.
LEMMA AllRun ==
    ASSUME ClientInv, pc = "select", "undo" \notin faults
    PROVE  /\ Effects /\ \A i \in DOMAIN undo : undo[i] \in WantedCmds
           /\ \A c \in WantedCmds : \E i \in DOMAIN undo : undo[i] = c
<1>1. todo = <<>> /\ Effects /\ Complying
  BY DEF ClientInv, KernelInv, SetupTypes
<1>2. DOMAIN todo = {}
  BY <1>1
<1> QED
  BY <1>1, <1>2 DEF Complying

\* The device has the addresses of the tunnel then ...
LEMMA AddressesInEffect ==
    ASSUME ClientInv, pc = "select", "undo" \notin faults
    PROVE  kernelAddrs = {assigned[i] : i \in DOMAIN assigned}
<1>1. WantedCmds = {c \in {PinCmd("uplink")} : Wanted.keepOffTunnel} \cup {AddrCmd(assigned[i]) : i \in DOMAIN assigned}
                     \cup {RouteCmd(p) : p \in Wanted.routes}
  BY DEF WantedCmds, CmdsOf, Wanted, Plan
<1>2. ASSUME NEW a \in kernelAddrs PROVE \E j \in DOMAIN assigned : a = assigned[j]
  <2>1. AddrCmd(a) \in WantedCmds
    BY AllRun DEF Effects
  <2>2. AddrCmd(a).kind = "addr" /\ AddrCmd(a).key = {a}
    BY DEF AddrCmd
  <2>3. \A p : RouteCmd(p).kind = "route" /\ PinCmd("uplink").kind = "route"
    BY DEF RouteCmd, PinCmd
  <2>4. PICK j \in DOMAIN assigned : AddrCmd(a) = AddrCmd(assigned[j])
    BY <1>1, <2>1, <2>2, <2>3, SMTT(30), Z3T(30)
  <2>5. {a} = {assigned[j]}
    BY <2>2, <2>4 DEF AddrCmd
  <2> QED
    BY <2>5, SMTT(30), Z3T(30)
<1>3. ASSUME NEW j \in DOMAIN assigned PROVE assigned[j] \in kernelAddrs
  <2>1. AddrCmd(assigned[j]) \in WantedCmds
    BY <1>1
  <2>2. PICK i \in DOMAIN undo : undo[i] = AddrCmd(assigned[j])
    BY <2>1, AllRun, SMTT(30), Z3T(30)
  <2>3. undo[i].kind = "addr" /\ undo[i].key = {assigned[j]}
    BY <2>2, SMTT(30), Z3T(30) DEF AddrCmd
  <2>4. undo[i].key \subseteq kernelAddrs
    BY <2>3, AllRun, SMTT(30), Z3T(30) DEF Effects
  <2> QED
    BY <2>3, <2>4
<1> QED
  BY <1>2, <1>3, SMTT(30), Z3T(30)

\* ... and the kernel sends to it what the tunnel has routes for, the pinned proxy excepted.
LEMMA RoutesInEffect ==
    ASSUME ClientInv, TransportOffTunnel, pc = "select", "undo" \notin faults, NEW a \in Addr
    PROVE  PathTo(a) = "tunnel" <=> (\E p \in Wanted.routes : a \in p) /\ ~(option.pin /\ a = Proxy)
<1>1. KernelInv /\ SetupTypes
  BY DEF ClientInv, KernelInv
<1>2. /\ kernelRoutes[Addr] = "uplink"
      /\ \A p \in Prefix \ {Addr} : kernelRoutes[p] = "uplink" => p = {Proxy} /\ Pins
      /\ \A p \in Prefix \ {Addr} : kernelRoutes[p] = "tunnel" =>
           \E i \in DOMAIN undo : undo[i].kind = "route" /\ undo[i].key = p /\ undo[i].dev = "tunnel"
  BY <1>1, KernelShape, SMTT(30), Z3T(30)
<1>3. PICK b \in Prefix : /\ a \in b /\ kernelRoutes[b] # "none" /\ PathTo(a) = kernelRoutes[b]
                          /\ \A q \in Prefix : a \in q /\ kernelRoutes[q] # "none" => b \subseteq q
  BY <1>2, PathExists
<1>4. kernelRoutes[b] \in {"uplink", "tunnel"}
  BY <1>1, <1>3 DEF SetupTypes, Device
<1>5. Wanted.routes \subseteq Prefix \ {Addr}
  BY WantedRoutes, SMTT(30), Z3T(30) DEF Wanted, Plan
<1>6. WantedCmds = {c \in {PinCmd("uplink")} : Wanted.keepOffTunnel} \cup {AddrCmd(assigned[i]) : i \in DOMAIN assigned}
                     \cup {RouteCmd(p) : p \in Wanted.routes}
  BY SMTT(30), Z3T(30) DEF WantedCmds, CmdsOf, Wanted, Plan
<1>7. ASSUME PathTo(a) = "tunnel" PROVE (\E p \in Wanted.routes : a \in p) /\ ~(option.pin /\ a = Proxy)
  <2>1. b # Addr /\ kernelRoutes[b] = "tunnel"
    BY <1>2, <1>3, <1>7, ZenonT(60)
  <2>2. PICK i \in DOMAIN undo : undo[i].kind = "route" /\ undo[i].key = b /\ undo[i].dev = "tunnel"
    BY <1>2, <2>1
  <2>3. undo[i] \in WantedCmds
    BY AllRun
  <2>4. \A x : AddrCmd(x).kind = "addr" /\ PinCmd("uplink").dev = "uplink"
    BY SMTT(30), Z3T(30) DEF AddrCmd, PinCmd
  <2>5. PICK p \in Wanted.routes : undo[i] = RouteCmd(p)
    BY <1>6, <2>2, <2>3, <2>4, SMTT(30), Z3T(30)
  <2>6. p = b
    BY <2>2, <2>5 DEF RouteCmd
  <2>7. ~(option.pin /\ a = Proxy)
    BY <1>7, SMTT(30), Z3T(30) DEF TransportOffTunnel
  <2> QED
    BY <1>3, <2>6, <2>7, SMTT(30), Z3T(30)
<1>8. ASSUME NEW p \in Wanted.routes, a \in p, ~(option.pin /\ a = Proxy) PROVE PathTo(a) = "tunnel"
  <2>1. RouteCmd(p) \in WantedCmds
    BY <1>6, SMTT(30), Z3T(30)
  <2>2. PICK i \in DOMAIN undo : undo[i] = RouteCmd(p)
    BY <2>1, AllRun, SMTT(30), Z3T(30)
  <2>3. undo[i].kind = "route" /\ undo[i].key = p /\ undo[i].dev = "tunnel"
    BY <2>2, SMTT(30), Z3T(30) DEF RouteCmd
  <2>4. kernelRoutes[p] = "tunnel"
    BY <2>3, AllRun, SMTT(30), Z3T(30) DEF Effects
  <2>5. b \subseteq p /\ p \in Prefix \ {Addr}
    BY <1>3, <1>5, <1>8, <2>4, SMTT(30), Z3T(30)
  <2>6. b # Addr
    BY <2>5, SetupAssumption, ZenonT(60)
  <2>7. ~(b = {Proxy} /\ Pins)
    BY <1>3, <1>8 DEF Pins
  <2> QED
    BY <1>2, <1>3, <1>4, <2>6, <2>7, SMTT(30), Z3T(30)
<1> QED
  BY <1>7, <1>8

\* When the program waits, the kernel is what the last capsules that were wholly read
\* have told, for any capsules, any ranges and any family of nested prefixes.
THEOREM LastCapsuleInEffect == Spec => []KernelIsTold
<1>1. ClientInv /\ TransportOffTunnel => KernelIsTold
  <2> SUFFICES ASSUME ClientInv, TransportOffTunnel, pc = "select", "undo" \notin faults
               PROVE  /\ kernelAddrs = {Told("assign", taken \div Pieces)[i] : i \in DOMAIN Told("assign", taken \div Pieces)}
                      /\ \A a \in Addr : PathTo(a) = "tunnel" <=>
                           /\ option.installRoutes
                           /\ \E i \in DOMAIN Told("routes", taken \div Pieces) :
                                /\ Told("routes", taken \div Pieces)[i].protocol = 0
                                /\ a \in Told("routes", taken \div Pieces)[i].lo .. Told("routes", taken \div Pieces)[i].hi
                           /\ ~(option.pin /\ a = Proxy)
                      /\ mtu = currentMtu
    BY Zenon DEF KernelIsTold
  <2>1. assigned = Told("assign", taken \div Pieces) /\ routes = Told("routes", taken \div Pieces)
    BY DEF ClientInv, StreamInv, Reading, Complete
  <2>2. routes \in Seq([lo : Addr, hi : Addr, protocol : Nat])
    BY ToldTypes DEF ClientInv
  <2>3. Wanted.routes = IF option.installRoutes THEN PrefixesFromRanges(routes) ELSE {}
    BY SMTT(30) DEF Wanted, Plan
  <2>4. ASSUME NEW a \in Addr
        PROVE  PathTo(a) = "tunnel" <=>
                 /\ option.installRoutes
                 /\ \E i \in DOMAIN routes : routes[i].protocol = 0 /\ a \in routes[i].lo .. routes[i].hi
                 /\ ~(option.pin /\ a = Proxy)
    BY <2>2, <2>3, RangesCovered, RoutesInEffect, Zenon
  <2>5. mtu = currentMtu
    BY DEF ClientInv, TaskInv
  <2> QED
    BY <2>1, <2>4, <2>5, AddressesInEffect
<1> QED
  BY <1>1, ClientInvariant, TransportStaysOff, PTL
================================================================================
