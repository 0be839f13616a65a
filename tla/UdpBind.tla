-------------------------------- MODULE UdpBind --------------------------------
(***************************************************************************)
(* CONNECT-UDP bind sessions on the relay: the allocator of public         *)
(* (IP, port) tuples (src/src/udp_bind/alloc.rs), the request handler that *)
(* binds a socket to one (udp_bind/handler.rs), and the two tasks that     *)
(* serve the socket (BindSocket::run in udp_bind/socket.rs).               *)
(*                                                                         *)
(* A socket stays open on the host as long as somebody owns it: the        *)
(* handler until it spawns `run`, then `run` itself, and the inbound task  *)
(* that `run` spawns.                                                      *)
(***************************************************************************)
EXTENDS Integers

CONSTANTS
    BindSession,    \* bind requests, one per stream
    Ips,            \* how many public IPs are configured
    PortLo, PortHi, \* the inclusive port range
    BindAttempts,   \* allocated ports to try before giving up
    NoTuple         \* not a tuple

ASSUME BindAssumption ==
    /\ Ips \in Nat \ {0}
    /\ PortLo \in Nat /\ PortHi \in Nat /\ PortLo <= PortHi
    /\ BindAttempts \in Nat \ {0}

Tuple == (0 .. Ips - 1) \X (PortLo .. PortHi)

ASSUME TupleAssumption == NoTuple \notin Tuple

VARIABLES
    inUse,      \* the allocator: tuples handed out
    others,     \* those of them that sessions besides these hold all the while
    nextIp,     \* the allocator's cursor into the IPs
    nextPort,   \* the allocator's next port to try
    where,      \* where[s]: where the handler of s is
    addr,       \* addr[s]: the tuple it works with, or NoTuple
    attempts,   \* attempts[s]: bind attempts made
    sinks,      \* the sessions the datagram demultiplexer knows
    run,        \* run[s]: the task of BindSocket::run
    inbound     \* the sessions whose inbound task is alive

allocator == <<inUse, others, nextIp, nextPort>>
tasks == <<run, inbound>>
bindVars == <<allocator, where, addr, attempts, sinks, tasks>>

Span == PortHi - PortLo + 1

\* Mutant of Candidate: the scan ends at the last IP instead of wrapping around.
Candidate_NoWrap(i) ==
    << nextIp + (i % Ips), PortLo + ((nextPort - PortLo + (i \div Ips)) % Span) >>

\* The i-th tuple that allocate examines: every IP at a port before the next
\* port, both from the cursor on and wrapping around.
Candidate(i) ==
    << (nextIp + (i % Ips)) % Ips, PortLo + ((nextPort - PortLo + (i \div Ips)) % Span) >>

\* The port after p in the range.
SuccPort(p) == IF p >= PortHi THEN PortLo ELSE p + 1

\* Somebody on this relay owns the socket of s.
SocketOpen(s) == where[s] \in {"respond", "wire"} \/ run[s] \in {"spawned", "running", "aborted"} \/ s \in inbound

\* The relay has served others before: some still hold their tuples, and the
\* cursors are anywhere.
BindInit ==
    /\ others \in SUBSET Tuple /\ inUse = others
    /\ nextIp \in 0 .. Ips - 1 /\ nextPort \in PortLo .. PortHi
    /\ where = [s \in BindSession |-> "new"]
    /\ addr = [s \in BindSession |-> NoTuple]
    /\ attempts = [s \in BindSession |-> 0]
    /\ sinks = {}
    /\ run = [s \in BindSession |-> "none"]
    /\ inbound = {}

Goto(s, label) == where' = [where EXCEPT ![s] = label]
Move(s, from, to) == where[s] = from /\ Goto(s, to)

-------------------------------------------------------------------------------
(***************************************************************************)
(* The request handler.                                                    *)
(***************************************************************************)

\* The request is invalid, bind mode is off, or the client is not authenticated.
Refuse(s) ==
    /\ Move(s, "new", "refused")
    /\ UNCHANGED <<allocator, addr, attempts, sinks, tasks>>

Begin(s) ==
    /\ Move(s, "new", "allocate")
    /\ UNCHANGED <<allocator, addr, attempts, sinks, tasks>>

\* Mutant of AllocatePort: the tuple is handed out and not marked.
AllocatePort_Unmarked(s) ==
    /\ where[s] = "allocate"
    /\ Candidate(0) \notin inUse
    /\ addr' = [addr EXCEPT ![s] = Candidate(0)]
    /\ Goto(s, "bind")
    /\ UNCHANGED <<allocator, attempts, sinks, tasks>>

\* PortAllocator::allocate takes the first free candidate and moves on.
AllocatePort(s) ==
    /\ where[s] = "allocate"
    /\ \E i \in 0 .. Ips * Span - 1 :
          /\ Candidate(i) \notin inUse
          /\ \A j \in 0 .. i - 1 : Candidate(j) \in inUse
          /\ inUse' = inUse \cup {Candidate(i)}
          /\ addr' = [addr EXCEPT ![s] = Candidate(i)]
          /\ nextIp' = (Candidate(i)[1] + 1) % Ips
          /\ nextPort' = IF nextIp' = 0 THEN SuccPort(Candidate(i)[2]) ELSE Candidate(i)[2]
    /\ Goto(s, "bind")
    /\ UNCHANGED <<others, attempts, sinks, tasks>>

\* Every candidate is taken: 503.
PoolFull(s) ==
    /\ \A i \in 0 .. Ips * Span - 1 : Candidate(i) \in inUse
    /\ Move(s, "allocate", "refused")
    /\ UNCHANGED <<allocator, addr, attempts, sinks, tasks>>

\* The host binds a tuple to one socket.
BindOk(s) ==
    /\ \A t \in BindSession : SocketOpen(t) => addr[t] # addr[s]
    /\ Move(s, "bind", "respond")
    /\ UNCHANGED <<allocator, addr, attempts, sinks, tasks>>

\* The bind fails, for the host's own reasons or because the tuple still has
\* a socket; the tuple goes back and another one is tried.
BindFails(s) ==
    /\ where[s] = "bind"
    /\ inUse' = inUse \ {addr[s]}
    /\ addr' = [addr EXCEPT ![s] = NoTuple]
    /\ attempts' = [attempts EXCEPT ![s] = @ + 1]
    /\ Goto(s, IF attempts'[s] = BindAttempts THEN "refused" ELSE "allocate")
    /\ UNCHANGED <<others, nextIp, nextPort, sinks, tasks>>

\* The 200 response and OBSERVED_ADDRESS are sent ...
Respond(s) ==
    /\ Move(s, "respond", "wire")
    /\ UNCHANGED <<allocator, addr, attempts, sinks, tasks>>

\* ... or a send fails and the handler returns: the socket closes with it.
RespondFails(s) ==
    /\ Move(s, "respond", "done")
    /\ UNCHANGED <<allocator, addr, attempts, sinks, tasks>>

\* The data plane is wired and `run` is spawned.
Wire(s) ==
    /\ Move(s, "wire", "serve")
    /\ sinks' = sinks \cup {s}
    /\ run' = [run EXCEPT ![s] = "spawned"]
    /\ UNCHANGED <<allocator, addr, attempts, inbound>>

\* run_capsules returns: the peer closed the stream or sent a bad capsule.
CapsulesEnd(s) ==
    /\ Move(s, "serve", "abort")
    /\ UNCHANGED <<allocator, addr, attempts, sinks, tasks>>

Abort(s) ==
    /\ Move(s, "abort", "unregister")
    /\ run' = [run EXCEPT ![s] = "aborted"]
    /\ UNCHANGED <<allocator, addr, attempts, sinks, inbound>>

Unregister(s) ==
    /\ Move(s, "unregister", "release")
    /\ sinks' = sinks \ {s}
    /\ UNCHANGED <<allocator, addr, attempts, tasks>>

ReleasePort(s) ==
    /\ Move(s, "release", "done")
    /\ inUse' = inUse \ {addr[s]}
    /\ UNCHANGED <<others, nextIp, nextPort, addr, attempts, sinks, tasks>>

-------------------------------------------------------------------------------
(***************************************************************************)
(* The tasks of a socket.                                                  *)
(***************************************************************************)

\* The first poll of `run` spawns the inbound task.
StartRun(s) ==
    /\ run[s] = "spawned"
    /\ run' = [run EXCEPT ![s] = "running"]
    /\ inbound' = inbound \cup {s}
    /\ UNCHANGED <<allocator, where, addr, attempts, sinks>>

\* An aborted `run` is dropped where it waits.  Dropping the handle of the
\* inbound task detaches that task; it does not end it.
DropRun(s) ==
    /\ run[s] = "aborted"
    /\ run' = [run EXCEPT ![s] = "gone"]
    /\ UNCHANGED <<allocator, where, addr, attempts, sinks, inbound>>

\* `run` leaves its loop when its channel is closed, and then does end the
\* inbound task; a poll in progress when it is aborted may still do so.
FinishRun(s) ==
    /\ run[s] \in {"running", "aborted"} /\ s \notin sinks
    /\ run' = [run EXCEPT ![s] = "gone"]
    /\ inbound' = inbound \ {s}
    /\ UNCHANGED <<allocator, where, addr, attempts, sinks>>

\* The inbound task ends by itself only when its socket fails.
InboundFails(s) ==
    /\ s \in inbound
    /\ inbound' = inbound \ {s}
    /\ UNCHANGED <<allocator, where, addr, attempts, sinks, run>>

-------------------------------------------------------------------------------
Handler(s) ==
    \/ AllocatePort(s) \/ PoolFull(s) \/ BindOk(s) \/ BindFails(s)
    \/ Respond(s) \/ RespondFails(s) \/ Wire(s)
    \/ Abort(s) \/ Unregister(s) \/ ReleasePort(s)

Tasks(s) == StartRun(s) \/ DropRun(s) \/ FinishRun(s)

BindNext ==
    \E s \in BindSession :
        \/ Refuse(s) \/ Begin(s) \/ CapsulesEnd(s)
        \/ Handler(s)
        \/ Tasks(s) \/ InboundFails(s)

BindSpec == BindInit /\ [][BindNext]_bindVars

-------------------------------------------------------------------------------
(***************************************************************************)
(* Properties.                                                             *)
(***************************************************************************)

\* The handler has a tuple from allocate until it gives it back.
Holding == {"bind", "respond", "wire", "serve", "abort", "unregister", "release"}

\* Every variable has its type; whoever holds a tuple has one, and a handler
\* still trying has attempts left.
BindTypeOK ==
    /\ inUse \subseteq Tuple /\ others \subseteq Tuple
    /\ nextIp \in 0 .. Ips - 1
    /\ nextPort \in PortLo .. PortHi
    /\ where \in [BindSession -> {"new", "refused", "allocate", "done"} \cup Holding]
    /\ addr \in [BindSession -> Tuple \cup {NoTuple}]
    /\ attempts \in [BindSession -> 0 .. BindAttempts]
    /\ sinks \subseteq BindSession
    /\ run \in [BindSession -> {"none", "spawned", "running", "aborted", "gone"}]
    /\ inbound \subseteq BindSession
    /\ \A s \in BindSession :
          /\ where[s] \in Holding => addr[s] \in Tuple
          /\ where[s] \in {"new", "allocate", "bind"} => attempts[s] < BindAttempts

\* "Each connect-udp-bind session gets one stable (IP, port) from a configured
\* pool for its lifetime" (alloc.rs): no other session is given the tuple of a
\* session that still holds it, and the allocator keeps counting it as used.
TupleExclusive ==
    /\ others \subseteq inUse
    /\ \A s \in BindSession : where[s] \in Holding => addr[s] \in inUse \ others
    /\ \A s, t \in BindSession :
          where[s] \in Holding /\ where[t] \in Holding /\ addr[s] = addr[t] => s = t

\* "AllocatePort the next free (IP, port), or None when the pool is full"
\* (alloc.rs): from any position of the cursors, the scan examines every tuple
\* of the pool exactly once, so it fails only when the pool is full.
ScanCoversPool ==
    /\ {Candidate(i) : i \in 0 .. Ips * Span - 1} = Tuple
    /\ \A i, j \in 0 .. Ips * Span - 1 : Candidate(i) = Candidate(j) => i = j

\* Only a session whose handler still runs is known to the demultiplexer, so
\* its datagrams never reach the channel of a session that ended.
SinksAreServed ==
    \A s \in sinks : where[s] \in {"serve", "abort", "unregister"}

\* "... released on teardown for reuse" (alloc.rs), first reading: when no
\* handler holds a tuple, the allocator can hand it out again.
ReleasedByAllocator ==
    inUse \ others \subseteq {addr[s] : s \in {t \in BindSession : where[t] \in Holding}}

\* "... released on teardown for reuse" (alloc.rs), second reading: a tuple the
\* allocator can hand out has no socket of this relay bound to it any more,
\* once the tasks of the ended session have stopped.
ReleasedBySocket ==
    \A s \in BindSession : where[s] = "done" /\ run[s] = "gone" => ~SocketOpen(s)
================================================================================
