------------------------------ MODULE RateLimiter ------------------------------
(***************************************************************************)
(* The token buckets of one session (SessionLimiter in                     *)
(* src/src/forwarding/limiter.rs).  The packets of a session are offered   *)
(* one after another, by the one task that reads its datagrams; each call  *)
(* reads the clock, refills both buckets and takes from both or neither.   *)
(*                                                                         *)
(* Time is counted in ticks of the clock (nanoseconds), of which as_micros *)
(* keeps the whole microseconds.                                           *)
(***************************************************************************)
EXTENDS Integers, Sequences

CONSTANTS
    PacketRate, ByteRate,   \* tokens per second, 0 for no limit
    Micro,                  \* ticks in a microsecond
    Second,                 \* microseconds in a second, 1000000 in the code
    Size,                   \* the packet lengths that occur
    Step,                   \* how much time may pass between two calls
    Horizon                 \* bound: the time at which the model stops

ASSUME LimiterAssumption ==
    /\ PacketRate \in Nat /\ ByteRate \in Nat /\ Horizon \in Nat
    /\ Micro \in Nat \ {0} /\ Second \in Nat \ {0}
    /\ Size \subseteq Nat \ {0} /\ Step \subseteq Nat

VARIABLES
    now,            \* the clock
    packetTokens, byteTokens, lastRefill,   \* BucketState
    log,            \* history: the admitted packets, each with its time and the
                    \* bytes that were admitted before it
    bytes,          \* history: the bytes admitted
    since           \* history: when the present run of refusals began, or -1

bucket == <<packetTokens, byteTokens, lastRefill>>
limiter == <<now, bucket, log, bytes, since>>

LimiterInit ==
    /\ now = 0 /\ lastRefill = 0
    /\ packetTokens = PacketRate /\ byteTokens = ByteRate
    /\ log = <<>> /\ bytes = 0 /\ since = -1

\* Mutant of Earned: a part of a token counts as one.
Earned_RoundedUp(rate, t) ==
    (rate * ((t - lastRefill) \div Micro) + Second - 1) \div Second

\* What the elapsed time earns, rounded down twice.
Earned(rate, t) == (rate * ((t - lastRefill) \div Micro)) \div Second

\* The tokens of a bucket at time t, up to the capacity of one second.
Refill(tokens, rate, t) ==
    IF tokens + Earned(rate, t) <= rate THEN tokens + Earned(rate, t) ELSE rate

Enough(tokens, rate, n) == rate = 0 \/ tokens >= n

Take(tokens, rate, n) == IF rate > 0 THEN tokens - n ELSE tokens

Admit(t, n) ==
    /\ log' = Append(log, [time |-> t, before |-> bytes, length |-> n])
    /\ bytes' = bytes + n
    /\ since' = -1

\* is_unlimited: the buckets, which are empty, are then not looked at.
IsUnlimited == PacketRate = 0 /\ ByteRate = 0

\* try_consume, for a packet of n bytes at time t.
Consume(t, n) ==
    LET p == Refill(packetTokens, PacketRate, t)
        b == Refill(byteTokens, ByteRate, t)
    IN  /\ Enough(p, PacketRate, 1) /\ Enough(b, ByteRate, n)
        /\ packetTokens' = Take(p, PacketRate, 1)
        /\ byteTokens' = Take(b, ByteRate, n)
        /\ lastRefill' = IF IsUnlimited THEN lastRefill ELSE t
        /\ Admit(t, n)

\* A refused packet leaves the buckets refilled and takes nothing.
RefusePacket(t, n) ==
    LET p == Refill(packetTokens, PacketRate, t)
        b == Refill(byteTokens, ByteRate, t)
    IN  /\ ~(Enough(p, PacketRate, 1) /\ Enough(b, ByteRate, n))
        /\ packetTokens' = p /\ byteTokens' = b
        /\ lastRefill' = t
        /\ since' = IF since = -1 THEN t ELSE since
        /\ UNCHANGED <<log, bytes>>

LimiterNext ==
    \E d \in Step, n \in Size :
        /\ now + d <= Horizon
        /\ now' = now + d
        /\ Consume(now + d, n) \/ RefusePacket(now + d, n)

LimiterSpec == LimiterInit /\ [][LimiterNext]_limiter

-------------------------------------------------------------------------------
\* The entries of the log, up to time t.
Admission(t) == [time : 0 .. t, before : Nat, length : Size]

\* Neither bucket goes below zero, where an unsigned subtraction would wrap, nor
\* above what one second earns.
LimiterTypeOK ==
    /\ now \in 0 .. Horizon /\ lastRefill \in 0 .. now
    /\ packetTokens \in 0 .. PacketRate /\ byteTokens \in 0 .. ByteRate
    /\ log \in Seq(Admission(now))
    /\ bytes \in Nat /\ since \in -1 .. now

\* "Packets/sec and bytes/sec with a one-second burst capacity" (limiter.rs):
\* between any two admitted packets, wherever the window is placed, no more was
\* admitted than one burst and what the time between them earned.
WindowBound ==
    \A i, j \in 1 .. Len(log) : i <= j =>
        LET earned(rate) == rate * (Second * Micro + log[j].time - log[i].time)
        IN  /\ PacketRate > 0 => (j - i + 1) * (Second * Micro) <= earned(PacketRate)
            /\ ByteRate > 0 =>
                (log[j].before + log[j].length - log[i].before) * (Second * Micro)
                    <= earned(ByteRate)

\* "Refill proportionally to elapsed time" (try_consume_at): a session whose
\* packets fit the bucket is not refused for a whole second on end.
RefillProportional ==
    since # -1 /\ (\A n \in Size : n <= ByteRate \/ ByteRate = 0) => now - since < Second * Micro
================================================================================
