------------------------------- MODULE NatRules -------------------------------
(***************************************************************************)
(* NAT for the traffic of the address pools                                *)
(* (src/src/forwarding/nat.rs): setup_nat runs one command after another,  *)
(* and the NatGuard it returns deletes the masquerade rules when it is     *)
(* dropped.  The rules live in the kernel and outlive the process.         *)
(***************************************************************************)
EXTENDS Naturals, Sequences

CONSTANTS
    Families,   \* the address families of the pools, in the order of the pools
    MaxFaults   \* bound: commands that fail, and other faults of the process

VARIABLES
    natRules,   \* the POSTROUTING chain: how often it holds a family's rule
    setup,      \* the commands that setup_nat has still to run
    guard,      \* the rules that the NatGuard has still to delete
    unchecked,  \* appends without a check, and deletions that failed
    faults      \* how many faults have happened

nat == <<natRules, setup, guard, unchecked, faults>>

Family == {Families[i] : i \in DOMAIN Families}

ASSUME NatAssumption == Families \in Seq(Family) /\ MaxFaults \in Nat

\* The kernel's switches first, then a rule for each pool.
Sysctls == [i \in DOMAIN Families |-> <<"sysctl", Families[i]>>]
Masquerades == [i \in DOMAIN Families |-> <<"rule", Families[i]>>]

NatInit ==
    /\ natRules = [f \in Family |-> 0]
    /\ setup = <<>> /\ guard = <<>>
    /\ unchecked = 0 /\ faults = 0

Fault == faults < MaxFaults /\ faults' = faults + 1

StartSetup ==
    /\ setup' = Sysctls \o Masquerades
    /\ UNCHANGED <<natRules, guard, unchecked, faults>>

\* What is left to run, and the guard that the last command's success returns.
Advance ==
    /\ setup' = Tail(setup)
    /\ guard' = IF Len(setup) = 1 THEN Families ELSE guard

Sysctl ==
    /\ setup # <<>> /\ Head(setup)[1] = "sysctl"
    /\ Advance
    /\ UNCHANGED <<natRules, unchecked, faults>>

\* Mutant of Masquerade: the rule is appended without asking for it first.
Masquerade_Append ==
    /\ setup # <<>> /\ Head(setup)[1] = "rule"
    /\ natRules' = [natRules EXCEPT ![Head(setup)[2]] = @ + 1]
    /\ Advance
    /\ UNCHANGED <<unchecked, faults>>

\* A rule that `-C` finds is not appended again.
Masquerade ==
    /\ setup # <<>> /\ Head(setup)[1] = "rule"
    /\ natRules' = [natRules EXCEPT ![Head(setup)[2]] = IF @ > 0 THEN @ ELSE @ + 1]
    /\ Advance
    /\ UNCHANGED <<unchecked, faults>>

\* `-C` itself fails, which counts as "not there".
MasqueradeUnchecked ==
    /\ setup # <<>> /\ Head(setup)[1] = "rule"
    /\ Fault
    /\ natRules' = [natRules EXCEPT ![Head(setup)[2]] = @ + 1]
    /\ unchecked' = unchecked + 1
    /\ Advance

\* A command fails and setup_nat returns: there is no guard for the rules so far.
SetupFails ==
    /\ setup # <<>>
    /\ Fault
    /\ setup' = <<>>
    /\ UNCHANGED <<natRules, guard, unchecked>>

\* Dropping the guard deletes every rule of the list, once ...
DropRule ==
    /\ guard # <<>>
    /\ natRules' = [natRules EXCEPT ![Head(guard)] = IF @ > 0 THEN @ - 1 ELSE 0]
    /\ guard' = Tail(guard)
    /\ UNCHANGED <<setup, unchecked, faults>>

\* ... and ignores a deletion that fails.
DropFails ==
    /\ guard # <<>>
    /\ Fault
    /\ guard' = Tail(guard)
    /\ unchecked' = unchecked + 1
    /\ UNCHANGED <<natRules, setup>>
===============================================================================
