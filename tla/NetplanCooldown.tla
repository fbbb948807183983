-------------------------- MODULE NetplanCooldown --------------------------
(***************************************************************************)
(* runNetplanApply: when br-ovn does not have exactly one address, a pass  *)
(* of the provisioner runs "netplan apply", at most once in a cooldown.    *)
(* The time of the last success is kept in a file, in whole seconds,       *)
(* because the process may be restarted in between.                        *)
(*                                                                         *)
(* Time advances in ticks, and the clock may be set: a DPU boots with an   *)
(* old time until NTP corrects it. Only time differences matter, so the    *)
(* model keeps ages: what the clock makes of them (age, stamp) and what    *)
(* they really are (since, recorded). They stop growing at Horizon, from   *)
(* where no correction of the clock brings them back into the cooldown.    *)
(***************************************************************************)
EXTENDS Integers

CONSTANTS
    TicksPerSecond,  \* how much finer the clock is than the file
    Cooldown,        \* netplanApplyCooldownDuration, in ticks
    MaxBack,         \* bound on the ticks the clock is set back, in total
    MaxForward,      \* bound on the ticks it is set forward, in total
    MaxFaults        \* bound on failing commands, failing writes and crashes

ASSUME ClockAssumption ==
    /\ TicksPerSecond \in Nat \ {0} /\ Cooldown \in Nat
    /\ TicksPerSecond <= Cooldown
ASSUME BoundAssumption ==
    MaxFaults \in Nat /\ MaxBack \in Nat /\ MaxForward \in Nat

VARIABLES
    file,      \* .dpucniprovisioner.done: "missing", "blank" or "stamped"
    age,       \* how long ago the time in the file is, by the clock
    epoch,     \* how long ago 1970 is, by the clock
    phase,     \* the fraction of a second the clock shows, in ticks
    needed,    \* br-ovn does not have exactly one address
    pc,        \* "idle", "apply" (netplan runs), "open", "write"
    stamp,     \* the same for the time that is about to be written
    since,     \* history: real time since the last apply that succeeded
    recorded,  \* history: the same for the last one that is in the file
    back,      \* history: how much the clock was set back, in total
    forward,   \* history: how much it was set forward
    faults

vars == <<file, age, epoch, phase, needed, pc, stamp, since, recorded, back,
          forward, faults>>
ages == <<age, epoch, stamp, since, recorded>>
settings == <<back, forward>>

Horizon == Cooldown + MaxBack

TypeOK ==
    /\ file \in {"missing", "blank", "stamped"}
    /\ pc \in {"idle", "apply", "open", "write"}
    /\ phase \in 0..(TicksPerSecond - 1)
    /\ age \in -MaxBack..Horizon /\ stamp \in -MaxBack..Horizon
    /\ since \in 0..Horizon /\ recorded \in 0..Horizon /\ epoch \in 0..Horizon
    /\ back \in 0..MaxBack /\ forward \in 0..MaxForward
    /\ needed \in BOOLEAN
    /\ faults \in 0..MaxFaults

\* netplan was never applied. The clock of a DPU without a battery starts in 1970.
Init ==
    /\ file = "missing" /\ pc = "idle" /\ needed \in BOOLEAN /\ faults = 0
    /\ phase \in 0..(TicksPerSecond - 1)
    /\ epoch \in {e \in 0..Horizon : e < Horizon => phase = e % TicksPerSecond}
    /\ age = Horizon /\ stamp = Horizon
    /\ since = Horizon /\ recorded = Horizon
    /\ back = 0 /\ forward = 0

-----------------------------------------------------------------------------
Older(a, d) == IF a + d < Horizon THEN a + d ELSE Horizon

Tick ==
    /\ phase' = (phase + 1) % TicksPerSecond
    /\ age' = Older(age, 1) /\ epoch' = Older(epoch, 1) /\ stamp' = Older(stamp, 1)
    /\ since' = Older(since, 1) /\ recorded' = Older(recorded, 1)
    /\ UNCHANGED <<file, needed, pc, settings, faults>>

\* The clock is corrected by d ticks.
SetClock(d) ==
    /\ phase' = (phase + d) % TicksPerSecond
    /\ age' = Older(age, d) /\ epoch' = Older(epoch, d) /\ stamp' = Older(stamp, d)
    /\ UNCHANGED <<file, needed, pc, since, recorded, faults>>

\* There is no time before 1970.
ClockSetBack ==
    \E d \in 1..(MaxBack - back) :
        d <= epoch /\ SetClock(-d) /\ back' = back + d /\ UNCHANGED forward

ClockSetForward ==
    \E d \in 1..(MaxForward - forward) :
        SetClock(d) /\ forward' = forward + d /\ UNCHANGED back

\* The DHCP server assigns or takes away the address of br-ovn.
LeaseChanges ==
    /\ needed' = ~needed
    /\ UNCHANGED <<file, ages, phase, pc, settings, faults>>

\* A missing file and a blank one count as a success in 1970.
SinceLastSuccess == IF file = "stamped" THEN age ELSE epoch

\* A mutated form for the checks: Before instead of After.
InCooldown_Reversed == SinceLastSuccess >= Cooldown

InCooldown == SinceLastSuccess < Cooldown

\* A mutated form for the checks: a blank file is parsed as a number.
StartApply_BlankIsError ==
    /\ pc = "idle" /\ needed /\ ~InCooldown /\ file # "blank"
    /\ pc' = "apply"
    /\ UNCHANGED <<file, ages, phase, needed, settings, faults>>

\* A pass finds that the address is missing and that the cooldown is over.
StartApply ==
    /\ pc = "idle" /\ needed /\ ~InCooldown
    /\ pc' = "apply"
    /\ UNCHANGED <<file, ages, phase, needed, settings, faults>>

\* The command succeeds; the clock is read again, and cut to seconds.
ApplySucceeds ==
    /\ pc = "apply"
    /\ pc' = "open"
    /\ stamp' = phase /\ since' = 0
    /\ UNCHANGED <<file, age, epoch, recorded, phase, needed, settings, faults>>

\* os.WriteFile: open with O_TRUNC, then write.
OpenDoneFile ==
    /\ pc = "open"
    /\ pc' = "write"
    /\ file' = "blank"
    /\ UNCHANGED <<ages, phase, needed, settings, faults>>

\* A mutated form for the checks: the file holds the end of the cooldown.
WriteDoneFile_Until ==
    /\ pc = "write"
    /\ pc' = "idle"
    /\ file' = "stamped" /\ age' = stamp - Cooldown /\ recorded' = since
    /\ UNCHANGED <<epoch, stamp, since, phase, needed, settings, faults>>

WriteDoneFile ==
    /\ pc = "write"
    /\ pc' = "idle"
    /\ file' = "stamped" /\ age' = stamp /\ recorded' = since
    /\ UNCHANGED <<epoch, stamp, since, phase, needed, settings, faults>>

\* netplan fails, the file cannot be opened or written, or the process is gone.
\* The next pass starts from the file.
Fails ==
    /\ pc # "idle"
    /\ faults < MaxFaults /\ faults' = faults + 1
    /\ pc' = "idle"
    /\ UNCHANGED <<file, ages, phase, needed, settings>>

Next ==
    \/ Tick \/ ClockSetBack \/ ClockSetForward \/ LeaseChanges
    \/ StartApply \/ ApplySucceeds \/ OpenDoneFile \/ WriteDoneFile \/ Fails

\* Time passes, passes are made for ever, and a call ends before for ever.
Fairness ==
    /\ WF_vars(Tick) /\ WF_vars(StartApply) /\ WF_vars(ApplySucceeds)
    /\ WF_vars(OpenDoneFile) /\ WF_vars(WriteDoneFile)

Spec == Init /\ [][Next]_vars
FairSpec == Spec /\ Fairness

-----------------------------------------------------------------------------
StartsApply == pc # "apply" /\ pc' = "apply"

\* Once a success is in the file, netplan is not applied again before the
\* cooldown is over, but for the fraction of a second the file does not show and
\* for what the clock was set forward; not even when later attempts fail or the
\* process is restarted.
AppliesSpaced ==
    [][StartsApply => recorded + forward + TicksPerSecond > Cooldown]_vars

\* The cooldown comes to an end. Setting the clock back puts the time in the file
\* into the future: it prolongs the cooldown by as much, and by no more. Without a
\* time in the file there is one only while the clock is that close to 1970.
CooldownEnds ==
    InCooldown /\ (file = "stamped" \/ epoch >= Cooldown) => recorded < Cooldown + back

\* Unless the clock is that close to 1970, an attempt is skipped only on a DPU where
\* netplan has been applied: recorded is at Horizon before the first success.
SkipsOnlyApplied == InCooldown /\ epoch >= Cooldown => recorded < Horizon

\* While br-ovn stays without its address, netplan is applied again and again:
\* no file that a crash leaves behind stops it.
AppliedAgain == <>[]needed => []<>(pc = "apply")

\* The same as AppliesSpaced for every success, in the file or not, with a clock
\* that is never set: netplanApplyCooldownDuration "determines the cooldown
\* period of a successful netplan apply command before a subsequent netplan apply
\* command is executed".
CooldownHonoured ==
    [][StartsApply => since + TicksPerSecond > Cooldown]_vars

\* The inductive invariant: the clock makes an age older by at most what it was
\* set forward and by the fraction of a second that is cut, younger by at most
\* what it was set back, and until a new success is in the file, the last one in
\* it stays old.
Skewed(shown, real) ==
    /\ shown < real + TicksPerSecond + forward
    /\ real - back <= shown

IInv ==
    /\ TypeOK
    /\ -back <= age /\ -back <= stamp
    /\ file = "stamped" => Skewed(age, recorded)
    /\ pc \in {"open", "write"} => Skewed(stamp, since)
    /\ pc # "idle" \/ file # "stamped" =>
           recorded + forward + TicksPerSecond > Cooldown

=============================================================================
