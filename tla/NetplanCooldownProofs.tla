----------------------- MODULE NetplanCooldownProofs -----------------------
(***************************************************************************)
(* The cooldown of netplan apply, for every cooldown, every resolution of  *)
(* the clock and any number of failures.                                   *)
(***************************************************************************)
EXTENDS NetplanCooldown, TLAPS

\* The initial states satisfy the inductive invariant.
LEMMA InitInv == Init => IInv
BY ClockAssumption, BoundAssumption DEF Init, IInv, TypeOK, Skewed, Horizon

\* Every step of runNetplanApply, of the clock and of the DHCP server, and every
\* failure, preserves the inductive invariant.
LEMMA NextInv == IInv /\ [Next]_vars => IInv'
<1> SUFFICES ASSUME IInv, [Next]_vars PROVE IInv'
    OBVIOUS
<1> USE ClockAssumption, BoundAssumption
<1> USE DEF IInv, TypeOK, Skewed
<1>1. CASE Tick
    <2>1. phase' \in 0..(TicksPerSecond - 1)
        BY <1>1 DEF Tick
    <2>2. UNCHANGED <<file, needed, pc, back, forward, faults>>
        BY <1>1 DEF Tick, settings
    <2>3. QED
        BY <1>1, <2>1, <2>2 DEF Tick, Older, Horizon
<1>2. CASE ClockSetBack
    <2>1. PICK d \in 1..(MaxBack - back) :
              d <= epoch /\ SetClock(-d) /\ back' = back + d /\ UNCHANGED forward
        BY <1>2 DEF ClockSetBack
    <2>2. phase' \in 0..(TicksPerSecond - 1)
        BY <2>1 DEF SetClock
    <2>3. /\ back' \in 0..MaxBack /\ -d \in Int
          /\ epoch - d \in 0..Horizon
        BY <2>1 DEF Horizon
    <2>4. QED
        BY <2>1, <2>2, <2>3 DEF SetClock, Older, Horizon
<1>3. CASE ClockSetForward
    <2>1. PICK d \in 1..(MaxForward - forward) :
              SetClock(d) /\ forward' = forward + d /\ UNCHANGED back
        BY <1>3 DEF ClockSetForward
    <2>2. phase' \in 0..(TicksPerSecond - 1)
        BY <2>1 DEF SetClock
    <2>3. forward' \in 0..MaxForward
        BY <2>1
    <2>4. QED
        BY <2>1, <2>2, <2>3 DEF SetClock, Older, Horizon
<1>4. CASE LeaseChanges
    BY <1>4 DEF LeaseChanges, ages, settings
<1>5. CASE StartApply
    BY <1>5 DEF StartApply, InCooldown, SinceLastSuccess, ages, settings
<1>6. CASE ApplySucceeds
    BY <1>6 DEF ApplySucceeds, settings, Horizon
<1>7. CASE OpenDoneFile
    BY <1>7 DEF OpenDoneFile, ages, settings
<1>8. CASE WriteDoneFile
    BY <1>8 DEF WriteDoneFile, settings
<1>9. CASE Fails
    BY <1>9 DEF Fails, ages, settings
<1>10. CASE UNCHANGED vars
    BY <1>10 DEF vars
<1>11. QED
    BY <1>1, <1>2, <1>3, <1>4, <1>5, <1>6, <1>7, <1>8, <1>9, <1>10 DEF Next

\* The inductive invariant of the cooldown holds.
THEOREM Inductive == Spec => []IInv
BY InitInv, NextInv, PTL DEF Spec

\* A success that is in the file keeps netplan from being applied for the
\* cooldown, up to the fraction of a second that the file does not show and what
\* the clock was set forward.
THEOREM Spaced == Spec => AppliesSpaced
<1>1. IInv /\ [Next]_vars =>
          [StartsApply => recorded + forward + TicksPerSecond > Cooldown]_vars
    <2> SUFFICES ASSUME IInv, Next, StartsApply
                 PROVE  recorded + forward + TicksPerSecond > Cooldown
        BY DEF vars
    <2>1. StartApply
        BY DEF Next, StartsApply, Tick, ClockSetBack, ClockSetForward, SetClock,
               LeaseChanges, ApplySucceeds, OpenDoneFile, WriteDoneFile, Fails
    <2>2. QED
        BY <2>1, ClockAssumption, BoundAssumption
        DEF StartApply, InCooldown, SinceLastSuccess, IInv, TypeOK, Skewed
<1>2. QED
    BY <1>1, Inductive, PTL DEF Spec, AppliesSpaced

\* A time in the future does not stop netplan for good: the cooldown is longer by
\* what the clock was set back, and by no more.
THEOREM Ends == Spec => []CooldownEnds
<1>1. IInv => CooldownEnds
    BY ClockAssumption, BoundAssumption
    DEF IInv, TypeOK, Skewed, InCooldown, SinceLastSuccess,
        CooldownEnds, Horizon
<1>2. QED
    BY <1>1, Inductive, PTL

\* A pass skips netplan only where it has been applied before: what Provisioner's
\* RunNetplanApply takes from this component.
THEOREM Skips == Spec => []SkipsOnlyApplied
<1>1. IInv => SkipsOnlyApplied
    BY ClockAssumption, BoundAssumption
    DEF IInv, TypeOK, Skewed, InCooldown, SinceLastSuccess,
        SkipsOnlyApplied, Horizon
<1>2. QED
    BY <1>1, Inductive, PTL

=============================================================================
