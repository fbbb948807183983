---------------------------- MODULE HostChassis ----------------------------
(***************************************************************************)
(* What reconciling the chassis annotation promises to everybody who reads *)
(* it on the Node of the host: an id that is there is withdrawn only when  *)
(* it is not the id the DPU has now, and a new one is only ever put where  *)
(* there is none. System ids are numbered in the order the DPU gets them.  *)
(***************************************************************************)
EXTENDS Naturals

CONSTANT None

VARIABLES
    sid,     \* the system-id of the DPU's Open vSwitch
    chassis  \* the chassis id on the Node of the host

vars == <<sid, chassis>>

Init == sid = 1 /\ chassis \in {None, 0, 1}

Reprovision == sid' = sid + 1 /\ UNCHANGED chassis

Register == chassis = None /\ chassis' \in 0..sid /\ UNCHANGED sid

Withdraw == chassis \notin {None, sid} /\ chassis' = None /\ UNCHANGED sid

Next == Reprovision \/ Register \/ Withdraw

Spec == Init /\ [][Next]_vars

=============================================================================
