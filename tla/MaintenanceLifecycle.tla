------------------------- MODULE MaintenanceLifecycle -------------------------
(***************************************************************************)
(* What the maintenance loop promises about a maintenance case, from the   *)
(* recommendation an operator writes after an inspection to the replay of  *)
(* the simulation: every stage is entered once and never left backwards,   *)
(* the integration events of a case are published in the order of their    *)
(* state_version, and a machine's state takes every completed maintenance  *)
(* in exactly one step.                                                    *)
(***************************************************************************)
EXTENDS Naturals, Sequences

CONSTANTS
    Cases,      \* maintenance cases, one recommendation each
    Machines,
    MachineOf   \* MachineOf[c]: the machine case c is about

VARIABLES
    stage,      \* stage[c]
    published,  \* the integration events, in the order of their transactions
    equipment   \* equipment[m]: version and the maintenances its state contains

Init ==
    /\ stage = [c \in Cases |-> "none"]
    /\ published = <<>>
    /\ equipment = [m \in Machines |-> [version |-> 0, applied |-> {}]]

Enter(c, from, to) ==
    /\ stage[c] \in from
    /\ stage' = [stage EXCEPT ![c] = to]

PublishEvent(c, version) == published' = Append(published, [case |-> c, version |-> version])

Decide(c) ==
    /\ \/ Enter(c, {"none"}, "proposed")
       \/ Enter(c, {"proposed"}, "deferred")
       \/ Enter(c, {"proposed", "deferred"}, "rejected")
       \/ Enter(c, {"proposed", "deferred"}, "requested")
       \/ Enter(c, {"requested"}, "approved")
    /\ UNCHANGED <<published, equipment>>

StartWork(c) ==
    /\ Enter(c, {"approved"}, "in_progress")
    /\ PublishEvent(c, 1)
    /\ UNCHANGED equipment

CompleteWork(c) ==
    /\ Enter(c, {"in_progress"}, "completed")
    /\ PublishEvent(c, 2)
    /\ LET m == MachineOf[c]
       IN equipment' = [equipment EXCEPT
              ![m] = [version |-> @.version + 1, applied |-> @.applied \cup {c}]]

RequestReplay(c) ==
    /\ Enter(c, {"completed"}, "replayed")
    /\ PublishEvent(c, 3)
    /\ UNCHANGED equipment

Next == \E c \in Cases : Decide(c) \/ StartWork(c) \/ CompleteWork(c) \/ RequestReplay(c)

Spec == Init /\ [][Next]_<<stage, published, equipment>>
=============================================================================
