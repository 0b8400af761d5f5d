---------------------------- MODULE MCPipelineQueue ----------------------------
(* Two live files and two replay overlays of one maintenance event. *)
EXTENDS PipelineQueue, TLC

CONSTANTS l1, l2, r1, r2, e1

MCSources == {l1, l2, r1, r2}
MCEventOf == (l1 :> NoEvent) @@ (l2 :> NoEvent) @@ (r1 :> e1) @@ (r2 :> e1)

(* sourceOf of a row not added yet is not read: it is one value. *)
MCInit == Init /\ sourceOf = [j \in Jobs |-> l1]
MCSpec == MCInit /\ [][Next]_vars
MCFairSpec == MCSpec /\ WF_vars(WorkerStep) /\ WF_vars(Start)
=============================================================================
