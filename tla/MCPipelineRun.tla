----------------------------- MODULE MCPipelineRun -----------------------------
(* Three model sets, two of them with the same feature schemas. *)
EXTENDS PipelineRun, TLC

CONSTANTS m1, m2, m3, f1, f2

MCSchemaOf == (m1 :> f1) @@ (m2 :> f1) @@ (m3 :> f2)
=============================================================================
