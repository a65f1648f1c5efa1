-------------------------- MODULE MCPipelineWorker --------------------------
(* Small instances of PipelineWorker. *)
EXTENDS PipelineWorker, TLC

CONSTANTS p1, h1

MC_OnePayload == (p1 :> h1)
=============================================================================
