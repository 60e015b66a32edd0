------------------------------ MODULE MCPipeline ------------------------------
(* Small instances of Pipeline for TLC: a message that can be indexed, but *)
(* may end in the DLQ as well, and one of an unsupported version.          *)
EXTENDS Pipeline, TLC

CONSTANTS good, newer, s1, none

PipelineKind == (good :> "valid") @@ (newer :> "unknown")
===============================================================================
