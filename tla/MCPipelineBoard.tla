--------------------------- MODULE MCPipelineBoard ---------------------------
(* Small instances of PipelineBoard for TLC. *)
EXTENDS PipelineBoard

CONSTANTS i1, i2
=============================================================================
