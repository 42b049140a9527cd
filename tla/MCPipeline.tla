------------------------------ MODULE MCPipeline ------------------------------
(* Pipeline for TLC.                                                         *)
EXTENDS Pipeline
=============================================================================
