------------------------- MODULE MCNestedPipeline --------------------------
(* Pipelines that a driver runs inside the program.                       *)
EXTENDS NestedPipeline

FileUpper == <<ReadFile, Upper>>
AllDrivers == {"read", "write", "tee", "pipe"}
=============================================================================
