----------------------------- MODULE MCPipeline -----------------------------
(* Command lines that TLC runs Pipeline on.                                *)
EXTENDS Pipeline

CopyLine   == <<Stdin, Upper, Lower, Stdout>>
DigestLine == <<ReadFile, HexDecode, Dgst, Null>>
=============================================================================
