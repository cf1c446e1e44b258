----------------------------- MODULE MCReaders ------------------------------
(* The readers; for hex, payloads of even lengths only, of odd ones only,  *)
(* or of both; with a newline at the end of the stream only, or none.      *)
EXTENDS Readers

AllLengths   == 0..3
OneParity    == {{0, 2}, {0, 1, 3}}
BothParities == {AllLengths}
LastNewline  == {{}, {Limit}}
Sound        == {"hex", "full", "message", "line", "step"}
=============================================================================
