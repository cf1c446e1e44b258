----------------------------- MODULE ByteStream -----------------------------
(***************************************************************************)
(* What a command line that copies its standard input promises: payloads   *)
(* are read one after the other, written in that order and once, and the   *)
(* program is over only when all that could be read was written.           *)
(***************************************************************************)
EXTENDS Integers, Sequences

CONSTANT Payloads

VARIABLES read, wrote, over

streamState == <<read, wrote, over>>

Init == read = 0 /\ wrote = <<>> /\ over = FALSE

Read == /\ ~over /\ read < Payloads
        /\ read' = read + 1
        /\ UNCHANGED <<wrote, over>>

Write == /\ ~over /\ Len(wrote) < read
         /\ wrote' = Append(wrote, Len(wrote) + 1)
         /\ UNCHANGED <<read, over>>

Exit == /\ ~over /\ Len(wrote) = Payloads
        /\ over' = TRUE
        /\ UNCHANGED <<read, wrote>>

Next == Read \/ Write \/ Exit

Spec == Init /\ [][Next]_streamState /\ WF_streamState(Next)
=============================================================================
