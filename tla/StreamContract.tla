--------------------------- MODULE StreamContract ---------------------------
(***************************************************************************)
(* What a handler owes its neighbours for one stream: it takes payloads    *)
(* until its sender closes the channel, closes its own channel once and    *)
(* sends nothing after that, and leaves the WaitGroup only when both       *)
(* channels have ended, which they do at last.                             *)
(***************************************************************************)
EXTENDS Integers

CONSTANT Payloads

VARIABLES
  taken,     \* payloads taken from the sender
  sent,      \* payloads handed to the receiver
  inClosed,  \* the sender closed its channel
  outClosed, \* the handler closed its own
  over       \* the handler has returned

streamVars == <<taken, sent, inClosed, outClosed, over>>

Init == /\ taken = 0 /\ sent = 0
        /\ inClosed = FALSE /\ outClosed = FALSE /\ over = FALSE

Take == /\ ~inClosed /\ ~over /\ taken < Payloads
        /\ taken' = taken + 1
        /\ UNCHANGED <<sent, inClosed, outClosed, over>>

EndInput == /\ ~inClosed
            /\ inClosed' = TRUE
            /\ UNCHANGED <<taken, sent, outClosed, over>>

Hand == /\ ~outClosed /\ ~over
        /\ sent' = sent + 1
        /\ UNCHANGED <<taken, inClosed, outClosed, over>>

EndOutput == /\ ~outClosed /\ ~over
             /\ outClosed' = TRUE
             /\ UNCHANGED <<taken, sent, inClosed, over>>

Return == /\ inClosed /\ outClosed /\ ~over
          /\ over' = TRUE
          /\ UNCHANGED <<taken, sent, inClosed, outClosed>>

Next == Take \/ EndInput \/ Hand \/ EndOutput \/ Return

Spec == Init /\ [][Next]_streamVars /\ <>over
=============================================================================
