---------------------------- MODULE PipedStream -----------------------------
(***************************************************************************)
(* One stream of the modules whose handler runs several goroutines around  *)
(* a pipe, a connection or a process: base64, gunzip, write-s3,            *)
(* write-elasticsearch, http, fork, tcp, websocket and aes-gcm --decrypt.  *)
(* What surrounds the handler is the module that sends to it, the one that *)
(* receives from it and the loop that waits for it (module Pipeline).      *)
(*                                                                         *)
(* A goroutine is the list of what it has left to do: its loop first, then *)
(* what follows the loop, deferred calls included, in the order they run.  *)
(***************************************************************************)
EXTENDS Integers, Sequences

CONSTANTS
  Kinds,     \* the kinds of handler a run looks at
  Payloads,  \* payloads the sender may send
  Replies    \* bound: payloads a remote side or a process sends

(* counted  the goroutines the module's WaitGroup counts                   *)
(* main     what the handler does once its callback returned; in, out and  *)
(*          run are the goroutines it starts                               *)
(* giveUp   what it does instead when it cannot start them, if it can fail *)
(* room     payloads the pipe holds: none in an io.Pipe                    *)
(* cancels  the loop on `inc' also selects on a channel                    *)
(* pings    it also writes to the connection now and then                  *)
(* far      who reads the pipe: the handler itself or something else       *)
(* emits    what comes out for the payloads read from the pipe             *)
(* corrupt  reading the pipe may end with an error                         *)
(* headers  http shows a response's headers before it looks for an error   *)
Codec == [counted |-> {"main", "in", "out"},
          main |-> <<"spawn">>,
          in   |-> <<"copy", "closeWriter", "drain">>,
          out  |-> <<"produce", "closeOut">>,
          run  |-> <<>>,
          giveUp |-> <<>>, room |-> 0, cancels |-> FALSE, pings |-> FALSE,
          far |-> "self", emits |-> "all", corrupt |-> TRUE, headers |-> FALSE]

Gunzip == Codec

(* No wg.Add(1) in the loop: the handler itself calls wg.Add(2). *)
Base64Decode == [Codec EXCEPT !.counted = {"in", "out"}]
Base64Encode == [Base64Decode EXCEPT !.corrupt = FALSE,
                   !.out = <<"produce", "closeReader", "closeOut">>]

WriteS3 == [Codec EXCEPT !.counted = {"main"}, !.emits = "none",
              !.main = <<"spawn", "produce", "closeReader", "closeOut", "join">>,
              !.out = <<>>, !.giveUp = <<"closeOut", "drain">>]

WriteElasticsearch ==
  [Codec EXCEPT !.counted = {"main"}, !.emits = "some",
     !.main = <<"spawn", "join", "drain", "closeOut">>,
     !.out = <<"produce", "closeReader">>, !.giveUp = <<"drain", "closeOut">>]

(* MessageReader is the goroutine that writes the pipe. *)
AesDecrypt ==
  [Codec EXCEPT !.counted = {"main"}, !.cancels = TRUE,
     !.main = <<"spawn", "produce", "closeWriter", "sync", "closeOut", "drain">>,
     !.in = <<"copy", "closeWriter", "awaitSync">>, !.out = <<>>]

(* With --data, without, and with --show-server-headers *)
HttpData ==
  [Codec EXCEPT !.counted = {"main", "in"}, !.cancels = TRUE,
     !.main = <<"spawn", "goahead", "request">>,
     !.in = <<"copy", "closeWriter", "awaitCancel", "drain">>,
     !.out = <<>>, !.giveUp = <<"closeOut", "drain">>,
     !.far = "transport", !.emits = "any"]
Http        == [HttpData EXCEPT !.in = Tail(@)]
HttpHeaders == [Http EXCEPT !.headers = TRUE]

Fork == [Codec EXCEPT !.counted = {"main", "in", "out", "run"},
           !.cancels = TRUE, !.in = <<"copy", "drain", "closeWriter">>,
           !.run = <<"process", "cancel">>, !.giveUp = <<"drain">>,
           !.room = 1, !.far = "process", !.emits = "any"]

Tcp == [Codec EXCEPT !.counted = {"main"},
          !.main = <<"spawn", "join", "closeConn">>,
          !.in = <<"copy", "drain", "closeConn">>,
          !.out = <<"produce", "closeConn", "closeOut">>,
          !.giveUp = <<"closeOut", "drain">>,
          !.room = 1, !.far = "remote", !.emits = "any"]

Websocket ==
  [Tcp EXCEPT !.counted = {"main", "in", "out"}, !.main = <<"spawn">>,
     !.pings = TRUE,
     !.in = <<"copy", "awaitPeer", "closeConn", "drain">>,
     !.out = <<"produce", "cancel", "closeOut">>]

AllKinds == {Gunzip, Base64Decode, Base64Encode, WriteS3, WriteElasticsearch,
             AesDecrypt, HttpData, Http, HttpHeaders, Fork, Tcp, Websocket}
(* A kind whose input is well-formed, or whose set-up succeeds. *)
Intact(k)    == [k EXCEPT !.corrupt = FALSE]
Started(k)   == [k EXCEPT !.giveUp = <<>>]
(* A remote side that reads what it is sent, or hangs up. *)
Attentive(k) == [k EXCEPT !.far = IF @ = "remote" THEN "attentive" ELSE @]

Goroutines == {"main", "in", "out", "run"}
Steps == {"setup", "spawn", "copy", "produce", "closeWriter", "closeReader",
          "closeConn", "closeOut", "drain", "join", "sync", "awaitSync",
          "goahead", "request", "response", "tell", "cancel", "awaitCancel",
          "awaitPeer", "process", "done"}

ASSUME PipedStreamAssumption ==
  /\ Kinds \subseteq UNION {{k, Intact(k), Started(k), Attentive(k)} : k \in AllKinds}
  /\ Payloads \in Nat
  /\ Replies \in Nat

VARIABLES
  kind,      \* the handler looked at
  todo,      \* what each goroutine has left to do
  taken,     \* payloads taken from the sender
  offer,     \* the sender has one more to hand over
  inClosed,  \* the sender closed `inc'
  hand,      \* goroutine `in' holds a payload to write
  wire,      \* payloads in the pipe
  writer,    \* the pipe's writer is open
  reader,    \* its reader: "idle" as long as nobody uses it
  got,       \* payloads read from the pipe
  reply,     \* a payload waits to be received from `outc'
  sent,      \* payloads received from it
  outClosed, \* `outc' is closed
  cancelled, \* `cancel', or `donec', is closed
  failed,    \* something went wrong on the way
  loop,      \* the module's loop: "wait" in wg.Wait(), then "terminated"
  panic      \* what a goroutine panicked on, and with it the program

pipeVars == <<hand, wire, writer, reader, got>>
outVars  == <<reply, sent, outClosed>>
inVars   == <<taken, offer, inClosed>>
vars == <<kind, todo, inVars, pipeVars, outVars, cancelled, failed,
          loop, panic>>

TypeOK ==
  /\ kind \in Kinds
  /\ todo \in [Goroutines -> Seq(Steps)]
  /\ taken \in 0..Payloads
  /\ offer \in BOOLEAN
  /\ inClosed \in BOOLEAN
  /\ hand \in BOOLEAN
  /\ wire \in 0..kind.room
  /\ writer \in BOOLEAN
  /\ reader \in {"idle", "open", "closed"}
  /\ got \in 0..taken
  /\ reply \in BOOLEAN
  /\ sent \in 0..(Payloads + Replies)
  /\ outClosed \in BOOLEAN
  /\ cancelled \in BOOLEAN
  /\ failed \in BOOLEAN
  /\ loop \in {"wait", "terminated"}
  /\ panic \in {"none", "channel", "nil"}

Init ==
  /\ kind \in Kinds
  /\ todo = [g \in Goroutines |-> IF g = "main" THEN <<"setup">> ELSE <<>>]
  /\ taken = 0
  /\ offer = FALSE
  /\ inClosed = FALSE
  /\ hand = FALSE
  /\ wire = 0
  /\ writer = TRUE
  /\ reader = IF kind.far = "transport" THEN "idle" ELSE "open"
  /\ got = 0
  /\ reply = FALSE
  /\ sent = 0
  /\ outClosed = FALSE
  /\ cancelled = FALSE
  /\ failed = FALSE
  /\ loop = "wait"
  /\ panic = "none"

-----------------------------------------------------------------------------
At(g, step)  == todo[g] # <<>> /\ Head(todo[g]) = step
Go(g)        == todo' = [todo EXCEPT ![g] = Tail(@)]
Leaving(g, steps) == todo' = [todo EXCEPT ![g] = steps]

(* The last thing a goroutine does is wg.Done(). *)
Whole(steps) == Append(steps, "done")

Exited == ~At("run", "process")

(* The module that sends: one payload after the other, then close. *)
Offer ==
  /\ ~inClosed /\ ~offer /\ taken < Payloads
  /\ offer' = TRUE
  /\ UNCHANGED <<kind, todo, taken, inClosed, pipeVars, outVars, cancelled,
                 failed, loop, panic>>

CloseInput ==
  /\ ~inClosed /\ ~offer
  /\ inClosed' = TRUE
  /\ UNCHANGED <<kind, todo, taken, offer, pipeVars, outVars, cancelled,
                 failed, loop, panic>>

(* The module that receives. *)
Deliver ==
  /\ reply
  /\ reply' = FALSE
  /\ sent' = sent + 1
  /\ UNCHANGED <<kind, todo, inVars, pipeVars, outClosed, cancelled, failed,
                 loop, panic>>

(* wg.Wait() in the loop, and without its wg.Add(1) *)
WaitedLate == \A g \in kind.counted \ {"main"} : todo[g] = <<>>
Waited     == \A g \in kind.counted : todo[g] = <<>>

Terminate ==
  /\ loop = "wait"
  /\ Waited
  /\ loop' = "terminated"
  /\ UNCHANGED <<kind, todo, inVars, pipeVars, outVars, cancelled, failed,
                 panic>>

-----------------------------------------------------------------------------
(* The handler *)

(* mc.Start, cb(), then the templates, the dialing or os.Pipe. *)
Setup ==
  /\ At("main", "setup")
  /\ \/ Leaving("main", Whole(kind.main)) /\ UNCHANGED failed
     \/ /\ kind.giveUp # <<>>
        /\ Leaving("main", Whole(kind.giveUp))
        /\ failed' = TRUE
  /\ UNCHANGED <<kind, inVars, pipeVars, outVars, cancelled, loop, panic>>

(* go func() { ... }() for each of them *)
Program(g) == CASE g = "main" -> Tail(todo["main"])
                [] g = "in"   -> Whole(kind.in)
                [] g = "out"  -> IF kind.out = <<>> THEN <<>> ELSE Whole(kind.out)
                [] g = "run"  -> IF kind.run = <<>> THEN <<>> ELSE Whole(kind.run)

Spawn ==
  /\ At("main", "spawn")
  /\ todo' = [g \in Goroutines |-> Program(g)]
  /\ UNCHANGED <<kind, inVars, pipeVars, outVars, cancelled, failed, loop,
                 panic>>

(* wg.Done() *)
Return(g) ==
  /\ At(g, "done")
  /\ Go(g)
  /\ UNCHANGED <<kind, inVars, pipeVars, outVars, cancelled, failed, loop,
                 panic>>

(* Faulty variant: the WaitGroup counts the first goroutine only. *)
JoinEarly ==
  /\ At("main", "join")
  /\ todo["in"] = <<>>
  /\ Go("main")
  /\ UNCHANGED <<kind, inVars, pipeVars, outVars, cancelled, failed, loop,
                 panic>>

(* wg.Wait() on the handler's own WaitGroup *)
Join ==
  /\ At("main", "join")
  /\ todo["in"] = <<>> /\ todo["out"] = <<>>
  /\ Go("main")
  /\ UNCHANGED <<kind, inVars, pipeVars, outVars, cancelled, failed, loop,
                 panic>>

-----------------------------------------------------------------------------
(* From `inc' into the pipe *)

Take ==
  /\ At("in", "copy") /\ ~hand
  /\ offer
  /\ offer' = FALSE
  /\ taken' = taken + 1
  /\ hand' = TRUE
  /\ UNCHANGED <<kind, todo, inClosed, wire, writer, reader, got, outVars,
                 cancelled, failed, loop, panic>>

(* range inc ends, or the select sees it closed. *)
InputEnds ==
  /\ At("in", "copy") /\ ~hand
  /\ inClosed
  /\ Go("in")
  /\ UNCHANGED <<kind, inVars, pipeVars, outVars, cancelled, failed, loop,
                 panic>>

(* case <- cancel *)
Cancelled ==
  /\ At("in", "copy") /\ ~hand
  /\ kind.cancels /\ cancelled
  /\ Go("in")
  /\ UNCHANGED <<kind, inVars, pipeVars, outVars, cancelled, failed, loop,
                 panic>>

(* A pipe of the kernel takes the payload when it has room; from an        *)
(* io.Pipe its reader takes it (Read).                                     *)
Write ==
  /\ hand /\ writer /\ reader # "closed"
  /\ wire < kind.room
  /\ wire' = wire + 1
  /\ hand' = FALSE
  /\ UNCHANGED <<kind, todo, inVars, writer, reader, got, outVars, cancelled,
                 failed, loop, panic>>

WriteFails ==
  /\ hand /\ (~writer \/ reader = "closed")
  /\ hand' = FALSE
  /\ Go("in")
  /\ failed' = TRUE
  /\ UNCHANGED <<kind, inVars, wire, writer, reader, got, outVars, cancelled,
                 loop, panic>>

(* websocket: the ping cannot be written. *)
PingFails ==
  /\ kind.pings
  /\ At("in", "copy") /\ ~hand
  /\ reader = "closed"
  /\ Go("in")
  /\ failed' = TRUE
  /\ UNCHANGED <<kind, inVars, pipeVars, outVars, cancelled, loop, panic>>

(* Faulty variant: the rest of the input is left to the sender. *)
NoDrain(g) ==
  /\ At(g, "drain")
  /\ Go(g)
  /\ UNCHANGED <<kind, inVars, pipeVars, outVars, cancelled, failed, loop,
                 panic>>

(* DrainChannel(inc, nil) *)
Drain(g) ==
  /\ At(g, "drain")
  /\ \/ /\ offer
        /\ offer' = FALSE
        /\ taken' = taken + 1
        /\ UNCHANGED <<todo, inClosed>>
     \/ /\ inClosed
        /\ Go(g)
        /\ UNCHANGED inVars
  /\ UNCHANGED <<kind, pipeVars, outVars, cancelled, failed, loop, panic>>

-----------------------------------------------------------------------------
(* Out of the pipe *)

(* Faulty variant: the payload is read and stays. *)
Peek == (wire > 0 \/ hand) /\ UNCHANGED <<hand, wire>>

Consume ==
  \/ wire > 0 /\ wire' = wire - 1 /\ UNCHANGED hand
  \/ kind.room = 0 /\ hand /\ writer /\ hand' = FALSE /\ UNCHANGED wire

Reads(g) == IF kind.far = "self" THEN At(g, "produce") /\ ~reply
            ELSE g = "run" /\ (kind.far = "process" => ~Exited)

Read(g) ==
  /\ Reads(g)
  /\ reader = "open"
  /\ Consume
  /\ got' = got + 1
  /\ UNCHANGED <<kind, todo, inVars, writer, reader, outVars, cancelled,
                 failed, loop, panic>>

(* outc <- payload *)
HasOutput == CASE kind.emits = "all"  -> sent < got
               [] kind.emits = "some" -> sent < got
               [] kind.emits = "none" -> FALSE
               [] kind.emits = "any"  -> sent < Replies
Emit(g) ==
  /\ At(g, "produce") /\ ~reply
  /\ HasOutput
  /\ IF outClosed THEN panic' = "channel" /\ UNCHANGED reply
                  ELSE reply' = TRUE /\ UNCHANGED panic
  /\ UNCHANGED <<kind, todo, inVars, pipeVars, sent, outClosed, cancelled,
                 failed, loop>>

(* Faulty variant: what was read together with the end is forgotten. *)
Unflushed == TRUE

(* The reader sees the end of the pipe once its writer is closed, and      *)
(* sends what it read before it stops.                                     *)
AtEof   == ~writer /\ ~hand /\ wire = 0
Flushed == kind.emits = "all" => sent = got

Produced(g) ==
  /\ At(g, "produce") /\ ~reply
  /\ \/ /\ kind.far = "self" => AtEof /\ Flushed
        /\ kind.far = "process" => Exited
        /\ UNCHANGED failed
     \/ /\ kind.far = "self" /\ kind.corrupt
        /\ failed' = TRUE
  /\ Go(g)
  /\ UNCHANGED <<kind, inVars, pipeVars, outVars, cancelled, loop, panic>>

(* close(outc) *)
CloseOut(g) ==
  /\ At(g, "closeOut")
  /\ outClosed' = TRUE
  /\ panic' = IF outClosed \/ reply THEN "channel" ELSE panic
  /\ Go(g)
  /\ UNCHANGED <<kind, inVars, pipeVars, reply, sent, cancelled, failed,
                 loop>>

(* writer.Close(), reader.Close(), conn.Close() *)
Close(g) ==
  /\ \/ At(g, "closeWriter") /\ writer' = FALSE /\ UNCHANGED reader
     \/ At(g, "closeReader") /\ reader' = "closed" /\ UNCHANGED writer
     \/ At(g, "closeConn") /\ reader' = "closed" /\ writer' = FALSE
  /\ Go(g)
  /\ UNCHANGED <<kind, inVars, hand, wire, got, outVars, cancelled, failed,
                 loop, panic>>

-----------------------------------------------------------------------------
(* What the goroutines tell each other *)

(* close(cancel), close(donec) *)
Cancel(g) ==
  /\ At(g, "cancel")
  /\ cancelled' = TRUE
  /\ Go(g)
  /\ UNCHANGED <<kind, inVars, pipeVars, outVars, failed, loop, panic>>

(* http: the deferred range over `cancel' *)
AwaitCancel ==
  /\ At("in", "awaitCancel")
  /\ cancelled
  /\ Go("in")
  /\ UNCHANGED <<kind, inVars, pipeVars, outVars, cancelled, failed, loop,
                 panic>>

(* http: cancel <- err, received by the select or by the range after it *)
Tell ==
  /\ At("main", "tell")
  /\ \/ /\ At("in", "copy") /\ ~hand
        /\ todo' = [todo EXCEPT !["main"] = Tail(@), !["in"] = Tail(@)]
     \/ At("in", "awaitCancel") /\ Go("main")
  /\ UNCHANGED <<kind, inVars, pipeVars, outVars, cancelled, failed, loop,
                 panic>>

(* http: goahead.Wait(); `in' has its first payload, or the end of `inc'. *)
Goahead ==
  /\ At("main", "goahead")
  /\ taken > 0 \/ ~At("in", "copy")
  /\ Go("main")
  /\ UNCHANGED <<kind, inVars, pipeVars, outVars, cancelled, failed, loop,
                 panic>>

Unsent   == <<"tell", "cancel", "closeOut", "done">>
Answered == <<"cancel", "produce", "closeOut", "done">>

(* http.NewRequest, then client.Do has the pipe's reader. *)
Request ==
  /\ At("main", "request")
  /\ \/ /\ kind.corrupt
        /\ Leaving("main", Unsent)
        /\ failed' = TRUE
        /\ UNCHANGED reader
     \/ /\ reader' = "open"
        /\ Leaving("main", <<"response">>)
        /\ UNCHANGED failed
  /\ UNCHANGED <<kind, inVars, hand, wire, writer, got, outVars, cancelled,
                 loop, panic>>

(* client.Do returns: an error, or the head of a response.  With an error  *)
(* there is no response, and showing its headers dereferences nil.         *)
Response ==
  /\ At("main", "response")
  /\ \/ /\ failed' = TRUE
        /\ IF kind.headers THEN panic' = "nil" /\ UNCHANGED todo
                           ELSE Leaving("main", Unsent) /\ UNCHANGED panic
     \/ Leaving("main", Answered) /\ UNCHANGED <<failed, panic>>
  /\ UNCHANGED <<kind, inVars, pipeVars, outVars, cancelled, loop>>

(* websocket: the close message is sent; closeTimeout, or <- donec *)
AwaitPeer ==
  /\ At("in", "awaitPeer")
  /\ Go("in")
  /\ UNCHANGED <<kind, inVars, pipeVars, outVars, cancelled, failed, loop,
                 panic>>

(* MessageReader.Close: mr.sync <- struct{}{} *)
Sync ==
  /\ At("main", "sync")
  /\ At("in", "awaitSync") \/ (At("in", "copy") /\ ~hand)
  /\ todo' = [todo EXCEPT !["main"] = Tail(@), !["in"] = <<>>]
  /\ UNCHANGED <<kind, inVars, pipeVars, outVars, cancelled, failed, loop,
                 panic>>

(* fork: cmd.Run() returns and cmdstdout is closed. *)
Exit ==
  /\ At("run", "process")
  /\ Go("run")
  /\ UNCHANGED <<kind, inVars, pipeVars, outVars, cancelled, failed, loop,
                 panic>>

(* The other end of the pipe goes away: the remote side hangs up, the      *)
(* transport closes the request's body, and the last descriptor of a       *)
(* command that exited is closed when it is collected.                     *)
FarCloses ==
  /\ kind.far # "self"
  /\ reader = "open"
  /\ kind.far = "process" => kind.run # <<>> /\ Exited /\ ~At("main", "setup")
  /\ reader' = "closed"
  /\ UNCHANGED <<kind, todo, inVars, hand, wire, writer, got, outVars,
                 cancelled, failed, loop, panic>>

-----------------------------------------------------------------------------
Goroutine(g) ==
  \/ Return(g) \/ Drain(g) \/ Produced(g) \/ Emit(g) \/ CloseOut(g) \/ Close(g)
  \/ Cancel(g)
  \/ kind.far = "self" /\ Read(g)

Main == Setup \/ Spawn \/ Join \/ Goahead \/ Request \/ Response \/ Tell \/ Sync
Copier == Take \/ InputEnds \/ Cancelled \/ Write \/ WriteFails \/ PingFails
          \/ AwaitCancel \/ AwaitPeer
Far    == kind.far # "self" /\ Read("run")

AllDone == \A g \in Goroutines : todo[g] = <<>>

Next ==
  /\ panic = "none"
  /\ \/ Offer \/ CloseInput \/ Deliver \/ Terminate
     \/ \E g \in Goroutines : Goroutine(g)
     \/ Main \/ Copier \/ Far \/ Exit \/ FarCloses

(* Nothing is left to do. *)
Ended == (panic # "none" \/ (AllDone /\ loop = "terminated")) /\ UNCHANGED vars

(* The sender closes at last, the receiver receives, a goroutine that can  *)
(* run does.  A command reads its input or exits, and exits after its end; *)
(* the transport and the collector close what they hold; an attentive      *)
(* remote side reads or hangs up, any other may stay silent for ever.      *)
Alive(A) == panic = "none" /\ A
Fairness ==
  /\ WF_vars(Alive(Offer \/ CloseInput))
  /\ WF_vars(Alive(Deliver))
  /\ WF_vars(Alive(Terminate))
  /\ WF_vars(Alive(Main))
  /\ WF_vars(Alive(Copier))
  /\ \A g \in Goroutines : WF_vars(Alive(Goroutine(g)))
  /\ WF_vars(Alive(kind.far # "remote" /\ (Far \/ FarCloses)))
  /\ WF_vars(Alive(AtEof /\ Exit))

Spec == Init /\ [][Next \/ Ended]_vars /\ Fairness

-----------------------------------------------------------------------------
(* Properties *)

(* The handler keeps its contract with its neighbours, however its         *)
(* goroutines run: nothing is sent after close(outc), which comes once,    *)
(* the sender is never left blocked, and the handler returns               *)
(* (message.go:29 "The sender will close the channel to signal the end of  *)
(* the transmition").                                                      *)
Contract == INSTANCE StreamContract WITH over <- AllDone
KeepsContract == Contract!Spec

(* No goroutine sends on `outc' once it is closed, or closes it again      *)
(* (tcp.go:194-200, gunzip.go:82).                                         *)
SentBeforeClosed == panic # "channel"

(* What went into the pipe has come out when the handler has returned,     *)
(* unless an error was reported on the way (base64.go:124-161).            *)
Complete ==
  AllDone /\ ~failed /\ kind.emits = "all" => sent = taken

(* The module says Terminate only when the stream is over, for every       *)
(* handler its loop counts before it starts it (gunzip.go:55, fork.go:67). *)
TerminatesLast ==
  loop = "terminated" /\ "main" \in kind.counted => AllDone

(* A module can be told to terminate whatever goes wrong in its streams:   *)
(* their handlers return (message.go:15-17).  TLC refutes it for Gunzip    *)
(* and Base64Decode (gunzip.go:84, base64.go:115), HttpData (http.go:221), *)
(* HttpHeaders (http.go:240) and Websocket (websocket.go:203).             *)
HandlerEnds == <>AllDone
-----------------------------------------------------------------------------
(* Inductive invariant *)

(* What a list of steps has, and in which order; all but Has holds of what *)
(* is left of a list when it holds of the list.                            *)
Has(s, a)       == \E i \in 1..Len(s) : s[i] = a
OnlyFirst(s, a) == \A i \in 2..Len(s) : s[i] # a
Then(s, a, b)   == \A i \in 1..Len(s) :
                     s[i] = a => \E j \in (i + 1)..Len(s) : s[j] = b
Never(s, a, B)  == \A i \in 1..Len(s) :
                     s[i] = a => \A j \in (i + 1)..Len(s) : s[j] \notin B
Of(s, S)        == \A i \in 1..Len(s) : s[i] \in S

(* The order of the steps of each goroutine, whatever the kind *)
MainOrder(s) ==
  /\ OnlyFirst(s, "setup") /\ OnlyFirst(s, "spawn")
  /\ Never(s, "closeOut", {"closeOut", "produce", "request", "response"})
  /\ \A a \in {"closeWriter", "drain", "sync"} : Never(s, a, {"produce"})
  /\ Then(s, "produce", "closeOut") /\ Then(s, "sync", "drain")
  /\ Has(s, "request") \/ Has(s, "response") =>
       \A a \in {"drain", "join", "sync", "closeOut"} : ~Has(s, a)
CopyOrder(s) ==
  /\ Of(s, {"copy", "closeWriter", "closeConn", "drain", "awaitSync",
            "awaitCancel", "awaitPeer", "done"})
  /\ OnlyFirst(s, "copy")
ProduceOrder(s) ==
  /\ Of(s, {"produce", "closeReader", "closeConn", "closeOut", "cancel",
            "done"})
  /\ Never(s, "closeOut", {"closeOut", "produce"})
RunOrder(s) == Of(s, {"process", "cancel", "done"})

Unspawned == Has(todo["main"], "setup") \/ Has(todo["main"], "spawn")
InProgram ==
  /\ MainOrder(todo["main"])
  /\ CopyOrder(todo["in"])
  /\ ProduceOrder(todo["out"])
  /\ RunOrder(todo["run"])
  /\ \A g \in Goroutines : Then(todo[g], "closeOut", "done")
  /\ Has(todo["main"], "setup") => todo["main"] = <<"setup">>
  /\ Has(todo["main"], "spawn") => todo["main"] = Whole(kind.main)
  /\ Unspawned => \A g \in Goroutines \ {"main"} : todo[g] = <<>>

(* The payloads on their way, and what may be sent *)
Counts ==
  /\ offer => ~inClosed /\ taken < Payloads
  /\ hand => At("in", "copy")
  /\ got + wire + (IF hand THEN 1 ELSE 0) <= taken
  /\ kind.emits \in {"all", "some"} => sent + (IF reply THEN 1 ELSE 0) <= got
  /\ kind.emits \notin {"all", "some"} =>
       sent + (IF reply THEN 1 ELSE 0) <= Replies

(* One goroutine is to close `outc', the handler for those it has not      *)
(* started and for the request it has not made; whoever sends on it does   *)
(* so before, and the one that closes it waits for another that sends.     *)
Closer(g) ==
  \/ Has(todo[g], "closeOut")
  \/ /\ g = "main"
     /\ \/ Unspawned
        \/ Has(todo["main"], "request") \/ Has(todo["main"], "response")
OneCloser ==
  /\ \A g, h \in Goroutines : Closer(g) /\ Closer(h) => g = h
  /\ outClosed => \A g \in Goroutines : ~Closer(g)
  /\ Has(todo["out"], "produce") =>
       \/ Has(todo["out"], "closeOut")
       \/ /\ Has(todo["main"], "join")
          /\ Then(todo["main"], "join", "closeOut")
  /\ reply => \E g \in Goroutines : At(g, "produce")

(* Somebody will close `outc', and drain `inc'. *)
ClosesAtLast == outClosed \/ \E g \in Goroutines : Closer(g)
DrainsAtLast ==
  inClosed \/ Unspawned \/ Has(todo["in"], "drain") \/ Has(todo["main"], "drain")

(* The handler waits for the goroutines its loop does not count. *)
WaitsFor ==
  /\ \A g \in Goroutines \ ({"main"} \cup kind.counted) :
       todo[g] # <<>> =>
         /\ g \in {"in", "out"}
         /\ Has(todo["main"], "join") \/ (g = "in" /\ Has(todo["main"], "sync"))
  /\ loop = "terminated" /\ "main" \in kind.counted => AllDone

(* While nothing failed, a stream that keeps every payload has lost none.  *)
Copying == Has(todo["in"], "copy")
Producing == Has(todo["main"], "produce") \/ Has(todo["out"], "produce")
NoneLost ==
  kind.emits = "all" =>
    /\ ~cancelled
    /\ \A g \in Goroutines :
         Of(todo[g], {"setup", "spawn", "copy", "produce", "closeWriter",
                      "closeReader", "closeOut", "drain", "sync", "awaitSync",
                      "done"})
    /\ ~Unspawned /\ Has(todo["out"], "produce") => Of(todo["main"], {"done"})
    /\ ~failed =>
         /\ taken = got + (IF hand THEN 1 ELSE 0)
         /\ ~writer => ~Unspawned /\ ~Copying
         /\ ~Unspawned /\ ~Copying => inClosed
         /\ ~Unspawned /\ ~Producing => ~writer /\ sent = got

IInv == /\ TypeOK /\ InProgram /\ Counts /\ OneCloser
        /\ DrainsAtLast /\ WaitsFor /\ NoneLost

(* A handler that cannot start closes its channel all the same; fork does  *)
(* not (fork.go:78-91).                                                    *)
ClosesWhenGivingUp ==
  \A k \in Kinds : k.giveUp # <<>> => Has(k.giveUp, "closeOut")
=============================================================================
