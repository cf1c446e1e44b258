--------------------------- MODULE NestedPipeline ---------------------------
(***************************************************************************)
(* A pipeline inside the program, with a driver in the place of main's     *)
(* relay: ReadAllPipeline and WriteToPipeline (pipeline.go), tee (tee.go), *)
(* and `pipe', the builtin of pwn.go without a callback.                   *)
(* The driver writes link 0 and reads link N; InitPipeline gives both room *)
(* for one message (MaxConcurrentStreams is 1 here).  Pipeline's Relay     *)
(* takes no step.                                                          *)
(*                                                                         *)
(* Whatever the driver, one of its goroutines is the `giver', which writes *)
(* the stream D of the driver, one is the `sink', which receives what the  *)
(* last module sends, and `dpc' is where the driver itself stands.  tee    *)
(* has a third one, `hears', for the messages of the last module; the      *)
(* outer pipeline of tee and pipe is their environment: it takes what they *)
(* send and brings payloads, to tee a stream or none, then a Terminate.    *)
(***************************************************************************)
EXTENDS Pipeline

CONSTANT Drivers  \* the drivers a run looks at

ASSUME NestedAssumption ==
  /\ Drivers \subseteq {"read", "write", "tee", "pipe"}
  /\ MaxConcurrentStreams = 1
  /\ \A m \in Modules : ~IsServer(m)

VARIABLES
  driver,
  dpc,
  hears,
  giver,
  given,  \* payloads the giver has sent
  sink,
  dcb,    \* the MessageChannel behind the sink's `cb'
  data,   \* what ReadAllPipeline has in `buff'; pipe hands it on
  outer   \* tee: what comes next on its own `in'

driverVars == <<driver, dpc, hears, giver, given, sink, dcb, data, outer>>
nestedVars == <<vars, driverVars>>

(* The MessageChannel of the driver *)
D == <<Relay, 1>>

NestedInit ==
  /\ Init
  /\ driver \in Drivers
  /\ dpc = IF driver = "tee" THEN "take" ELSE "announce"
  /\ hears = IF driver = "tee" THEN "loop" ELSE "done"
  /\ giver = "none" /\ given = 0
  /\ sink = "none" /\ dcb = NoChannel
  /\ data = <<>>
  /\ outer = "channel"

(* The variables of Pipeline, with the driver's stream among the streams: *)
(* only link 0 carries it.                                                 *)
Streams == Handlers \cup {D}
Told    == {Terminate} \cup {Channel(c) : c \in Streams}
LineTypeOK ==
  /\ link \in [Places -> Seq(Told)]
  /\ \A m \in Modules : link[m] \in Seq(Messages)
  /\ linkClosed \subseteq Places
  /\ pc \in [Places -> LoopStates]
  /\ init \in [Modules -> BOOLEAN]
  /\ made \in [Modules -> 1..MaxStreams]
  /\ held \in [Places -> Told]
  /\ wg \in [Modules -> SUBSET Handlers]
  /\ started \subseteq Streams
  /\ closed \subseteq Streams
  /\ hpc \in [Handlers -> HandlerStates]
  /\ hin \in [Handlers -> Streams \cup {NoChannel}]
  /\ outc \in [Handlers -> Handlers \cup {NoChannel}]
  /\ buf \in [Handlers -> 0..Own]
  /\ draining \subseteq Handlers
  /\ cancel \subseteq Modules
  /\ mutex \in Handlers \cup {NoChannel}
  /\ datac \in 0..Payloads
  /\ written \in Seq(0..Own)
  /\ panic \in {"none", "stream", "cancel"}

NestedTypeOK ==
  /\ LineTypeOK
  /\ driver \in Drivers
  /\ dpc \in {"announce", "take", "offer", "hear", "wait", "terminate", "join",
              "last", "close", "returned"}
  /\ hears \in {"loop", "join", "terminate", "done"}
  /\ giver \in {"none", "start", "give", "close", "done"}
  /\ given \in 0..Own
  /\ sink \in {"none", "cb", "range", "done"}
  /\ dcb \in Handlers \cup {NoChannel}
  /\ data \in Seq(0..Own)
  /\ outer \in {"channel", "terminate", "last"}

-----------------------------------------------------------------------------
(* The sink: _, inc := cb(), then the range over inc.  WriteToPipeline and *)
(* pipe write once the callback has returned, ReadAllPipeline closes its   *)
(* stream once the range has ended.                                        *)
SinkCallback ==
  /\ sink = "cb"
  /\ dcb \in started
  /\ sink' = "range"
  /\ giver' = IF driver \in {"write", "pipe"} THEN "give" ELSE giver
  /\ UNCHANGED <<vars, driver, dpc, hears, given, dcb, data, outer>>

SinkReceives(g) ==
  /\ sink = "range"
  /\ hpc[g] = "send"
  /\ Out(g) = dcb
  /\ Sends(g)
  /\ data' = Append(data, buf[g])
  /\ UNCHANGED <<linkVars, loopVars, wg, started, closed, hin, outc, draining,
                 stdinVars, written, panic, driver, dpc, hears, giver, given,
                 sink, dcb, outer>>

SinkEnds ==
  /\ sink = "range"
  /\ dcb \in closed
  /\ sink' = "done"
  /\ giver' = IF driver = "read" THEN "close" ELSE giver
  /\ UNCHANGED <<vars, driver, dpc, hears, given, dcb, data, outer>>

(* The giver.  tee and pipe copy what their own stream brings; tee starts  *)
(* the copy's stream with it.                                              *)
GiveStart ==
  /\ giver = "start"
  /\ started' = started \cup {D}
  /\ giver' = "give"
  /\ UNCHANGED <<linkVars, loopVars, wg, closed, hpc, streamVars, stdinVars,
                 written, panic, driver, dpc, hears, given, sink, dcb, data,
                 outer>>

Give(h) ==
  /\ giver = "give"
  /\ given < IF driver = "write" THEN 1 ELSE Payloads
  /\ Receiving(h)
  /\ hin[h] = D
  /\ given' = given + 1
  /\ \E next \in AfterRecv(h) :
       /\ Step(h, next)
       /\ buf' = [buf EXCEPT ![h] = IF hpc[h] = "recv" /\ next = "send"
                                      THEN given + 1 ELSE @]
  /\ UNCHANGED <<linkVars, loopVars, wg, started, closed, hin, outc, draining,
                 stdinVars, written, panic, driver, dpc, hears, giver, sink,
                 dcb, data, outer>>

GiveEnds ==
  /\ giver = "give"
  /\ driver = "write" => given = 1
  /\ giver' = "close"
  /\ UNCHANGED <<vars, driver, dpc, hears, given, sink, dcb, data, outer>>

(* Faulty variants of close(mc.Channel): what it closes is the stream it   *)
(* receives, or nothing.                                                   *)
GiveClosesOther ==
  /\ giver = "close"
  /\ CloseChannel(dcb)
  /\ giver' = "done"
  /\ UNCHANGED <<linkVars, loopVars, wg, started, hpc, streamVars, stdinVars,
                 written, driver, dpc, hears, given, sink, dcb, data, outer>>

GiveLeavesOpen ==
  /\ giver = "close"
  /\ giver' = "done"
  /\ UNCHANGED <<vars, driver, dpc, hears, given, sink, dcb, data, outer>>

GiveCloses ==
  /\ giver = "close"
  /\ CloseChannel(D)
  /\ giver' = "done"
  /\ UNCHANGED <<linkVars, loopVars, wg, started, hpc, streamVars, stdinVars,
                 written, driver, dpc, hears, given, sink, dcb, data, outer>>

-----------------------------------------------------------------------------
(* The driver *)

DriverGoes(state) == dpc' = state /\ UNCHANGED <<driver, given>>

(* out <- the driver's stream *)
Offer ==
  /\ dpc \in {"announce", "offer"}
  /\ Send(Relay, Channel(D))
  /\ DriverGoes(IF dpc = "announce" THEN "hear"
                ELSE IF MultiStreams THEN "take" ELSE "wait")
  /\ giver' = IF driver = "tee" THEN "start" ELSE giver
  /\ UNCHANGED <<linkClosed, loopVars, wg, started, closed, hpc, streamVars,
                 stdinVars, written, panic, hears, sink, dcb, data, outer>>

(* mc.Start(nil), and without it *)
Unstarted == started
Opened    == started \cup {D}

(* message, opened := <- in: the first message of a module is its stream,  *)
(* so that a Terminate, or the end, does not come here.                    *)
Hear ==
  /\ dpc = "hear"
  /\ Receive(N)
  /\ dcb' = Head(link[N]).mc
  /\ sink' = "cb"
  /\ started' = Opened
  /\ DriverGoes("wait")
  /\ UNCHANGED <<linkClosed, loopVars, wg, closed, hpc, streamVars, stdinVars,
                 written, panic, hears, giver, data, outer>>

(* ReadAllPipeline's own range, or wg.Wait(); and without waiting *)
NotAwaited == TRUE
Awaited    == /\ giver \in {"none", "done"} /\ hears = "done"
              /\ driver = "read" => giver = "done"
              /\ driver # "tee" => sink = "done"

Waits(from, to) ==
  /\ dpc = from
  /\ Awaited
  /\ DriverGoes(to)
  /\ UNCHANGED <<vars, hears, giver, sink, dcb, data, outer>>

TellTerminate ==
  /\ dpc = "terminate"
  /\ Send(Relay, Terminate)
  /\ DriverGoes("join")
  /\ UNCHANGED <<linkClosed, loopVars, wg, started, closed, hpc, streamVars,
                 stdinVars, written, panic, hears, giver, sink, dcb, data, outer>>

(* <- in; tee reads the last message of the outer pipeline too. *)
LastHeard ==
  /\ dpc = "last"
  /\ \/ Receive(N)
     \/ AtEnd(N) /\ UNCHANGED link
  /\ DriverGoes("close")
  /\ outer' = "last"
  /\ UNCHANGED <<linkClosed, loopVars, wg, started, closed, hpc, streamVars,
                 stdinVars, written, panic, hears, giver, sink, dcb, data>>

CloseIn ==
  /\ dpc = "close"
  /\ linkClosed' = linkClosed \cup {Relay}
  /\ DriverGoes("returned")
  /\ UNCHANGED <<link, loopVars, wg, started, closed, hpc, streamVars,
                 stdinVars, written, panic, hears, giver, sink, dcb, data, outer>>

(* tee: a stream comes, or a Terminate, which tee passes on first. *)
TeeTakes ==
  /\ dpc = "take"
  /\ \/ outer = "channel" /\ outer' = "terminate" /\ DriverGoes("offer")
     \/ outer' = "last" /\ DriverGoes("terminate")
  /\ UNCHANGED <<vars, hears, giver, sink, dcb, data>>

(* tee's first goroutine *)
TeeHears ==
  /\ hears = "loop"
  /\ Receive(N)
  /\ IF Head(link[N]) = Terminate
       THEN hears' = "join" /\ UNCHANGED <<sink, dcb>>
       ELSE hears' = hears /\ sink' = "cb" /\ dcb' = Head(link[N]).mc
  /\ UNCHANGED <<linkClosed, loopVars, wg, started, closed, hpc, streamVars,
                 stdinVars, written, panic, driver, dpc, giver, given, data,
                 outer>>

TeeJoins ==
  /\ hears = "join"
  /\ sink \in {"none", "done"}
  /\ hears' = "terminate"
  /\ UNCHANGED <<vars, driver, dpc, giver, given, sink, dcb, data, outer>>

TeeTellsTerminate ==
  /\ hears = "terminate"
  /\ Send(Relay, Terminate)
  /\ hears' = "done"
  /\ UNCHANGED <<linkClosed, loopVars, wg, started, closed, hpc, streamVars,
                 stdinVars, written, panic, driver, dpc, giver, given, sink,
                 dcb, data, outer>>

Sink   == SinkCallback \/ SinkEnds \/ \E g \in Handlers : SinkReceives(g)
Giver  == GiveStart \/ GiveEnds \/ GiveCloses \/ \E h \in Handlers : Give(h)
Hearer == TeeHears \/ TeeJoins \/ TeeTellsTerminate
Driver == \/ Offer \/ Hear \/ TeeTakes
          \/ Waits("wait", "terminate") \/ Waits("join", "last")
          \/ TellTerminate \/ LastHeard \/ CloseIn

-----------------------------------------------------------------------------
Inner(A) == A /\ UNCHANGED driverVars

NestedNext ==
  /\ panic = "none"
  /\ \/ \E m \in Modules : Inner(Loop(m))
     \/ \E h \in Handlers : Inner(Handler(h))
     \/ Sink \/ Giver \/ Hearer \/ Driver

NestedFairness ==
  /\ \A m \in Modules : WF_nestedVars(Running /\ Inner(Loop(m)))
  /\ \A h \in Handlers : WF_nestedVars(Running /\ Inner(Handler(h)))
  /\ WF_nestedVars(Running /\ Sink) /\ WF_nestedVars(Running /\ Giver)
  /\ WF_nestedVars(Running /\ Hearer) /\ WF_nestedVars(Running /\ Driver)

NestedSpec == NestedInit /\ [][NestedNext]_nestedVars /\ NestedFairness

-----------------------------------------------------------------------------
(* Properties *)

(* "It returns a string that is all the data from that pipeline"           *)
(* (README.md:72): what the source at the head of the line has read, in    *)
(* order and to the end, however it ended.                                 *)
ReadsAll ==
  driver = "read" /\ dpc \in {"terminate", "join", "last", "close", "returned"} =>
    data = [i \in 1..buf[<<1, 1>>] |-> i]

(* A driver returns: it waits for nothing that waits for it (pipeline.go:  *)
(* 128-160, 199-214, tee.go:72-128, pwn.go:338-373).  ReadAllPipeline does *)
(* not on <<Upper>>, which waits for the end of its own input.             *)
Returns == (driver = "tee" => giver # "none") ~> (dpc = "returned")

(* Nothing of a pipeline stays behind when its driver has returned.        *)
NothingLeft ==
  (dpc = "returned") ~>
    /\ \A m \in Modules : pc[m] = "done"
    /\ \A h \in Handlers : hpc[h] \in {"idle", "done"}
    /\ draining = {}
    /\ sink \in {"none", "done"}

(* "Create a new one way pipeline to copy the data over" (tee.go:11): the  *)
(* program never waits for the copy for ever.  No run checks it: TLC       *)
(* refutes it for tee on <<Lower>> (tee.go:117).                           *)
TeeEnds == (driver = "tee" /\ giver = "done") ~> (dpc = "returned")

-----------------------------------------------------------------------------
(* Inductive invariant of read-file and copying modules whose output       *)
(* ReadAllPipeline reads.  The(Relay) is the driver's stream D.            *)
IsReadLine == Kind[1] = ReadFile /\ \A m \in 2..N : Kind[m] \in Copies

(* Where ReadAllPipeline stands; its two halves follow each other. *)
Reading ==
  /\ hears = "done"
  /\ giver \in {"none", "close", "done"}
  /\ dpc \notin {"take", "offer"}
  /\ dpc \in {"announce", "hear"} <=> sink = "none"
  /\ sink # "none" => dcb = The(N)
  /\ giver # "none" => sink = "done"
  /\ dpc \in {"terminate", "join", "last", "close", "returned"} => giver = "done"

(* A link carries one message at a time: first the stream of its sender,   *)
(* and no Terminate before the reader has that.                            *)
Announced(l) == IF l = Relay THEN dpc # "announce" ELSE pc[l] # "announce"
Heard(l)     == IF l = N THEN dpc \notin {"announce", "hear"} ELSE init[l + 1]
OneByOne(l) ==
  \/ link[l] = <<>> /\ (Announced(l) <=> Heard(l))
  \/ link[l] = <<Channel(The(l))>> /\ Announced(l) /\ ~Heard(l)
  \/ link[l] = <<Terminate>> /\ Announced(l) /\ Heard(l)

(* A module starts one handler, for the stream of the one before it. *)
RunsOne(m) ==
  /\ made[m] = 1 /\ pc[m] # "newChannel"
  /\ pc[m] \notin {"announce", "loop"} => init[m]
  /\ hpc[The(m)] # "idle" => init[m] /\ hin[The(m)] = The(m - 1)
NoOthers == \A h \in Handlers : h[2] # 1 => hpc[h] = "idle"

(* A handler closes its own stream when it has sent all that it received,  *)
(* and the one of read-file alone can have read or drain.                  *)
ReadStates(m) ==
  {"idle", "start", "cb", "send", "close", "finish", "done"} \cup
  (IF m = 1 THEN {"source", "fail", "drain"} ELSE {"recv"})
EndsInTurn(m) ==
  /\ hpc[The(m)] \in ReadStates(m)
  /\ OwnOutc(The(m))
  /\ The(m) \in closed => hpc[The(m)] \in {"drain", "finish", "done"}
  /\ hpc[The(m)] \in {"close", "finish", "done"} =>
       \A n \in 1..(m - 1) : hpc[The(n)] \in {"drain", "finish", "done"}

(* What was read and is not in `buff' yet is in the hands of the handlers. *)
ReadSoFar == buf[The(1)]
OnItsWay ==
  /\ data = [i \in 1..Len(data) |-> i]
  /\ InHands(Len(data), ReadSoFar)

ReadsInTurn ==
  /\ Reading
  /\ \A l \in Places : OneByOne(l)
  /\ \A m \in Modules : RunsOne(m) /\ EndsInTurn(m)
  /\ NoOthers
  /\ \A h \in draining : h = The(1) /\ hpc[h] # "idle"
  /\ sink = "done" => The(N) \in closed
  /\ OnItsWay
ReadInv == driver = "read" => ReadsInTurn

NestedInv == NestedTypeOK /\ HasOutc /\ (IsReadLine => ReadInv)
=============================================================================
