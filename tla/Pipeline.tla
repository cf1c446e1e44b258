------------------------------ MODULE Pipeline ------------------------------
(***************************************************************************)
(* A cryptocli command line: N modules joined in a ring by channels of     *)
(* *Message, and main's RelayMessages that closes the ring (pipeline.go,   *)
(* main.go, message.go).  Every module runs the loop of upper.go and       *)
(* starts one handler goroutine per MessageChannel it receives; handlers   *)
(* hand payloads to each other over unbuffered channels.                   *)
(*                                                                         *)
(* A MessageChannel is named <<m, k>>: the k-th one module m creates.  The *)
(* handler <<m, k>> is the goroutine that module m starts when <<m, k>> is *)
(* its current MessageChannel `mc'.                                        *)
(***************************************************************************)
EXTENDS Integers, Sequences

CONSTANTS
  N,                     \* number of modules on the command line
  Kind,                  \* Kind[m]: the module at place m, one of Kinds
  MultiStreams,          \* flag --multi-streams
  MaxConcurrentStreams,  \* flag --max-concurrent-streams
  Payloads,              \* number of payloads on the standard input
  MaxStreams             \* bound: MessageChannels one module creates

(* What the modules do differently.                                        *)
(*   single  the loop has the branch for single streams                    *)
(*   byRef   the handler is a closure over the variable `mc' of the loop   *)
(*   reread  it reads `mc.Channel' again for each send and close           *)
(*   enter   where the handler may stand once its callback returned        *)
(*   aside   go DrainChannel(inc, wg) runs beside the handler              *)
(*   take    where it may stand once it received a payload                 *)
(*   sent    where it may stand once it sent one                           *)
(*   end     where it may stand when the range over `inc' has ended        *)
(*   after   where it stands when it has closed its channel                *)
(*   early   it takes `mc.Channel' before it calls mc.Start                *)
Upper == [role |-> "filter", single |-> TRUE, byRef |-> FALSE,
          reread |-> FALSE, enter |-> {"recv"}, aside |-> FALSE,
          take |-> {"send"}, sent |-> {"recv"}, end |-> {"close"},
          after |-> "finish", early |-> FALSE]

(* No single-stream branch. *)
Lower == [Upper EXCEPT !.single = FALSE]

HexEncode == Upper

(* Skips an empty payload; a decode error closes and drains. *)
HexDecode == [Upper EXCEPT !.take = {"send", "recv", "close"},
                           !.after = "drain"]

Dgst == [Upper EXCEPT !.byRef = TRUE, !.take = {"recv"}, !.end = {"send"},
                      !.sent = {"close"}]

(* A write to the compressor may fail. *)
Gzip == [Upper EXCEPT !.byRef = TRUE, !.reread = TRUE,
                      !.take = {"send", "close"}, !.after = "drain"]

Null == [Upper EXCEPT !.byRef = TRUE, !.reread = TRUE, !.enter = {"close"},
                      !.after = "drain"]

(* The template that names the variable may fail. *)
Env == [Upper EXCEPT !.byRef = TRUE, !.reread = TRUE, !.aside = TRUE,
                     !.enter = {"send", "fail"}, !.sent = {"close"}]

ReadFile == [Upper EXCEPT !.byRef = TRUE, !.aside = TRUE,
                          !.enter = {"source", "fail"}, !.sent = {"source"}]

ReadS3 == ReadFile

(* The file may fail to open, and a write to it. *)
WriteFile == [Upper EXCEPT !.enter = {"recv", "close"},
                           !.take = {"recv", "close"}, !.after = "drain"]

(* Keeps what is not a whole message yet, cuts several messages from one   *)
(* payload, and stops at --max-messages, right after the last one; with    *)
(* --delimiter there may be messages left when the input has ended.        *)
Byte == [HexDecode EXCEPT !.enter = {"recv", "close"},
                          !.sent = {"recv", "send", "close"},
                          !.end = {"close", "send"}]

(* Sends the salt, then the nonce, before it reads, and a new prefix after *)
(* the payload at which the counter wraps; any of its steps may fail, but  *)
(* not the sealing.                                                        *)
AesEncrypt == [HexDecode EXCEPT !.enter = {"send", "close"},
                                !.take = {"send", "recv"},
                                !.sent = {"recv", "send", "close"}]

(* Collects its whole input before it sends what the archive holds. *)
Unzip == [Upper EXCEPT !.take = {"recv"}, !.end = {"source"},
                       !.sent = {"source"}]

(* The modules of PipedStream, seen from the line: one goroutine takes the *)
(* input, another sends what comes out, or the handler gives up at once.   *)
(* How they do it is left to PipedStream; those of the first group drain   *)
(* their input before they give up, or cannot (fork: but for os.Pipe).     *)
Gunzip             == [ReadFile EXCEPT !.enter = {"source"}]
Fork               == Gunzip
WriteElasticsearch == Gunzip
QueryElasticsearch == [Gunzip EXCEPT !.early = TRUE]
WriteS3            == ReadFile
Tcp                == [ReadFile EXCEPT !.byRef = FALSE]
Http               == Tcp
Websocket          == Tcp

Stdin == [Upper EXCEPT !.role = "stdin", !.enter = {"lock"},
                       !.sent = {"select"}, !.after = "drain"]

Stdout == [Upper EXCEPT !.role = "stdout", !.take = {"recv"}]

(* Module TcpServer.  aside: the goroutine that writes to the client is    *)
(* waited for before wg.Done().                                            *)
ServerSide == [Upper EXCEPT !.role = "server", !.enter = {"read"},
                            !.sent = {"read"}]

(* The handshake may fail; without --decrypt its first packet is sent on.  *)
TlsSide == [ServerSide EXCEPT !.aside = TRUE,
                              !.enter = {"read", "send", "close"}]

WebsocketSide == [ServerSide EXCEPT !.aside = TRUE]

(* Reads the request, then writes the response; a write may fail. *)
HttpSide == [ServerSide EXCEPT !.take = {"recv", "close"}, !.after = "drain"]

Kinds == {Upper, Lower, HexEncode, HexDecode, Dgst, Gzip, Null, Env, ReadFile,
          ReadS3, QueryElasticsearch, WriteFile, Byte, AesEncrypt, Unzip,
          Gunzip, Fork, WriteS3, WriteElasticsearch, Tcp, Http, Websocket,
          Stdin, Stdout, ServerSide, TlsSide, WebsocketSide, HttpSide}

ASSUME PipelineAssumption ==
  /\ N \in Nat \ {0}
  /\ Kind \in [1..N -> Kinds]
  /\ MultiStreams \in BOOLEAN
  /\ MaxConcurrentStreams \in Nat \ {0}
  /\ Payloads \in Nat
  /\ MaxStreams \in Nat \ {0}

IsServer(m) == Kind[m].role = "server"

Relay    == 0
Modules  == 1..N
Places   == 0..N
Handlers == Modules \X (1..MaxStreams)

(* Link m is the `out' of module m and the `in' of module m + 1; link N is *)
(* read by RelayMessages, which writes link 0.                             *)
Reader(l)   == IF l = N THEN Relay ELSE l + 1
Capacity(l) == IF l \in {0, N} THEN MaxConcurrentStreams ELSE 1

NoChannel  == <<0, 0>>
Terminate  == [type |-> "Terminate", mc |-> NoChannel]
Channel(c) == [type |-> "Channel", mc |-> c]
Messages   == {Terminate} \cup {Channel(c) : c \in Handlers}

(* Payloads are numbered in the order stdin delivers them, or a file; what *)
(* dgst and env produce themselves is one more payload.                    *)
NoPayload == 0
Own       == Payloads + 1

VARIABLES
  link,       \* the messages buffered in each chan *Message
  linkClosed, \* the links whose sender has closed them
  pc,         \* where each module's loop, and RelayMessages, stands
  init,       \* the loop's `init'
  made,       \* number of MessageChannels created; the last one is `mc'
  held,       \* the message a loop received and still works on
  wg,         \* the handlers the loop's WaitGroup counts
  started,    \* MessageChannels whose Start was called
  closed,     \* MessageChannels whose Channel was closed
  hpc,        \* where each handler stands
  hin,        \* the MessageChannel behind the handler's `cb'
  outc,       \* the MessageChannel the handler sends to
  buf,        \* the payload a handler has in hand
  draining,   \* the handlers with a DrainChannel(inc, wg) beside them
  cancel,     \* stdin.go: modules whose `cancel' was closed
  mutex,      \* stdin.go: the handler that holds stdinMutex
  datac,      \* stdin.go: payloads delivered by Datac
  written,    \* what stdout.go wrote
  panic       \* "none", or what a goroutine panicked on: the program died

loopVars    == <<pc, init, made, held>>
linkVars    == <<link, linkClosed>>
streamVars  == <<hin, outc, buf, draining>>
stdinVars   == <<cancel, mutex, datac>>
vars == <<linkVars, loopVars, wg, started, closed, hpc, streamVars,
          stdinVars, written, panic>>

LoopStates == {"announce", "loop", "newChannel", "join", "terminate",
               "drain", "last", "close", "done",
               "forward", "exited",                        \* RelayMessages
               "select", "connected", "relay", "shut", "callbacks"} \* servers
HandlerStates == {"idle", "start", "cb", "lock", "select", "recv", "send",
                  "source", "fail", "close", "drain", "finish", "done",
                  "read"}

TypeOK ==
  /\ link \in [Places -> Seq(Messages)]
  /\ linkClosed \subseteq Places
  /\ pc \in [Places -> LoopStates]
  /\ init \in [Modules -> BOOLEAN]
  /\ made \in [Modules -> 0..MaxStreams]
  /\ \A m \in Modules : IsServer(m) \/ made[m] # 0
  /\ held \in [Places -> Messages]
  /\ wg \in [Modules -> SUBSET Handlers]
  /\ started \subseteq Handlers
  /\ closed \subseteq Handlers
  /\ hpc \in [Handlers -> HandlerStates]
  /\ hin \in [Handlers -> Handlers \cup {NoChannel}]
  /\ outc \in [Handlers -> Handlers \cup {NoChannel}]
  /\ buf \in [Handlers -> 0..Own]
  /\ draining \subseteq Handlers
  /\ cancel \subseteq Modules
  /\ mutex \in Handlers \cup {NoChannel}
  /\ datac \in 0..Payloads
  /\ written \in Seq(0..Own)
  /\ panic \in {"none", "stream", "cancel", "server"}

Init ==
  /\ link = [l \in Places |-> <<>>]
  /\ linkClosed = {}
  /\ pc = [p \in Places |-> IF p = Relay THEN "loop"
                            ELSE IF IsServer(p) THEN "select" ELSE "announce"]
  /\ init = [m \in Modules |-> FALSE]
  /\ made = [m \in Modules |-> IF IsServer(m) THEN 0 ELSE 1]
  /\ held = [p \in Places |-> Terminate]
  /\ wg = [m \in Modules |-> {}]
  /\ started = {}
  /\ closed = {}
  /\ hpc = [h \in Handlers |-> "idle"]
  /\ hin = [h \in Handlers |-> NoChannel]
  /\ outc = [h \in Handlers |-> NoChannel]
  /\ buf = [h \in Handlers |-> NoPayload]
  /\ draining = {}
  /\ cancel = {}
  /\ mutex = NoChannel
  /\ datac = 0
  /\ written = <<>>
  /\ panic = "none"

-----------------------------------------------------------------------------
(* Links and MessageChannels *)

HasRoom(l)   == Len(link[l]) < Capacity(l)
Send(l, msg) == HasRoom(l) /\ link' = [link EXCEPT ![l] = Append(@, msg)]
Pending(l)   == link[l] # <<>>
Receive(l)   == Pending(l) /\ link' = [link EXCEPT ![l] = Tail(@)]
AtEnd(l)     == link[l] = <<>> /\ l \in linkClosed

GoTo(p, state) == pc' = [pc EXCEPT ![p] = state]

(* Closing a closed channel panics. *)
CloseChannel(c) ==
  IF c \in closed
    THEN panic' = "stream" /\ UNCHANGED closed
    ELSE closed' = closed \cup {c} /\ UNCHANGED panic

(* The loop's variable `mc'. *)
Mc(m) == <<m, made[m]>>

-----------------------------------------------------------------------------
(* The loop of a module.  Its range over `in' never ends by the end of the *)
(* link (EndsByTerminate below), so that exit of the loop is left out.     *)

SingleStream(m) == ~MultiStreams /\ Kind[m].single
AfterSpawn(m)   == IF SingleStream(m) THEN "join" ELSE "loop"

(* wg.Add(1), and without it *)
Uncounted(m) == wg[m]
Counting(m)  == wg[m] \cup {Mc(m)}

(* wg.Add(1); go handler(cb, mc, wg) *)
Spawn(m, cb) ==
  /\ wg' = [wg EXCEPT ![m] = Counting(m)]
  /\ hpc' = [hpc EXCEPT ![Mc(m)] = "start"]
  /\ hin' = [hin EXCEPT ![Mc(m)] = cb]
  /\ GoTo(m, AfterSpawn(m))

Announce(m) ==
  /\ pc[m] = "announce"
  /\ Send(m, Channel(Mc(m)))
  /\ GoTo(m, "loop")
  /\ UNCHANGED <<linkClosed, init, made, held, wg, started, closed, hpc,
                 streamVars, stdinVars, written, panic>>

RecvTerminate(m) ==
  /\ pc[m] = "loop"
  /\ Receive(m - 1)
  /\ Head(link[m - 1]) = Terminate
  /\ IF init[m] THEN UNCHANGED <<closed, panic>> ELSE CloseChannel(Mc(m))
  /\ GoTo(m, "join")
  /\ UNCHANGED <<linkClosed, init, made, held, wg, started, hpc, streamVars,
                 stdinVars, written>>

RecvFirstChannel(m) ==
  /\ pc[m] = "loop"
  /\ ~init[m]
  /\ Receive(m - 1)
  /\ Head(link[m - 1]) # Terminate
  /\ init' = [init EXCEPT ![m] = TRUE]
  /\ Spawn(m, Head(link[m - 1]).mc)
  /\ UNCHANGED <<linkClosed, made, held, started, closed, outc, buf,
                 draining, stdinVars, written, panic>>

(* mc = NewMessageChannel(), and without it *)
SameMc(m) == made[m]
NextMc(m) == made[m] + 1

(* From here on `mc' is the new one. *)
RecvNextChannel(m) ==
  /\ pc[m] = "loop"
  /\ init[m]
  /\ made[m] < MaxStreams
  /\ Receive(m - 1)
  /\ Head(link[m - 1]) # Terminate
  /\ made' = [made EXCEPT ![m] = NextMc(m)]
  /\ held' = [held EXCEPT ![m] = Head(link[m - 1])]
  /\ GoTo(m, "newChannel")
  /\ UNCHANGED <<linkClosed, init, wg, started, closed, hpc, streamVars,
                 stdinVars, written, panic>>

AnnounceNext(m) ==
  /\ pc[m] = "newChannel"
  /\ Send(m, Channel(Mc(m)))
  /\ Spawn(m, held[m].mc)
  /\ UNCHANGED <<linkClosed, init, made, held, started, closed, outc, buf,
                 draining, stdinVars, written, panic>>

(* stdin.go: the loop also selects on `cancel'. *)
Cancelled(m) ==
  /\ Kind[m].role = "stdin"
  /\ pc[m] = "loop"
  /\ m \in cancel
  /\ GoTo(m, "join")
  /\ UNCHANGED <<linkVars, init, made, held, wg, started, closed, hpc,
                 streamVars, stdinVars, written, panic>>

(* wg.Wait(), without it, and with draining goroutines it does not count *)
NotWaited(m)    == TRUE
HandlersOnly(m) == wg[m] = {}
HandlersDone(m) == wg[m] = {} /\ \A h \in draining : h[1] # m

(* Before the Terminate message and again after the loop *)
Join(m, from, to) ==
  /\ pc[m] = from
  /\ HandlersDone(m)
  /\ GoTo(m, to)
  /\ UNCHANGED <<linkVars, init, made, held, wg, started, closed, hpc,
                 streamVars, stdinVars, written, panic>>

(* Faulty variant: no break LOOP. *)
SendTerminateGoesOn(m, to) ==
  /\ pc[m] = "terminate"
  /\ Send(m, Terminate)
  /\ GoTo(m, IF to = "drain" THEN "loop" ELSE to)
  /\ UNCHANGED <<linkClosed, init, made, held, wg, started, closed, hpc,
                 streamVars, stdinVars, written, panic>>

SendTerminate(m, to) ==
  /\ pc[m] = "terminate"
  /\ Send(m, Terminate)
  /\ GoTo(m, to)
  /\ UNCHANGED <<linkClosed, init, made, held, wg, started, closed, hpc,
                 streamVars, stdinVars, written, panic>>

(* <- in: one message, or the end of the link *)
Last(p, l) ==
  /\ pc[p] = "last"
  /\ \/ Receive(l)
     \/ AtEnd(l) /\ UNCHANGED link
  /\ GoTo(p, "close")
  /\ UNCHANGED <<linkClosed, init, made, held, wg, started, closed, hpc,
                 streamVars, stdinVars, written, panic>>

CloseOut(p, end) ==
  /\ pc[p] = "close"
  /\ linkClosed' = linkClosed \cup {p}
  /\ GoTo(p, end)
  /\ UNCHANGED <<link, init, made, held, wg, started, closed, hpc,
                 streamVars, stdinVars, written, panic>>

Loop(m) ==
  /\ ~IsServer(m)
  /\ \/ Announce(m)
     \/ RecvTerminate(m)
     \/ RecvFirstChannel(m)
     \/ RecvNextChannel(m)
     \/ AnnounceNext(m)
     \/ Cancelled(m)
     \/ Join(m, "join", "terminate")
     \/ SendTerminate(m, "drain")
     \/ Join(m, "drain", "last")
     \/ Last(m, m - 1)
     \/ CloseOut(m, "done")

-----------------------------------------------------------------------------
(* RelayMessages; main returns after it and the program exits. *)

RelayRecv ==
  /\ pc[Relay] = "loop"
  /\ Receive(N)
  /\ held' = [held EXCEPT ![Relay] = Head(link[N])]
  /\ GoTo(Relay, "forward")
  /\ UNCHANGED <<linkClosed, init, made, wg, started, closed, hpc,
                 streamVars, stdinVars, written, panic>>

RelayForward ==
  /\ pc[Relay] = "forward"
  /\ Send(Relay, held[Relay])
  /\ GoTo(Relay, IF held[Relay] = Terminate THEN "last" ELSE "loop")
  /\ UNCHANGED <<linkClosed, init, made, held, wg, started, closed, hpc,
                 streamVars, stdinVars, written, panic>>

RelayMessages ==
  \/ RelayRecv
  \/ RelayForward
  \/ Last(Relay, N)
  \/ CloseOut(Relay, "exited")

-----------------------------------------------------------------------------
(* The handler of one stream *)

KindOf(h) == Kind[h[1]]

(* The `mc' a handler sees when it reads the variable, and the channel it  *)
(* sends on and closes.                                                    *)
McSeen(h) == IF KindOf(h).byRef THEN Mc(h[1]) ELSE h
Out(h)    == IF KindOf(h).reread THEN McSeen(h) ELSE outc[h]

Step(h, state) == hpc' = [hpc EXCEPT ![h] = state]

(* mc.wg.Done(), and without it *)
Locked(h)   == started
Unlocked(h) == started \cup {McSeen(h)}

(* outc := mc.Channel, unless the handler has it already *)
Bound(h) == IF outc[h] = NoChannel THEN [outc EXCEPT ![h] = McSeen(h)]
                                   ELSE outc

(* mc.Start(nil); a handler that takes its channel early does that first,  *)
(* in a step of its own.                                                   *)
Start(h) ==
  /\ hpc[h] = "start"
  /\ IF KindOf(h).early /\ outc[h] = NoChannel
       THEN outc' = Bound(h) /\ UNCHANGED <<started, hpc>>
       ELSE started' = Unlocked(h) /\ Step(h, "cb") /\ UNCHANGED outc
  /\ UNCHANGED <<linkVars, loopVars, wg, closed, hin, buf, draining,
                 stdinVars, written, panic>>

(* wg.Add(1); go DrainChannel(inc, wg), unless the handler gives up. *)
Aside(h, next) ==
  IF KindOf(h).aside /\ next # "fail" THEN draining \cup {h} ELSE draining

(* _, inc := cb(); outc := mc.Channel.  The callback blocks until Start. *)
Callback(h) ==
  /\ hpc[h] = "cb"
  /\ hin[h] \in started
  /\ outc' = Bound(h)
  /\ \E next \in KindOf(h).enter :
       /\ Step(h, next)
       /\ buf' = [buf EXCEPT ![h] = IF next = "send" THEN Own ELSE @]
       /\ draining' = Aside(h, next)
  /\ UNCHANGED <<linkVars, loopVars, wg, started, closed, hin, stdinVars,
                 written, panic>>

(* A payload changes hands: g sends it on the channel h, or the goroutine  *)
(* that drains for h, receives from.                                       *)
Receiving(h) == hpc[h] \in {"recv", "drain", "select"} \/ h \in draining
AfterRecv(h) == IF hpc[h] = "recv" THEN KindOf(h).take ELSE {hpc[h]}

(* A file's payloads are counted in `buf'; what is sent in several pieces  *)
(* stays there.                                                            *)
Sent(g, next) == IF next \in {"source", "send"} THEN buf[g] ELSE NoPayload

(* g has sent to a goroutine that is no Handler. *)
Sends(g) == \E next \in KindOf(g).sent :
              Step(g, next) /\ buf' = [buf EXCEPT ![g] = Sent(g, next)]

Transfer(g, h) ==
  /\ hpc[g] = "send"
  /\ Receiving(h)
  /\ Out(g) = hin[h]
  /\ \E next \in AfterRecv(h), back \in KindOf(g).sent :
       /\ hpc' = [hpc EXCEPT ![h] = next, ![g] = back]
       /\ buf' = [buf EXCEPT ![h] = IF hpc[h] = "recv" /\ next = "send"
                                      THEN buf[g] ELSE @,
                             ![g] = Sent(g, back)]
  /\ written' = IF KindOf(h).role = "stdout" THEN Append(written, buf[g])
                                             ELSE written
  /\ UNCHANGED <<linkVars, loopVars, wg, started, closed, hin, outc,
                 draining, stdinVars, panic>>

(* A send on a closed channel panics. *)
SendClosed(g) ==
  /\ hpc[g] = "send"
  /\ Out(g) \in closed
  /\ panic' = "stream"
  /\ UNCHANGED <<linkVars, loopVars, wg, started, closed, hpc, streamVars,
                 stdinVars, written>>

(* read-file: the next payload of the file, its end or an error *)
ReadFrom(h) ==
  /\ hpc[h] = "source"
  /\ buf[h] < Payloads
  /\ buf' = [buf EXCEPT ![h] = @ + 1]
  /\ Step(h, "send")
  /\ UNCHANGED <<linkVars, loopVars, wg, started, closed, hin, outc,
                 draining, stdinVars, written, panic>>

ReadFromEnd(h) ==
  /\ hpc[h] = "source"
  /\ Step(h, "close")
  /\ UNCHANGED <<linkVars, loopVars, wg, started, closed, streamVars,
                 stdinVars, written, panic>>

(* After the end of `inc'.  The faulty variant closes again what it closed *)
(* before it drained `inc'.                                                *)
ClosingTwice(h) == {"close"}
AfterInput(h) ==
  CASE hpc[h] = "drain"  -> {"finish"}
    [] hpc[h] = "select" -> {"close"}
    [] OTHER             -> KindOf(h).end

(* The range over `inc' ends. *)
InputClosed(h) ==
  /\ hpc[h] \in {"recv", "drain", "select"}
  /\ hin[h] \in closed
  /\ \E next \in AfterInput(h) :
       /\ Step(h, next)
       /\ buf' = [buf EXCEPT ![h] = IF next = "send" THEN Own ELSE @]
  /\ UNCHANGED <<linkVars, loopVars, wg, started, closed, hin, outc,
                 draining, stdinVars, written, panic>>

(* The goroutine that drains beside the handler: wg.Done() *)
Drained(h) ==
  /\ h \in draining
  /\ hin[h] \in closed
  /\ draining' = draining \ {h}
  /\ UNCHANGED <<linkVars, loopVars, wg, started, closed, hpc, hin, outc, buf,
                 stdinVars, written, panic>>

(* A handler that gave up before it read drains `inc' itself. *)
AfterClose(h) == IF hpc[h] = "fail" THEN "drain" ELSE KindOf(h).after

CloseOutc(h) ==
  /\ hpc[h] \in {"close", "fail"}
  /\ CloseChannel(Out(h))
  /\ Step(h, AfterClose(h))
  /\ UNCHANGED <<linkVars, loopVars, wg, started, streamVars, stdinVars,
                 written>>

(* wg.Done(), after the deferred mutex.Unlock() of stdin.go *)
Done(h) ==
  /\ hpc[h] = "finish"
  /\ wg' = [wg EXCEPT ![h[1]] = @ \ {h}]
  /\ mutex' = IF mutex = h THEN NoChannel ELSE mutex
  /\ Step(h, "done")
  /\ UNCHANGED <<linkVars, loopVars, started, closed, streamVars, cancel,
                 datac, written, panic>>

(* stdin.go: mutex.Lock(), and the cases of the handler's select on Datac *)
Lock(h) ==
  /\ hpc[h] = "lock"
  /\ mutex = NoChannel
  /\ mutex' = h
  /\ Step(h, "select")
  /\ UNCHANGED <<linkVars, loopVars, wg, started, closed, streamVars, cancel,
                 datac, written, panic>>

ReadDatac(h) ==
  /\ hpc[h] = "select"
  /\ datac < Payloads
  /\ datac' = datac + 1
  /\ buf' = [buf EXCEPT ![h] = datac + 1]
  /\ Step(h, "send")
  /\ UNCHANGED <<linkVars, loopVars, wg, started, closed, hin, outc,
                 draining, cancel, mutex, written, panic>>

DatacClosed(h) ==
  /\ hpc[h] = "select"
  /\ datac = Payloads
  /\ IF h[1] \in cancel
       THEN panic' = "cancel" /\ UNCHANGED <<cancel, hpc>>
       ELSE /\ cancel' = cancel \cup {h[1]}
            /\ Step(h, "close")
            /\ UNCHANGED panic
  /\ UNCHANGED <<linkVars, loopVars, wg, started, closed, streamVars, mutex,
                 datac, written>>

Handler(h) ==
  /\ ~IsServer(h[1])
  /\ \/ Start(h)
     \/ Callback(h)
     \/ \E g \in Handlers : Transfer(g, h)
     \/ SendClosed(h)
     \/ ReadFrom(h)
     \/ ReadFromEnd(h)
     \/ InputClosed(h)
     \/ Drained(h)
     \/ CloseOutc(h)
     \/ Done(h)
     \/ Lock(h)
     \/ ReadDatac(h)
     \/ DatacClosed(h)

-----------------------------------------------------------------------------
Running == panic = "none" /\ pc[Relay] # "exited"

Next ==
  /\ Running
  /\ \/ \E m \in Modules : Loop(m)
     \/ RelayMessages
     \/ \E h \in Handlers : Handler(h)

(* The process is gone: nothing runs any more. *)
Stopped == ~Running /\ UNCHANGED vars

(* The Go scheduler runs every goroutine that can run. *)
Fairness ==
  /\ \A m \in Modules : WF_vars(Running /\ Loop(m))
  /\ WF_vars(Running /\ RelayMessages)
  /\ \A h \in Handlers : WF_vars(Running /\ Handler(h))

Spec == Init /\ [][Next \/ Stopped]_vars /\ Fairness

-----------------------------------------------------------------------------
(* Properties *)

(* No goroutine closes a channel twice or sends on a closed one, whatever  *)
(* the order in which the loops and the handlers run (upper.go:28-81).     *)
NoPanic == panic = "none"

(* Terminate is the last message a module sends: behind it the receiver    *)
(* reads only the end of the link (upper.go:66-79, message.go:78-91).      *)
TerminateIsLast ==
  \A l \in Places : \A i \in 1..Len(link[l]) :
    link[l][i] = Terminate => i = Len(link[l])

(* "The sender will close the channel to signal the end of the             *)
(* transmition" (message.go:29): a module has closed every MessageChannel  *)
(* it announced, and its handlers have returned, when it closes its `out'. *)
ClosedBehind ==
  \A m \in Modules :
    m \in linkClosed =>
      \A k \in 1..made[m] : /\ <<m, k>> \in closed
                            /\ hpc[<<m, k>>] \in {"idle", "done"}

(* No module, and not RelayMessages, meets the end of its link while it    *)
(* still waits for messages: a Terminate always comes first                *)
(* (upper.go:28-72, tcpServer.go:218-234, message.go:79-90).               *)
EndsByTerminate ==
  \A l \in Places : AtEnd(l) => pc[Reader(l)] \notin {"loop", "select"}

(* A module that sent Terminate has nothing more to say: its handlers have *)
(* returned, and none moves again (upper.go:42-44, 66-69).                 *)
Silent(m) == pc[m] \in {"drain", "last", "close", "done"}
SilentAfterTerminate ==
  [][\A h \in Handlers :
       Silent(h[1]) => /\ hpc[h] \in {"idle", "done"} /\ h \notin draining
                       /\ hpc'[h] = hpc[h]]_vars

(* The sender unlocks every callback it handed out (message.go:27).        *)
CallbackReturns ==
  \A h \in Handlers : (hpc[h] = "cb") ~> (hpc[h] # "cb" \/ ~Running)

(* The pipeline shuts down by itself once the standard input ends.         *)
Exits == <>(pc[Relay] = "exited")

(* A line of stdin, copying modules and stdout implements a byte stream:   *)
(* each payload is written once, in order, and the program exits only when *)
(* all are, whichever goroutine is slow.                                   *)
Stream == INSTANCE ByteStream WITH
            read  <- datac,
            wrote <- written,
            over  <- pc[Relay] = "exited"
CopiesStdin == Stream!Spec

-----------------------------------------------------------------------------
(* Inductive invariants *)

(* A link is closed by the last step of its sender, and a sender that has  *)
(* finished left a Terminate that its waiting reader will find.            *)
Finished(p) == pc[p] \in {"drain", "last", "close", "done", "exited"}
Waiting(p)  == \/ pc[p] \in {"announce", "loop", "newChannel", "select"}
               \/ pc[p] = "forward" /\ held[p] # Terminate
TerminateAhead ==
  /\ \A l \in linkClosed : pc[l] = IF l = Relay THEN "exited" ELSE "done"
  /\ \A l \in Places :
       Finished(l) /\ Waiting(Reader(l)) =>
         \E i \in 1..Len(link[l]) : link[l][i] = Terminate

(* A link with a Terminate on it has a sender that has finished, and ends  *)
(* with it.                                                                *)
NothingBehind(l) ==
  \A i \in 1..Len(link[l]) :
    link[l][i] = Terminate => Finished(l) /\ i = Len(link[l])
TerminateLast == \A l \in Places : NothingBehind(l)

(* A handler past its callback knows the channel it sends to. *)
HasOutc ==
  \A h \in Handlers : hpc[h] \in {"idle", "start", "cb"} \/ outc[h] # NoChannel

(* The WaitGroup of a module counts every handler that runs, and a module  *)
(* that passed wg.Wait() starts no other.                                  *)
Counted ==
  /\ \A h \in Handlers : hpc[h] \notin {"idle", "done"} => h \in wg[h[1]]
  /\ \A m \in Modules : pc[m] = "terminate" \/ Silent(m) => HandlersDone(m)

(* The MessageChannel of each module passes one place after the other: it *)
(* is not announced yet, on the link, in the hands of RelayMessages, or    *)
(* received.  A second one never comes, so no module makes a second.       *)
HasChannel(q) == \E i \in 1..Len(q) : q[i] # Terminate
OneChannel(q) == \A i, j \in 1..Len(q) :
                   q[i] # Terminate /\ q[j] # Terminate => i = j
Forwarding    == pc[Relay] = "forward" /\ held[Relay] # Terminate
Received(l)   ==
  IF l = N THEN Forwarding \/ HasChannel(link[Relay]) \/ init[1]
           ELSE init[l + 1]
OneStream ==
  /\ \A m \in Modules : /\ made[m] = IF IsServer(m) THEN 0 ELSE 1
                        /\ pc[m] # "newChannel"
  /\ \A l \in Places : OneChannel(link[l])
  /\ \A l \in Places : HasChannel(link[l]) => ~Received(l)
  /\ \A m \in Modules :
       pc[m] = "announce" => ~HasChannel(link[m]) /\ ~Received(m)
  /\ Forwarding => ~HasChannel(link[Relay]) /\ ~init[1]

(* The one handler of a module runs once, on its own stream; the stream is *)
(* closed when the handler has closed it, or the loop that has none; and   *)
(* stdin's handler closes `cancel' on its way out.                         *)
Spawned ==
  \A h \in Handlers : hpc[h] # "idle" <=> init[h[1]] /\ h = Mc(h[1])
OwnOutc(h) ==
  \/ outc[h] = h
  \/ outc[h] = NoChannel /\ hpc[h] \in {"idle", "start", "cb"}
OwnStream == \A h \in Handlers : OwnOutc(h)
ClosedByOwner ==
  \A h \in Handlers :
    h \in closed <=>
      \/ hpc[h] \in {"drain", "finish", "done"}
      \/ /\ hpc[h] = "idle"
         /\ h = Mc(h[1])
         /\ pc[h[1]] \notin {"announce", "loop"}
CancelByOwner ==
  \A m \in cancel : /\ Mc(m) \in Handlers
                    /\ hpc[Mc(m)] \in {"close", "drain", "finish", "done"}

IInv == /\ TypeOK /\ TerminateAhead /\ TerminateLast /\ Counted
        /\ OneStream /\ Spawned /\ OwnStream /\ ClosedByOwner /\ CancelByOwner

-----------------------------------------------------------------------------
(* Inductive invariant of a line of stdin, copying modules and stdout *)

Copies == {Upper, Lower, HexEncode}
IsCopyLine == /\ N >= 2
              /\ Kind[1] = Stdin
              /\ Kind[N] = Stdout
              /\ \A m \in 2..(N - 1) : Kind[m] \in Copies

(* The one handler of a module, and the module whose stream it reads *)
The(m)    == <<m, 1>>
Before(m) == IF m = 1 THEN N ELSE m - 1

(* What is announced on a link is the stream of the module before it. *)
RingOrder ==
  /\ \A l \in Places : \A i \in 1..Len(link[l]) :
       link[l][i] # Terminate =>
         link[l][i] = Channel(The(IF l = Relay THEN N ELSE l))
  /\ Forwarding => held[Relay] = Channel(The(N))
  /\ \A m \in Modules :
       hpc[The(m)] # "idle" => hin[The(m)] = The(Before(m))

(* A MessageChannel goes ahead of the Terminate behind it; the loop that   *)
(* leaves off has had its own, and RelayMessages the one of stdout.        *)
RelayEnds == Finished(Relay) \/ (pc[Relay] = "forward" /\ held[Relay] = Terminate)
ComesFirst ==
  /\ \A m \in Modules : pc[m] # "announce" => HasChannel(link[m]) \/ Received(m)
  /\ \A m \in Modules : pc[m] \notin {"announce", "loop"} => init[m]
  /\ \A m \in Modules : Finished(m) => Silent(m)
  /\ RelayEnds => Received(N) /\ hpc[The(N)] = "done"

(* A handler that is over has read all that those before it sent; stdin's  *)
(* is over when the standard input is.                                     *)
StatesAt(m) == {"idle", "start", "cb", "close", "finish", "done"} \cup
               (CASE m = 1  -> {"lock", "select", "send", "drain"}
                  [] m = N  -> {"recv"}
                  [] OTHER  -> {"recv", "send"})
OverInTurn ==
  /\ draining = {}
  /\ \A m \in Modules : hpc[The(m)] \in StatesAt(m)
  /\ \A m \in Modules : hpc[The(m)] \in {"close", "finish", "done"} =>
       \A n \in 1..(m - 1) : hpc[The(n)] \in {"drain", "finish", "done"}
  /\ hpc[The(1)] \in {"close", "drain", "finish", "done"} => datac = Payloads

(* What was read and not yet written is in the hands of the handlers, the  *)
(* oldest farthest down the line.                                          *)
Holds(m) == hpc[The(m)] = "send"
InHands(out, in) ==
  /\ out <= in
  /\ \A m \in Modules : Holds(m) => buf[The(m)] \in (out + 1)..in
  /\ \A m, n \in Modules :
       Holds(m) /\ Holds(n) /\ m < n => buf[The(n)] < buf[The(m)]
  /\ \A p \in (out + 1)..in : \E m \in Modules : Holds(m) /\ buf[The(m)] = p
InFlight == InHands(Len(written), datac)

CopyInv == RingOrder /\ ComesFirst /\ OverInTurn /\ InFlight
=============================================================================
