----------------------------- MODULE TcpServer ------------------------------
(***************************************************************************)
(* tcpServer.go, tls.go, websocketServer.go, httpServer.go: the modules    *)
(* that serve clients, in a pipeline.  The main goroutine pairs            *)
(* connections with incoming callbacks, one goroutine per accepted         *)
(* connection waits for such a pair, a ticker fires when connect-timeout   *)
(* has elapsed: the same code in all four.  They differ in what a          *)
(* connection does before it asks for a stream, and in the handler.        *)
(* The server's part of the pipeline's variables: made[s] counts the       *)
(* MessageChannels it created, <<s, k>> is the stream of the k-th one,     *)
(* cancel holds the servers that closed their `cancel'.                    *)
(***************************************************************************)
EXTENDS Pipeline, FiniteSets

CONSTANTS
  MaxConns,  \* bound: connections each server accepts
  TimedOut   \* the servers whose connect-timeout elapses

Servers == {s \in Modules : IsServer(s)}
Conns   == Servers \X (1..MaxConns)

ASSUME TcpServerAssumption ==
  /\ MaxConns \in Nat
  /\ TimedOut \subseteq Servers

VARIABLES
  cbs,      \* callbacks that wait for a connection
  mcs,      \* MessageChannels whose connection waits for a callback
  relay,    \* the pair the loop hands over on `relayer'
  armed,    \* the ticker was not stopped
  tick,     \* a tick is buffered in ticker.C
  shutdown, \* what the loop has closed on its way out
  cpc,      \* where the goroutine of each connection stands
  serves,   \* the stream a connection's goroutine handles
  wpc,      \* the goroutine that writes to the connection
  said      \* payloads read from the connection

serverVars == <<cbs, mcs, relay, armed, tick, shutdown>>
connVars   == <<cpc, serves>>
dataVars   == <<wpc, said>>
allVars    == <<vars, serverVars, connVars, dataVars>>

ConnStates == {"none", "accepted", "try", "offer", "await", "serving",
               "leave", "gone"}

ServerTypeOK ==
  /\ cbs \in [Servers -> Seq(Handlers)]
  /\ mcs \in [Servers -> Seq(Handlers)]
  /\ relay \in [Servers -> [cb : Handlers \cup {NoChannel},
                            mc : Handlers \cup {NoChannel}]]
  /\ armed \in [Servers -> BOOLEAN]
  /\ tick \in [Servers -> BOOLEAN]
  /\ shutdown \in [Servers -> SUBSET {"listener", "connc", "relayer", "donec"}]
  /\ cpc \in [Conns -> ConnStates]
  /\ serves \in [Conns -> Handlers \cup {NoChannel}]
  /\ wpc \in [Handlers -> {"idle", "recv", "write", "drain", "done"}]
  /\ said \in [Handlers -> 0..Payloads]

NoRelay == [cb |-> NoChannel, mc |-> NoChannel]

ServerInit ==
  /\ Init
  /\ cbs = [s \in Servers |-> <<>>]
  /\ mcs = [s \in Servers |-> <<>>]
  /\ relay = [s \in Servers |-> NoRelay]
  /\ armed = [s \in Servers |-> TRUE]
  /\ tick = [s \in Servers |-> FALSE]
  /\ shutdown = [s \in Servers |-> {}]
  /\ cpc = [c \in Conns |-> "none"]
  /\ serves = [c \in Conns |-> NoChannel]
  /\ wpc = [h \in Handlers |-> "idle"]
  /\ said = [h \in Handlers |-> 0]

(* donec counts the goroutines between its send and its receive. *)
Reserved(s) ==
  {c \in Conns : c[1] = s /\ cpc[c] \in {"try", "offer", "await", "serving",
                                         "leave"}}
Donec(s) == Cardinality(Reserved(s))

GoConn(c, state) == cpc' = [cpc EXCEPT ![c] = state]

-----------------------------------------------------------------------------
(* The main goroutine: the cases of its select *)

Tick(s) ==
  /\ s \in TimedOut
  /\ armed[s] /\ ~tick[s]
  /\ pc[s] \in {"select", "connected", "relay"}
  /\ tick' = [tick EXCEPT ![s] = TRUE]
  /\ UNCHANGED <<vars, cbs, mcs, relay, armed, shutdown, connVars, dataVars>>

(* case <- ticker.C: nobody came in time *)
SelectTick(s) ==
  /\ pc[s] = "select"
  /\ tick[s]
  /\ tick' = [tick EXCEPT ![s] = FALSE]
  /\ armed' = [armed EXCEPT ![s] = FALSE]
  /\ cancel' = cancel \cup {s}
  /\ GoTo(s, "join")
  /\ UNCHANGED <<linkVars, init, made, held, wg, started, closed, hpc,
                 streamVars, mutex, datac, written, panic, cbs, mcs, relay,
                 shutdown, connVars, dataVars>>

(* mc := NewMessageChannel(), and one for all connections *)
FirstStream(s) == 1
NewStream(s)   == made[s] + 1

(* case <- connc: a connection asks for a stream *)
SelectConn(s, c) ==
  /\ pc[s] = "select"
  /\ cpc[c] = "offer"
  /\ made[s] < MaxStreams
  /\ made' = [made EXCEPT ![s] = NewStream(s)]
  /\ GoConn(c, "await")
  /\ GoTo(s, "connected")
  /\ UNCHANGED <<linkVars, init, held, wg, started, closed, hpc, streamVars,
                 stdinVars, written, panic, serverVars, serves, dataVars>>

(* mcs = append(mcs, mc) and cbs = cbs[1:].  The faulty variant keeps the  *)
(* paired callback.                                                        *)
Unpaired(s)  == IF cbs[s] = <<>> THEN Append(mcs[s], Mc(s)) ELSE mcs[s]
SameCbs(s)   == cbs[s]
RestOfCbs(s) == IF cbs[s] = <<>> THEN <<>> ELSE Tail(cbs[s])

(* out <- mc.Callback, then a waiting callback is paired with it. *)
Connected(s) ==
  /\ pc[s] = "connected"
  /\ Send(s, Channel(Mc(s)))
  /\ mcs' = [mcs EXCEPT ![s] = Unpaired(s)]
  /\ cbs' = [cbs EXCEPT ![s] = RestOfCbs(s)]
  /\ IF cbs[s] = <<>>
       THEN GoTo(s, "select") /\ UNCHANGED <<wg, relay>>
       ELSE /\ wg' = [wg EXCEPT ![s] = @ \cup {Mc(s)}]
            /\ relay' = [relay EXCEPT ![s] = [cb |-> Head(cbs[s]),
                                              mc |-> Mc(s)]]
            /\ GoTo(s, "relay")
  /\ UNCHANGED <<linkClosed, init, made, held, started, closed, hpc,
                 streamVars, stdinVars, written, panic, armed, tick,
                 shutdown, connVars, dataVars>>

(* if ! global.MultiStreams, and without it *)
NeverLast  == FALSE
LastStream == ~MultiStreams

(* relayer <- &TCPServerRelayer{...}: whichever connection receives first. *)
Relayed(s, c) ==
  LET h == relay[s].mc IN
  /\ pc[s] = "relay"
  /\ cpc[c] \in {"try", "await"}
  /\ GoConn(c, "serving")
  /\ serves' = [serves EXCEPT ![c] = h]
  /\ hpc' = [hpc EXCEPT ![h] = "start"]
  /\ hin' = [hin EXCEPT ![h] = relay[s].cb]
  /\ relay' = [relay EXCEPT ![s] = NoRelay]
  /\ IF LastStream
       THEN GoTo(s, "join") /\ cancel' = cancel \cup {s}
       ELSE GoTo(s, "select") /\ UNCHANGED cancel
  /\ UNCHANGED <<linkVars, init, made, held, wg, started, closed, outc, buf,
                 draining, mutex, datac, written, panic, cbs, mcs, armed, tick,
                 shutdown, dataVars>>

(* switch message.Type, and without it *)
AnyMessage(msg) == TRUE
IsCallback(msg) == msg # Terminate

(* Faulty variant: every server lists again what it hands over. *)
ListedAnyway(s, cb) == Append(cbs[s], cb)

(* httpServer.go:468 puts a callback it handed over on the list as well,   *)
(* which every other server leaves alone.                                  *)
HandedOver(s, cb) ==
  IF Kind[s] = HttpSide /\ LastStream THEN Append(cbs[s], cb) ELSE cbs[s]

(* case <- in, a MessageChannelFunc *)
SelectCallback(s) ==
  LET cb == Head(link[s - 1]).mc IN
  /\ pc[s] = "select"
  /\ Receive(s - 1)
  /\ IsCallback(Head(link[s - 1]))
  /\ armed' = [armed EXCEPT ![s] = FALSE]
  /\ IF mcs[s] = <<>>
       THEN /\ cbs' = [cbs EXCEPT ![s] = Append(@, cb)]
            /\ UNCHANGED <<pc, wg, mcs, relay>>
       ELSE /\ wg' = [wg EXCEPT ![s] = @ \cup {Head(mcs[s])}]
            /\ relay' = [relay EXCEPT ![s] = [cb |-> cb, mc |-> Head(mcs[s])]]
            /\ mcs' = [mcs EXCEPT ![s] = Tail(@)]
            /\ cbs' = [cbs EXCEPT ![s] = HandedOver(s, cb)]
            /\ GoTo(s, "relay")
  /\ UNCHANGED <<linkClosed, init, made, held, started, closed, hpc,
                 streamVars, stdinVars, written, panic, tick, shutdown,
                 connVars, dataVars>>

(* case <- in, a Terminate message; the end of the link never comes first  *)
(* (EndsByTerminate).                                                      *)
SelectTerminate(s) ==
  /\ pc[s] = "select"
  /\ Receive(s - 1)
  /\ Head(link[s - 1]) = Terminate
  /\ armed' = [armed EXCEPT ![s] = FALSE]
  /\ cancel' = cancel \cup {s}
  /\ GoTo(s, "join")
  /\ UNCHANGED <<linkClosed, init, made, held, wg, started, closed, hpc,
                 streamVars, mutex, datac, written, panic, cbs, mcs, relay,
                 tick, shutdown, connVars, dataVars>>

-----------------------------------------------------------------------------
(* The main goroutine after its loop *)

(* for _, mc := range mcs, and without it *)
NoneLeft(s) == {}
Left(s)     == {mcs[s][i] : i \in 1..Len(mcs[s])}

(* listener.Close(); close(connc); close(mc.Channel) for each of mcs *)
Shut(s) ==
  /\ pc[s] = "shut"
  /\ shutdown' = [shutdown EXCEPT ![s] = {"listener", "connc"}]
  /\ closed' = closed \cup Left(s)
  /\ panic' = IF Left(s) \cap closed = {} THEN panic ELSE "stream"
  /\ GoTo(s, "callbacks")
  /\ UNCHANGED <<linkVars, init, made, held, wg, started, hpc, streamVars,
                 stdinVars, written, cbs, mcs, relay, armed, tick, connVars,
                 dataVars>>

(* _, inc := cb(); DrainChannel(inc, nil) for each of cbs *)
DrainPayload(s, g) ==
  /\ pc[s] = "callbacks"
  /\ cbs[s] # <<>>
  /\ Head(cbs[s]) \in started
  /\ hpc[g] = "send"
  /\ Out(g) = Head(cbs[s])
  /\ Sends(g)
  /\ UNCHANGED <<linkVars, loopVars, wg, started, closed, hin, outc,
                 draining, stdinVars, written, panic, serverVars, connVars, dataVars>>

DrainedCallback(s) ==
  /\ pc[s] = "callbacks"
  /\ cbs[s] # <<>>
  /\ Head(cbs[s]) \in started \cap closed
  /\ cbs' = [cbs EXCEPT ![s] = Tail(@)]
  /\ UNCHANGED <<vars, mcs, relay, armed, tick, shutdown, connVars, dataVars>>

(* wg.Wait(); close(relayer); close(donec) *)
ShutChannels(s) ==
  /\ pc[s] = "callbacks"
  /\ cbs[s] = <<>>
  /\ wg[s] = {}
  /\ shutdown' = [shutdown EXCEPT ![s] = @ \cup {"relayer", "donec"}]
  /\ GoTo(s, "last")
  /\ UNCHANGED <<linkVars, init, made, held, wg, started, closed, hpc,
                 streamVars, stdinVars, written, panic, cbs, mcs, relay,
                 armed, tick, connVars, dataVars>>

(* LOOP: for { select ... } *)
Select(s) ==
  \/ SelectTick(s)
  \/ \E c \in Conns : c[1] = s /\ (SelectConn(s, c) \/ Relayed(s, c))
  \/ Connected(s)
  \/ SelectCallback(s)
  \/ SelectTerminate(s)
  \/ /\ Join(s, "join", "terminate") \/ SendTerminate(s, "shut")
     /\ UNCHANGED <<serverVars, connVars, dataVars>>

(* What follows the loop *)
WindDown(s) ==
  \/ Shut(s)
  \/ \E g \in Handlers : DrainPayload(s, g)
  \/ DrainedCallback(s)
  \/ ShutChannels(s)
  \/ /\ Last(s, s - 1) \/ CloseOut(s, "done")
     /\ UNCHANGED <<serverVars, connVars, dataVars>>

Server(s) == Select(s) \/ WindDown(s)

-----------------------------------------------------------------------------
(* The goroutine of one accepted connection, or of one request:            *)
(* tcpServerServe, tlsServe, websocketServerHandle, HTTPServerHandler.     *)

(* net/http accepts for two of them: it recovers what a request's handler  *)
(* panics on, and a connection kept alive outlives the listener.           *)
ByNetHttp(s) == Kind[s] \in {WebsocketSide, HttpSide}

Accept(c) ==
  /\ cpc[c] = "none"
  /\ "listener" \notin shutdown[c[1]] \/ ByNetHttp(c[1])
  /\ GoConn(c, "accepted")
  /\ UNCHANGED <<vars, serverVars, serves, dataVars>>

(* A send on a closed channel ends the program, or this goroutine alone. *)
Panics(c, state) ==
  IF ByNetHttp(c[1]) THEN GoConn(c, state) /\ UNCHANGED panic
                     ELSE panic' = "server" /\ UNCHANGED cpc

(* donec <- struct{}{} *)
Reserve(c) ==
  /\ cpc[c] = "accepted"
  /\ \/ /\ "donec" \in shutdown[c[1]]
        /\ Panics(c, "gone")
     \/ /\ "donec" \notin shutdown[c[1]]
        /\ Donec(c[1]) < MaxConcurrentStreams
        /\ GoConn(c, "try")
        /\ UNCHANGED panic
  /\ UNCHANGED <<linkVars, loopVars, wg, started, closed, hpc, streamVars,
                 stdinVars, written, serverVars, serves, dataVars>>

(* ServeHTTP answers 302, 401 or 404 by itself; Upgrade fails. *)
Refused(c) ==
  /\ \/ Kind[c[1]] = HttpSide /\ cpc[c] = "accepted" /\ GoConn(c, "gone")
     \/ Kind[c[1]] = WebsocketSide /\ cpc[c] = "try" /\ GoConn(c, "leave")
  /\ UNCHANGED <<vars, serverVars, serves, dataVars>>

(* The first select falls through when neither of its channels is ready. *)
TryDefault(c) ==
  /\ cpc[c] = "try"
  /\ pc[c[1]] # "relay"
  /\ c[1] \notin cancel
  /\ GoConn(c, "offer")
  /\ UNCHANGED <<vars, serverVars, serves, dataVars>>

(* case <- cancel, or relayer closed *)
GiveUp(c) ==
  /\ cpc[c] \in {"try", "offer", "await"}
  /\ \/ c[1] \in cancel
     \/ cpc[c] # "offer" /\ "relayer" \in shutdown[c[1]]
  /\ GoConn(c, "leave")
  /\ UNCHANGED <<vars, serverVars, serves, dataVars>>

(* The second select may choose its send on `connc' when that is closed. *)
OfferClosed(c) ==
  /\ cpc[c] = "offer"
  /\ "connc" \in shutdown[c[1]]
  /\ Panics(c, "leave")
  /\ UNCHANGED <<linkVars, loopVars, wg, started, closed, hpc, streamVars,
                 stdinVars, written, serverVars, serves, dataVars>>

Served(c) ==
  /\ cpc[c] = "serving"
  /\ hpc[serves[c]] = "done"
  /\ GoConn(c, "leave")
  /\ UNCHANGED <<vars, serverVars, serves, dataVars>>


(* the deferred <- donec *)
Leave(c) ==
  /\ cpc[c] = "leave"
  /\ GoConn(c, "gone")
  /\ UNCHANGED <<vars, serverVars, serves, dataVars>>

Conn(c) ==
  \/ Reserve(c)
  \/ Refused(c)
  \/ TryDefault(c)
  \/ GiveUp(c)
  \/ OfferClosed(c)
  \/ Served(c)
  \/ Leave(c)

-----------------------------------------------------------------------------
(* The handler of one stream: tcpServerHandler, tlsHandler,                *)
(* websocketServerUpgrade, HTTPServerHandleResponse.  One goroutine reads  *)
(* from the client and another one writes to it; http-server does both in  *)
(* one goroutine, one after the other.                                     *)
OneGoroutine(h) == KindOf(h) = HttpSide

(* cb() has returned.  A TLS handshake that fails then leaves the handler  *)
(* to close its stream and drain the other; tls-server writes only once it *)
(* has sent the packet it read.                                            *)
WriterAfter(h, next) ==
  CASE next = "read"  -> IF OneGoroutine(h) THEN "idle" ELSE "recv"
    [] next = "send"  -> "idle"
    [] next = "close" -> "drain"

ServerCallback(h) ==
  /\ hpc[h] = "cb"
  /\ hin[h] \in started
  /\ outc' = [outc EXCEPT ![h] = h]
  /\ \E next \in KindOf(h).enter :
       /\ Step(h, next)
       /\ buf' = [buf EXCEPT ![h] = IF next = "send" THEN Own ELSE @]
       /\ wpc' = [wpc EXCEPT ![h] = WriterAfter(h, next)]
  /\ UNCHANGED <<linkVars, loopVars, wg, started, closed, hin, draining,
                 stdinVars, written, panic, serverVars, connVars, said>>

(* tls.go: no ClientHello comes.  mc was not started, and `inc' is nil:    *)
(* DrainChannel(inc, nil) never returns, which `wpc' stays "idle" for.     *)
HandshakeFails(h) ==
  /\ KindOf(h) = TlsSide
  /\ hpc[h] = "start"
  /\ outc' = [outc EXCEPT ![h] = h]
  /\ Step(h, "close")
  /\ UNCHANGED <<linkVars, loopVars, wg, started, closed, hin, buf, draining,
                 stdinVars, written, panic, serverVars, connVars, dataVars>>

(* go TLSStartInc, after the first packet *)
StartWriter(h) ==
  /\ KindOf(h) = TlsSide
  /\ hpc[h] = "read" /\ wpc[h] = "idle"
  /\ wpc' = [wpc EXCEPT ![h] = "recv"]
  /\ UNCHANGED <<vars, serverVars, connVars, said>>

Reading(h) == hpc[h] = "read" /\ (wpc[h] # "idle" \/ OneGoroutine(h))

ReadConn(h) ==
  /\ Reading(h)
  /\ wpc[h] # "done"
  /\ said[h] < Payloads
  /\ said' = [said EXCEPT ![h] = @ + 1]
  /\ buf' = [buf EXCEPT ![h] = said[h] + 1]
  /\ Step(h, "send")
  /\ UNCHANGED <<linkVars, loopVars, wg, started, closed, hin, outc,
                 draining, stdinVars, written, panic, serverVars, connVars, wpc>>


(* End of file, an error, the read timeout, or the writer closed it; then  *)
(* http-server responds, unless it failed or had a form.                   *)
ReadConnEnd(h) ==
  /\ Reading(h)
  /\ \/ Step(h, "close")
     \/ OneGoroutine(h) /\ Step(h, "recv")
  /\ UNCHANGED <<linkVars, loopVars, wg, started, closed, streamVars,
                 stdinVars, written, panic, serverVars, connVars, dataVars>>

(* case <- req.Context().Done() *)
ClientGone(h) ==
  /\ OneGoroutine(h)
  /\ hpc[h] = "recv"
  /\ Step(h, "close")
  /\ UNCHANGED <<linkVars, loopVars, wg, started, closed, streamVars,
                 stdinVars, written, panic, serverVars, connVars, dataVars>>

WriterRecv(g, h) ==
  /\ hpc[g] = "send"
  /\ Out(g) = hin[h]
  /\ wpc[h] \in {"recv", "drain"}
  /\ Sends(g)
  /\ wpc' = [wpc EXCEPT ![h] = IF @ = "recv" THEN "write" ELSE @]
  /\ UNCHANGED <<linkVars, loopVars, wg, started, closed, hin, outc,
                 draining, stdinVars, written, panic, serverVars, connVars, said>>

(* conn.Write fails when the client is gone or the reader closed conn,     *)
(* which websocket-server's does not.                                      *)
WriteConn(h) ==
  /\ wpc[h] = "write"
  /\ \/ /\ \/ hpc[h] \in {"read", "send", "close"}
           \/ KindOf(h) = WebsocketSide
        /\ wpc' = [wpc EXCEPT ![h] = "recv"]
     \/ wpc' = [wpc EXCEPT ![h] = "drain"]
  /\ UNCHANGED <<vars, serverVars, connVars, said>>


WriterEnd(h) ==
  /\ wpc[h] \in {"recv", "drain"}
  /\ hin[h] \in closed
  /\ wpc' = [wpc EXCEPT ![h] = "done"]
  /\ UNCHANGED <<vars, serverVars, connVars, said>>

(* syn.Wait() *)
Joined(h) == KindOf(h).aside => wpc[h] = "done"

(* The steps that wait for the client and have no timeout: the request's   *)
(* body and the end of its connection, the TLS handshake.                  *)
ClientStep(h) ==
  \/ /\ OneGoroutine(h)
     /\ ReadConn(h) \/ ReadConnEnd(h) \/ ClientGone(h)
  \/ /\ KindOf(h) = TlsSide
     /\ \/ Start(h) /\ UNCHANGED <<serverVars, connVars, dataVars>>
        \/ ServerCallback(h)
        \/ HandshakeFails(h)

ReadLoop(h) ==
  \/ /\ \/ KindOf(h) # TlsSide /\ Start(h)
        \/ \E g \in Handlers : Transfer(g, h)
        \/ SendClosed(h) \/ InputClosed(h) \/ CloseOutc(h)
        \/ Joined(h) /\ Done(h)
     /\ UNCHANGED <<serverVars, connVars, dataVars>>
  \/ KindOf(h) # TlsSide /\ ServerCallback(h)
  \/ ~OneGoroutine(h) /\ (ReadConn(h) \/ ReadConnEnd(h))
  \/ StartWriter(h)

WriteLoop(h) ==
  \/ \E g \in Handlers : WriterRecv(g, h)
  \/ WriteConn(h)
  \/ WriterEnd(h)

-----------------------------------------------------------------------------
ServerHandlers == {h \in Handlers : IsServer(h[1])}

ServerNext ==
  \/ Next /\ UNCHANGED <<serverVars, connVars, dataVars>>
  \/ /\ Running
     /\ \/ \E s \in Servers : Tick(s) \/ Server(s)
        \/ \E c \in Conns : Accept(c) \/ Conn(c)
        \/ \E h \in ServerHandlers : ReadLoop(h) \/ WriteLoop(h) \/ ClientStep(h)

ServerStopped == ~Running /\ UNCHANGED allVars

(* Clients come or stay away, and do what no timeout limits when they like *)
(* (ClientStep); any other read ends by the read timeout at last, and the  *)
(* ticker fires unless it was stopped.                                     *)
ServerFairness ==
  /\ \A m \in Modules : WF_allVars(Running /\ Loop(m)
                                   /\ UNCHANGED <<serverVars, connVars, dataVars>>)
  /\ WF_allVars(Running /\ RelayMessages
                /\ UNCHANGED <<serverVars, connVars, dataVars>>)
  /\ \A h \in Handlers : WF_allVars(Running /\ Handler(h)
                                    /\ UNCHANGED <<serverVars, connVars, dataVars>>)
  /\ \A s \in Servers : WF_allVars(Running /\ Tick(s))
                        /\ WF_allVars(Running /\ Server(s))
  /\ \A c \in Conns : WF_allVars(Running /\ Conn(c))
  /\ \A h \in ServerHandlers : WF_allVars(Running /\ ReadLoop(h))
                               /\ WF_allVars(Running /\ WriteLoop(h))

ServerSpec == ServerInit /\ [][ServerNext \/ ServerStopped]_allVars /\ ServerFairness

-----------------------------------------------------------------------------
(* Properties *)

(* Handlers and loops close every MessageChannel once and never send on a  *)
(* closed one, also when a module serves several streams at a time         *)
(* (message.go:29, tcpServer.go:267-274).                                  *)
StreamsClosedOnce == panic # "stream"

(* A MessageChannel has one receiver: no callback reaches two handlers,    *)
(* and while a server drains the callbacks on its list no handler receives *)
(* from one of them any more (httpServer.go:468 lists one it handed over). *)
SingleReceiver ==
  /\ \A g, h \in Handlers : hin[g] = hin[h] /\ hin[g] # NoChannel => g = h
  /\ \A s \in Servers : \A i \in 1..Len(cbs[s]) : \A h \in Handlers :
       pc[s] \in {"shut", "callbacks"} /\ hin[h] = cbs[s][i] =>
         hpc[h] = "done" /\ wpc[h] \in {"idle", "done"}

(* Without --multi-streams a server serves one connection (tcpServer.go:13 *)
(* "wait for a single connection to complete"): once a connection has its  *)
(* stream no other gets one, not even a stream without a callback.         *)
OneConnection ==
  [][~MultiStreams =>
       \A c, d \in Conns :
         c[1] = d[1] /\ serves[c] # NoChannel =>
           serves'[d] = serves[d] /\ made'[c[1]] = made[c[1]]]_allVars

(* The pair a connection received is its own: two connections never share  *)
(* a stream, and a stream's handler runs only for a connection.            *)
OneConnPerStream ==
  /\ \A c, d \in Conns : serves[c] = serves[d] /\ serves[c] # NoChannel => c = d
  /\ \A h \in ServerHandlers :
       hpc[h] # "idle" => \E c \in Conns : serves[c] = h

(* Every announced stream is closed, by the handler or unpaired by the     *)
(* loop, before the server closes its `out' (message.go:29).               *)
ServerClosedBehind ==
  \A s \in Servers :
    s \in linkClosed => \A k \in 1..made[s] : <<s, k>> \in closed





-----------------------------------------------------------------------------
(* What the code does not keep.  No run checks these: TLC refutes each on  *)
(* the line named, with two clients and one payload at most.               *)

(* stdin can be used for any number of streams (stdin.go:141-143): its     *)
(* handlers do not close `cancel' twice.  Refuted with several streams on  *)
(* <<ServerSide, Stdin>>.                                                  *)
StdinReusable == panic # "cancel"

(* A connection that comes while the server shuts down does no harm: no    *)
(* goroutine sends on `donec' or `connc' after it was closed.  Refuted on  *)
(* <<ServerSide, Upper>> with one client.                                  *)
LateConnHarmless == panic # "server"

(* The server's module has ended only when its connection is complete,     *)
(* both ways (tcpServer.go:13).  Refuted on <<ServerSide, Upper>> with one *)
(* client.                                                                 *)
ConnectionCompletes ==
  \A h \in ServerHandlers :
    h[1] \in linkClosed => wpc[h] \in {"idle", "done"}

(* A connection that asked for a stream is served or sent away, also when  *)
(* others connect at the same time (README.md, multi client support).      *)
(* Refuted with several streams on <<ServerSide, Upper>>.                  *)
AwaitEnds ==
  \A c \in Conns : (cpc[c] = "await") ~> (cpc[c] # "await" \/ ~Running)

(* The callback of every stream that was announced returns: when the loop  *)
(* closes a stream nobody came for, whoever received it still gets through *)
(* (message.go:27 "The sender must call Start() in order to unlock that    *)
(* callback function").  Refuted on <<ServerSide, Lower>> with a client    *)
(* that connects when the connect timeout elapses (tcpServer.go:268).      *)
ServerCallbackReturns ==
  \A h \in Handlers :
    (hpc[h] = "cb" /\ hin[h] \in closed) ~> (hpc[h] # "cb" \/ ~Running)

-----------------------------------------------------------------------------
(* Inductive invariant *)

(* The streams a server has announced, and those a connection has *)
Announced(s) ==
  {s} \X (1..(IF pc[s] = "connected" THEN made[s] - 1 ELSE made[s]))
Taken(h) == \E c \in Conns : serves[c] = h

(* An announced stream passes from the list of those that wait to the pair *)
(* that is handed over to the connection that has it, and is in one place. *)
Waits ==
  \A s \in Servers :
    /\ pc[s] = "connected" => made[s] # 0
    /\ \A i \in 1..Len(mcs[s]) :
         /\ mcs[s][i] \in Announced(s) /\ ~Taken(mcs[s][i])
         /\ \A j \in 1..Len(mcs[s]) : mcs[s][i] = mcs[s][j] => i = j
HandsOver ==
  \A s \in Servers :
    pc[s] = "relay" =>
      /\ relay[s].mc \in Announced(s) /\ ~Taken(relay[s].mc)
      /\ \A i \in 1..Len(mcs[s]) : mcs[s][i] # relay[s].mc
Has ==
  \A c \in Conns :
    /\ cpc[c] \notin {"serving", "leave", "gone"} => serves[c] = NoChannel
    /\ serves[c] # NoChannel => serves[c] \in Announced(c[1])
Pairing == Waits /\ HandsOver /\ Has /\ OneConnPerStream

ServerInv == TypeOK /\ HasOutc /\ ServerTypeOK /\ Pairing

(* Without --multi-streams the loop is over when a connection has a stream.*)
Choosing(s) == pc[s] \in {"select", "connected", "relay"}
ServesLast ==
  ~MultiStreams =>
    \A c \in Conns : serves[c] # NoChannel => ~Choosing(c[1])

(* No announced stream is lost on its way to a connection. *)
Found(s) ==
  \A h \in Announced(s) : \/ h \in Left(s) \/ Taken(h)
                          \/ pc[s] = "relay" /\ relay[s].mc = h

(* The handler of a stream that was taken runs until it has closed it, and *)
(* the WaitGroup counts it all the time.                                   *)
Works(h) ==
  /\ Taken(h) => hpc[h] # "idle"
  /\ hpc[h] \notin {"idle", "done"} => h \in wg[h[1]]
  /\ hpc[h] \notin {"idle", "start", "cb"} => outc[h] = h
  /\ hpc[h] \in {"drain", "finish", "done"} => h \in closed

(* What the main goroutine has done behind its loop. *)
Past(s) == pc[s] \in {"callbacks", "last", "close", "done"}
WoundDown(s) ==
  /\ pc[s] = "relay" => relay[s].mc \in wg[s]
  /\ pc[s] \in {"terminate", "shut"} \/ Past(s) => wg[s] = {}
  /\ Past(s) => Left(s) \subseteq closed
  /\ s \in linkClosed => pc[s] = "done"

EndInv == /\ \A s \in Servers : Found(s) /\ WoundDown(s)
          /\ \A h \in ServerHandlers : Works(h)

(* A module that is no server starts the handlers of its streams one after *)
(* the other, and each sends to its own stream.                            *)
InTurn ==
  \A h \in Handlers \ ServerHandlers :
    /\ hpc[h] # "idle" =>
         /\ init[h[1]] /\ h[2] <= made[h[1]]
         /\ pc[h[1]] = "newChannel" => h[2] # made[h[1]]
    /\ OwnOutc(h)

(* A stream is closed by its handler, or by the loop when it has none. *)
ClosedByOne ==
  \A h \in closed :
    \/ hpc[h] \in {"drain", "finish", "done"}
    \/ /\ hpc[h] = "idle"
       /\ IF IsServer(h[1]) THEN Past(h[1])
          ELSE ~init[h[1]] /\ pc[h[1]] \notin {"announce", "loop", "newChannel"}

(* A loop has a second `mc' only for a second handler, and in single-stream *)
(* mode it has one for its one handler.                                    *)
OneMc ==
  \A m \in Modules : ~IsServer(m) =>
    /\ pc[m] = "newChannel" => init[m]
    /\ SingleStream(m) => /\ made[m] = 1 /\ pc[m] # "newChannel"
                          /\ init[m] => pc[m] \notin {"announce", "loop"}

OnceInv == InTurn /\ OneMc /\ ClosedByOne /\ StreamsClosedOnce

(* Where a MessageChannel that was announced can be: on a link, in the     *)
(* hands of a loop, on a server's list of callbacks, in the pair it hands  *)
(* over, or with the handler that receives from it.                        *)
Spots == {<<"link", l>> : l \in Places} \cup {<<"hand", p>> : p \in Places}
         \cup {<<"list", s>> : s \in Servers} \cup {<<"pair", s>> : s \in Servers}
         \cup {<<"in", h>> : h \in Handlers}
Items(q)  == {q[i] : i \in 1..Len(q)}
OnLink(l) == {x \in Handlers : Channel(x) \in Items(link[l])}
InHand(p) == IF pc[p] \in {"forward", "newChannel"} /\ held[p] # Terminate
               THEN {held[p].mc} ELSE {}
At(t) ==
  CASE t[1] = "link" -> OnLink(t[2])
    [] t[1] = "hand" -> InHand(t[2])
    [] t[1] = "list" -> Items(cbs[t[2]])
    [] t[1] = "pair" -> {relay[t[2]].cb} \ {NoChannel}
    [] t[1] = "in"   -> {hin[t[2]]} \ {NoChannel}

(* It is in one place at a time, but for http-server's, which lists again  *)
(* what it hands over; by then it pairs no callback any more.              *)
Relists(s) == Kind[s] = HttpSide /\ LastStream
Relisted(t, u) ==
  /\ t[1] = "list" /\ Relists(t[2])
  /\ pc[t[2]] \notin {"select", "connected"}
  /\ \/ u = <<"pair", t[2]>>
     \/ u[1] = "in" /\ u[2][1] = t[2]
Distinct(q, but) ==
  \A i, j \in 1..Len(q) : q[i] = q[j] /\ q[i] # but => i = j
NoRepeats ==
  /\ \A l \in Places : Distinct(link[l], Terminate)
  /\ \A s \in Servers : Distinct(cbs[s], NoChannel)
OnePlace ==
  \A t, u \in Spots :
    t = u \/ Relisted(t, u) \/ Relisted(u, t) \/ At(t) \cap At(u) = {}

(* What is anywhere was announced before. *)
Issued(x) ==
  /\ x \in Handlers /\ x[2] <= made[x[1]]
  /\ pc[x[1]] \in {"announce", "newChannel", "connected"} => x[2] # made[x[1]]
IssuedFirst == \A t \in Spots : \A x \in At(t) : Issued(x)

(* A handler with a callback serves a connection, and http-server's has no *)
(* second goroutine.                                                       *)
ReceivesAlone ==
  \A h \in ServerHandlers : /\ hin[h] # NoChannel => Taken(h)
                            /\ OneGoroutine(h) => wpc[h] = "idle"

ReceiverInv == NoRepeats /\ OnePlace /\ IssuedFirst /\ ReceivesAlone

(* The `mc' of a handler that reads the variable is its own to the end.    *)
KeepsMc == \A m \in Modules : Kind[m].byRef => SingleStream(m)
=============================================================================
