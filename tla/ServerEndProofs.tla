-------------------------- MODULE ServerEndProofs ---------------------------
(***************************************************************************)
(* How the modules that serve clients end, for every command line with any *)
(* number of servers, clients and streams: which streams are closed, by    *)
(* whom and how often, and who receives from them.                         *)
(***************************************************************************)
EXTENDS ServerProofs

USE DEF Relay, Modules, Places, Handlers

-----------------------------------------------------------------------------
(* One connection: the loop is over when a connection has its stream. *)

(* Who sets the pc of a server: only its own main goroutine. *)
LEMMA ServerPc ==
  ASSUME ServerInv, ServerNext, NEW s \in Servers
  PROVE  \/ pc'[s] = pc[s] /\ made'[s] = made[s] /\ wg'[s] \subseteq wg[s]
         \/ Server(s)
<1> USE DEF ServerInv
<1>0. s \in Modules /\ s \in Places /\ IsServer(s) BY ServerPlace
<1>1. ASSUME NEW m \in Modules, Loop(m)
      PROVE  pc'[s] = pc[s] /\ made'[s] = made[s] /\ wg'[s] = wg[s]
  <2>1. m # s BY <1>0, <1>1 DEF Loop
  <2>2. pc'[s] = pc[s] BY <2>1, <1>0, <1>1, LoopFrame
  <2>3. made' = made \/ made' = [made EXCEPT ![m] = NextMc(m)]
    BY <1>1 DEF Loop, Announce, RecvTerminate, RecvFirstChannel,
                RecvNextChannel, AnnounceNext, Cancelled, Join,
                SendTerminate, Last, CloseOut
  <2>4. wg'[s] = wg[s] BY <2>1, <1>0, <1>1, LoopFrame DEF TypeOK
  <2> QED BY <2>1, <2>2, <2>3, <2>4, <1>0 DEF TypeOK
<1>2. CASE RelayMessages BY <1>0, <1>2, RelayFrame, RelayPc
<1>3. ASSUME NEW h \in Handlers, Handler(h) \/ Shared(h)
      PROVE  pc' = pc /\ made' = made /\ wg'[s] \subseteq wg[s]
  <2>1. ASSUME NEW g \in Handlers, Transfer(g, h)
        PROVE  pc' = pc /\ made' = made /\ wg' = wg
    BY <2>1, TransferFrame DEF loopVars
  <2>2. CASE Done(h) BY <2>2, <1>0 DEF Done, loopVars, TypeOK
  <2>3. CASE \/ Start(h) \/ Callback(h) \/ SendClosed(h) \/ InputClosed(h)
             \/ CloseOutc(h) \/ Lock(h) \/ ReadDatac(h) \/ DatacClosed(h)
             \/ ReadFrom(h) \/ ReadFromEnd(h) \/ Drained(h)
    BY <2>3 DEF Start, Callback, SendClosed, InputClosed, CloseOutc, Lock,
                ReadDatac, DatacClosed, ReadFrom, ReadFromEnd, Drained, loopVars
  <2> QED BY <1>3, <2>1, <2>2, <2>3 DEF Handler, Shared
<1>4. ASSUME NEW r \in Servers, r # s, Server(r)
      PROVE  pc'[s] = pc[s] /\ made'[s] = made[s] /\ wg'[s] = wg[s]
  <2>0. r \in Modules /\ r \in Places BY ServerPlace
  <2>1. /\ pc' = pc \/ \E state \in LoopStates : pc' = [pc EXCEPT ![r] = state]
        /\ made' = made \/ made' = [made EXCEPT ![r] = NewStream(r)]
        /\ wg' = wg \/ \E S \in SUBSET Handlers : wg' = [wg EXCEPT ![r] = S]
    <3>1. CASE SelectTick(r) \/ SelectTerminate(r) \/ Shut(r)
               \/ DrainedCallback(r) \/ ShutChannels(r)
      BY <3>1 DEF SelectTick, SelectTerminate, Shut, DrainedCallback,
                  ShutChannels, GoTo, LoopStates, vars, loopVars
    <3>2. ASSUME NEW c \in Conns, SelectConn(r, c) \/ Relayed(r, c)
          PROVE  /\ \E state \in LoopStates : pc' = [pc EXCEPT ![r] = state]
                 /\ made' = made \/ made' = [made EXCEPT ![r] = NewStream(r)]
                 /\ wg' = wg
      BY <3>2 DEF SelectConn, Relayed, GoTo, LoopStates
    <3>3. CASE Connected(r)
      <4>1. made[r] # 0 BY <3>3 DEF Connected, Pairing, Waits
      <4>2. wg' = wg \/ wg' = [wg EXCEPT ![r] = wg[r] \cup {Mc(r)}]
        BY <3>3 DEF Connected
      <4>3. wg[r] \cup {Mc(r)} \in SUBSET Handlers
        BY <4>1, <2>0, McType DEF TypeOK
      <4> QED BY <4>2, <4>3, <3>3 DEF Connected, GoTo, LoopStates
    <3>4. CASE SelectCallback(r)
      <4>1. wg' = wg \/ (mcs[r] # <<>> /\ wg' = [wg EXCEPT ![r] = wg[r] \cup {Head(mcs[r])}])
        BY <3>4 DEF SelectCallback
      <4>2. mcs[r] # <<>> => wg[r] \cup {Head(mcs[r])} \in SUBSET Handlers
        <5>1. mcs[r] \in Seq(Handlers) BY DEF ServerTypeOK
        <5>2. mcs[r] # <<>> => Head(mcs[r]) \in Handlers BY <5>1
        <5> QED BY <5>2, <2>0 DEF TypeOK
      <4> QED BY <4>1, <4>2, <3>4 DEF SelectCallback, GoTo, LoopStates
    <3>5. CASE \/ Join(r, "join", "terminate") \/ SendTerminate(r, "shut")
               \/ Last(r, r - 1) \/ CloseOut(r, "done")
      BY <3>5 DEF Join, SendTerminate, Last, CloseOut, GoTo, LoopStates
    <3>6. ASSUME NEW g \in Handlers, DrainPayload(r, g)
          PROVE  pc' = pc /\ made' = made /\ wg' = wg
      BY <3>6 DEF DrainPayload, loopVars
    <3> QED BY <1>4, <3>1, <3>2, <3>3, <3>4, <3>5, <3>6
            DEF Server, Select, WindDown
  <2> QED BY <2>0, <2>1, <1>0, <1>4 DEF TypeOK
<1>5. ASSUME NEW r \in Servers, Tick(r) PROVE pc' = pc /\ made' = made /\ wg' = wg
  BY <1>5 DEF Tick, vars, loopVars
<1>6. ASSUME NEW c \in Conns, Accept(c) \/ Conn(c)
      PROVE  pc' = pc /\ made' = made /\ wg' = wg
  BY <1>6 DEF Accept, Conn, Reserve, Refused, TryDefault, GiveUp, OfferClosed,
              Served, Leave, vars, loopVars
<1>7. ASSUME NEW h \in ServerHandlers, ReadLoop(h) \/ WriteLoop(h) \/ ClientStep(h)
      PROVE  pc' = pc /\ made' = made /\ wg'[s] \subseteq wg[s]
  <2>0. h \in Handlers BY OfServer
  <2>1. CASE Shared(h) BY <2>0, <2>1, <1>3
  <2>2. CASE ~Shared(h)
    BY <2>2, <1>7
       DEF ReadLoop, WriteLoop, ClientStep, Shared, ServerCallback,
           HandshakeFails, StartWriter, ReadConn, ReadConnEnd, ClientGone,
           WriterRecv, WriteConn, WriterEnd, vars, loopVars
  <2> QED BY <2>1, <2>2
<1> QED BY <1>1, <1>2, <1>3, <1>4, <1>5, <1>6, <1>7 DEF ServerNext, Next

(* Who gives a connection its stream: the loop that hands over a pair. *)
LEMMA ServesStep ==
  ASSUME ServerInv, ServerNext
  PROVE  \/ serves' = serves
         \/ \E s \in Servers, c \in Conns : c[1] = s /\ Relayed(s, c)
<1>1. CASE UNCHANGED connVars BY <1>1 DEF connVars
<1>2. ASSUME NEW s \in Servers, Tick(s) \/ Server(s)
      PROVE  \/ serves' = serves
             \/ \E c \in Conns : c[1] = s /\ Relayed(s, c)
  BY <1>2 DEF Tick, Server, Select, WindDown, SelectTick, SelectConn, Connected,
              SelectCallback, SelectTerminate, Shut, DrainPayload,
              DrainedCallback, ShutChannels, connVars
<1>3. ASSUME NEW c \in Conns, Accept(c) \/ Conn(c) PROVE serves' = serves
  BY <1>3 DEF Accept, Conn, Reserve, Refused, TryDefault, GiveUp, OfferClosed,
              Served, Leave
<1>4. ASSUME NEW h \in ServerHandlers, ReadLoop(h) \/ WriteLoop(h) \/ ClientStep(h)
      PROVE  serves' = serves
  BY <1>4 DEF ReadLoop, WriteLoop, ClientStep, ServerCallback, HandshakeFails,
              StartWriter, ReadConn, ReadConnEnd, ClientGone, WriterRecv,
              WriteConn, WriterEnd, connVars
<1> QED BY <1>1, <1>2, <1>3, <1>4 DEF ServerNext

(* A server that left its loop does not enter it again. *)
LEMMA LeftForGood ==
  ASSUME ServerInv, NEW s \in Servers, Server(s), ~Choosing(s)
  PROVE  ~Choosing(s)' /\ made'[s] = made[s]
<1>0. s \in Modules /\ s \in Places BY ServerPlace
<1> USE DEF ServerInv
<1>1. CASE \/ Join(s, "join", "terminate") \/ SendTerminate(s, "shut")
           \/ Last(s, s - 1) \/ CloseOut(s, "done")
  BY <1>0, <1>1 DEF Join, SendTerminate, Last, CloseOut, GoTo, Choosing, TypeOK
<1>2. CASE \/ Shut(s) \/ DrainedCallback(s) \/ ShutChannels(s)
           \/ \E g \in Handlers : DrainPayload(s, g)
  BY <1>0, <1>2 DEF Shut, DrainedCallback, ShutChannels, DrainPayload, GoTo,
                    Choosing, TypeOK, vars, loopVars
<1>3. CASE \/ SelectTick(s) \/ Connected(s) \/ SelectCallback(s)
           \/ SelectTerminate(s)
           \/ \E c \in Conns : SelectConn(s, c) \/ Relayed(s, c)
  BY <1>3 DEF SelectTick, Connected, SelectCallback, SelectTerminate,
              SelectConn, Relayed, Choosing
<1> QED BY <1>1, <1>2, <1>3 DEF Server, Select, WindDown

LEMMA ServesLastKept ==
  ASSUME ServerInv, ServesLast, ServerNext
  PROVE  ServesLast'
<1> SUFFICES ASSUME ~MultiStreams, NEW c \in Conns, serves'[c] # NoChannel
             PROVE  ~Choosing(c[1])'
  BY DEF ServesLast
<1>0. c[1] \in Servers BY DEF Conns
<1>1. CASE serves[c] # NoChannel
  <2>1. ~Choosing(c[1]) BY <1>1 DEF ServesLast
  <2> QED BY <2>1, <1>0, ServerPc, LeftForGood DEF Choosing
<1>2. CASE serves[c] = NoChannel
  <2>1. serves' # serves BY <1>2
  <2>2. PICK s \in Servers, d \in Conns : d[1] = s /\ Relayed(s, d)
    BY <2>1, ServesStep
  <2>3. serves' = [serves EXCEPT ![d] = relay[s].mc] BY <2>2 DEF Relayed
  <2>4. c = d BY <2>3, <1>2 DEF ServerInv, ServerTypeOK
  <2>5. pc' = [pc EXCEPT ![s] = "join"]
    BY <2>2 DEF Relayed, LastStream, GoTo
  <2>6. s \in Places BY ServerPlace
  <2>7. pc'[s] = "join" BY <2>5, <2>6 DEF ServerInv, TypeOK
  <2> QED BY <2>2, <2>4, <2>7 DEF Choosing
<1> QED BY <1>1, <1>2

(* Without --multi-streams a server serves one connection, whatever        *)
(* clients come and whichever of them receives the pair: behind it neither *)
(* a stream nor a connection follows (tcpServer.go:13, 189-258).           *)
THEOREM ServesOne == ServerSpec => OneConnection
<1>1. ServerInit => ServesLast BY DEF ServerInit, ServesLast
<1>2. ServerInv /\ ServesLast /\ [ServerNext \/ ServerStopped]_allVars
      => ServesLast'
  <2>1. CASE ServerNext BY <2>1, ServesLastKept
  <2>2. CASE UNCHANGED allVars
    BY <2>2 DEF allVars, vars, loopVars, connVars, ServesLast, Choosing
  <2> QED BY <2>1, <2>2 DEF ServerStopped
<1>3. ServerInv /\ ServesLast /\ [ServerNext \/ ServerStopped]_allVars =>
      [~MultiStreams =>
         \A c, d \in Conns :
           c[1] = d[1] /\ serves[c] # NoChannel =>
             serves'[d] = serves[d] /\ made'[c[1]] = made[c[1]]]_allVars
  <2> SUFFICES ASSUME ServerInv, ServesLast, ServerNext, ~MultiStreams,
                      NEW c \in Conns, NEW d \in Conns,
                      c[1] = d[1], serves[c] # NoChannel
               PROVE  serves'[d] = serves[d] /\ made'[c[1]] = made[c[1]]
    BY DEF ServerStopped
  <2>1. c[1] \in Servers /\ ~Choosing(c[1]) BY DEF Conns, ServesLast
  <2>2. made'[c[1]] = made[c[1]] BY <2>1, ServerPc, LeftForGood
  <2>3. ASSUME NEW s \in Servers, NEW e \in Conns, e[1] = s, Relayed(s, e)
        PROVE  serves'[d] = serves[d]
    <3>1. d # e BY <2>1, <2>3 DEF Relayed, Choosing
    <3> QED BY <3>1, <2>3 DEF Relayed, ServerInv, ServerTypeOK
  <2> QED BY <2>2, <2>3, ServesStep
<1> QED BY <1>1, <1>2, <1>3, ServerInvHolds, PTL DEF ServerSpec, OneConnection

-----------------------------------------------------------------------------
(* Every stream is closed: what a step leaves as it was *)

LEMMA AnnouncedBy ==
  ASSUME TypeOK, NEW s \in Servers, NEW h \in Announced(s)
  PROVE  h \in ServerHandlers /\ h \in Handlers /\ h[1] = s
<1>1. s \in Modules /\ IsServer(s) BY ServerPlace
<1>2. made[s] \in 0..MaxStreams /\ MaxStreams \in Nat
  BY <1>1, PipelineAssumption DEF TypeOK
<1>3. 1..(made[s] - 1) \subseteq 1..MaxStreams /\ 1..made[s] \subseteq 1..MaxStreams
  BY <1>2
<1>4. h \in Handlers /\ h[1] = s BY <1>1, <1>3 DEF Announced
<1> QED BY <1>1, <1>4 DEF ServerHandlers

LEMMA QuietServer ==
  ASSUME NEW s \in Servers, Found(s), WoundDown(s),
         pc'[s] = pc[s], made'[s] = made[s],
         mcs'[s] = mcs[s], relay'[s] = relay[s],
         wg'[s] \subseteq wg[s],
         pc[s] = "relay" => relay[s].mc \in wg'[s],
         closed \subseteq closed',
         \A h \in Announced(s) : Taken(h) => Taken(h)',
         s \in linkClosed' => s \in linkClosed
  PROVE  Found(s)' /\ WoundDown(s)'
<1>1. Announced(s)' = Announced(s) /\ Left(s)' = Left(s) BY DEF Announced, Left
<1>2. Found(s)' BY <1>1 DEF Found
<1>3. WoundDown(s)' BY <1>1 DEF WoundDown, Past
<1> QED BY <1>2, <1>3

LEMMA QuietHandler ==
  ASSUME NEW h, Works(h), Taken(h)' => Taken(h),
         hpc'[h] = hpc[h], outc'[h] = outc[h],
         h \in wg[h[1]] => h \in wg'[h[1]],
         closed \subseteq closed'
  PROVE  Works(h)'
BY DEF Works

(* A handler that goes on without closing anything *)
LEMMA BusyHandler ==
  ASSUME NEW h, Works(h), hpc[h] \notin {"idle", "done"},
         hpc'[h] \notin {"idle", "drain", "finish", "done"},
         \/ outc'[h] = h
         \/ outc'[h] = outc[h] /\ (\/ hpc[h] \notin {"start", "cb"}
                                   \/ hpc'[h] \in {"start", "cb"}),
         h \in wg[h[1]] => h \in wg'[h[1]]
  PROVE  Works(h)'
BY DEF Works

LEMMA SentOn ==
  ASSUME NEW g \in Handlers
  PROVE  /\ KindOf(g).sent \cap {"idle", "start", "cb", "drain", "finish", "done"} = {}
         /\ KindOf(g).take \cap {"idle", "start", "cb", "drain", "finish", "done"} = {}
BY KindsType, KindOfType DEF KindStates

(* A step of the pipeline leaves the servers alone, but for a handler that *)
(* hands a payload over.                                                   *)
LEMMA PipelineFrame ==
  ASSUME ServerInv, Next
  PROVE  /\ \A s \in Servers :
              /\ pc'[s] = pc[s] /\ made'[s] = made[s] /\ wg'[s] = wg[s]
              /\ s \in linkClosed' => s \in linkClosed
         /\ closed \subseteq closed'
         /\ \A h \in ServerHandlers :
              /\ outc'[h] = outc[h] /\ hin'[h] = hin[h]
              /\ \/ hpc'[h] = hpc[h]
                 \/ hpc[h] = "send" /\ hpc'[h] \in KindOf(h).sent
<1> USE DEF ServerInv
<1>0. \A s \in Servers : s \in Modules /\ s \in Places /\ IsServer(s)
  BY ServerPlace
<1>1. ASSUME NEW m \in Modules, Loop(m)
      PROVE  /\ \A s \in Servers :
                  /\ pc'[s] = pc[s] /\ made'[s] = made[s] /\ wg'[s] = wg[s]
                  /\ s \in linkClosed' => s \in linkClosed
             /\ closed \subseteq closed'
             /\ \A h \in ServerHandlers : /\ hpc'[h] = hpc[h] /\ outc'[h] = outc[h]
                                          /\ hin'[h] = hin[h]
  <2>1. m \notin Servers BY <1>0, <1>1 DEF Loop
  <2>2. \A s \in Servers : pc'[s] = pc[s] BY <2>1, <1>0, <1>1, LoopFrame
  <2>3. /\ made' = made \/ made' = [made EXCEPT ![m] = NextMc(m)]
        /\ linkClosed' = linkClosed \/ linkClosed' = linkClosed \cup {m}
        /\ hin' = hin \/ \E cb : hin' = [hin EXCEPT ![<<m, made[m]>>] = cb]
    BY <1>1 DEF Loop, Announce, RecvTerminate, RecvFirstChannel,
                RecvNextChannel, AnnounceNext, Cancelled, Join,
                SendTerminate, Last, CloseOut, linkVars, streamVars, Spawn, Mc
  <2>4. closed \subseteq closed'
    BY <1>1 DEF Loop, Announce, RecvTerminate, RecvFirstChannel,
                RecvNextChannel, AnnounceNext, Cancelled, Join,
                SendTerminate, Last, CloseOut, CloseChannel
  <2>5. \A s \in Servers : made'[s] = made[s] /\ wg'[s] = wg[s]
    <3>1. \A s \in Servers : made'[s] = made[s]
      BY <2>1, <2>3, <1>0 DEF TypeOK
    <3>2. wg' = wg \/ wg' = [wg EXCEPT ![m] = @ \cup {<<m, made[m]>>}]
      BY <1>1, LoopFrame
    <3>3. \A s \in Servers : wg'[s] = wg[s] BY <3>2, <2>1, <1>0 DEF TypeOK
    <3> QED BY <3>1, <3>3
  <2>6. \A h \in ServerHandlers : h # <<m, made[m]>> /\ h \in Handlers
    BY <1>1 DEF Loop, ServerHandlers
  <2>7. outc' = outc /\ (hpc' = hpc \/ hpc' = [hpc EXCEPT ![<<m, made[m]>>] = "start"])
    BY <1>1, LoopFrame
  <2>8. \A h \in ServerHandlers : hpc'[h] = hpc[h] /\ hin'[h] = hin[h]
    BY <2>3, <2>6, <2>7 DEF TypeOK
  <2> QED BY <2>1, <2>2, <2>3, <2>4, <2>5, <2>7, <2>8
<1>2. CASE RelayMessages
  <2>1. linkClosed' = linkClosed \/ linkClosed' = linkClosed \cup {0}
    BY <1>2 DEF RelayMessages, RelayRecv, RelayForward, Last, CloseOut
  <2>2. \A s \in Servers : s # 0 BY <1>0
  <2> QED BY <2>1, <2>2, <1>0, <1>2, RelayFrame, RelayPc DEF streamVars
<1>3. ASSUME NEW f \in Handlers, Handler(f)
      PROVE  /\ \A s \in Servers :
                  /\ pc'[s] = pc[s] /\ made'[s] = made[s] /\ wg'[s] = wg[s]
                  /\ s \in linkClosed' => s \in linkClosed
             /\ closed \subseteq closed'
             /\ \A h \in ServerHandlers :
                  /\ outc'[h] = outc[h] /\ hin'[h] = hin[h]
                  /\ \/ hpc'[h] = hpc[h]
                     \/ hpc[h] = "send" /\ hpc'[h] \in KindOf(h).sent
  <2>0. f \notin ServerHandlers /\ f[1] \notin Servers
    BY <1>0, <1>3 DEF Handler, ServerHandlers
  <2>1. UNCHANGED <<linkVars, loopVars, hin>> BY <1>3, HandlerFrame
  <2>2. ASSUME NEW g \in Handlers, Transfer(g, f)
        PROVE  /\ wg' = wg /\ closed' = closed /\ outc' = outc
               /\ \A h \in ServerHandlers :
                    \/ hpc'[h] = hpc[h]
                    \/ hpc[h] = "send" /\ hpc'[h] \in KindOf(h).sent
    BY <2>0, <2>2, TransferFrame DEF ServerHandlers
  <2>3. CASE \/ Start(f) \/ Callback(f) \/ SendClosed(f) \/ InputClosed(f)
             \/ CloseOutc(f) \/ Done(f) \/ Lock(f) \/ ReadDatac(f)
             \/ DatacClosed(f) \/ ReadFrom(f) \/ ReadFromEnd(f) \/ Drained(f)
    <3>1. /\ hpc' = hpc \/ \E state : hpc' = [hpc EXCEPT ![f] = state]
          /\ outc' = outc \/ outc' = [outc EXCEPT ![f] = McSeen(f)]
          /\ wg' = wg \/ wg' = [wg EXCEPT ![f[1]] = @ \ {f}]
          /\ closed \subseteq closed'
      BY <2>3 DEF Start, Callback, Bound, SendClosed, InputClosed, CloseOutc, 
                  Done, Lock, ReadDatac, DatacClosed, ReadFrom, ReadFromEnd, Drained,
                  Step, CloseChannel, streamVars
    <3>2. \A h \in ServerHandlers : hpc'[h] = hpc[h] /\ outc'[h] = outc[h]
      BY <3>1, <2>0 DEF TypeOK, ServerHandlers
    <3>3. \A s \in Servers : wg'[s] = wg[s] BY <3>1, <2>0, <1>0 DEF TypeOK
    <3> QED BY <3>1, <3>2, <3>3, <2>1 DEF linkVars, loopVars
  <2>4. \A s \in Servers :
          pc'[s] = pc[s] /\ made'[s] = made[s] /\ (s \in linkClosed' => s \in linkClosed)
    BY <2>1 DEF linkVars, loopVars
  <2> QED BY <1>3, <2>1, <2>2, <2>3, <2>4 DEF Handler
<1> QED BY <1>1, <1>2, <1>3 DEF Next

LEMMA PipelineEnds ==
  ASSUME ServerInv, EndInv, Next, UNCHANGED <<serverVars, connVars, dataVars>>
  PROVE  EndInv'
<1>1. \A h : Taken(h)' <=> Taken(h) BY DEF Taken, connVars
<1>2. ASSUME NEW s \in Servers PROVE Found(s)' /\ WoundDown(s)'
  <2>1. Found(s) /\ WoundDown(s) BY DEF EndInv
  <2>2. pc[s] = "relay" => relay[s].mc \in wg[s] BY <2>1 DEF WoundDown
  <2>3. mcs'[s] = mcs[s] /\ relay'[s] = relay[s] BY DEF serverVars
  <2> QED BY <2>1, <2>2, <2>3, <1>1, PipelineFrame, QuietServer
<1>3. ASSUME NEW h \in ServerHandlers PROVE Works(h)'
  <2>1. Works(h) /\ h \in Handlers /\ h[1] \in Servers BY OfServer DEF EndInv
  <2>2. CASE hpc'[h] = hpc[h]
    BY <2>1, <2>2, <1>1, PipelineFrame, QuietHandler
  <2>3. CASE hpc[h] = "send" /\ hpc'[h] \in KindOf(h).sent
    BY <2>1, <2>3, PipelineFrame, SentOn, BusyHandler
  <2> QED BY <2>2, <2>3, PipelineFrame
<1> QED BY <1>2, <1>3 DEF EndInv

-----------------------------------------------------------------------------
(* Every stream is closed: the steps of the main goroutine *)

LEMMA OwnStep ==
  ASSUME ServerInv, EndInv, NEW s \in Servers,
         \A r \in Servers \ {s} :
           /\ pc'[r] = pc[r] /\ made'[r] = made[r] /\ wg'[r] = wg[r]
           /\ mcs'[r] = mcs[r] /\ relay'[r] = relay[r]
           /\ r \in linkClosed' => r \in linkClosed,
         closed \subseteq closed', serves' = serves, wg[s] \subseteq wg'[s],
         \A h \in ServerHandlers :
           /\ outc'[h] = outc[h]
           /\ \/ hpc'[h] = hpc[h]
              \/ hpc[h] = "send" /\ hpc'[h] \in KindOf(h).sent,
         Found(s)', WoundDown(s)'
  PROVE  EndInv'
<1>1. \A h : Taken(h)' <=> Taken(h) BY DEF Taken
<1>2. ASSUME NEW r \in Servers \ {s} PROVE Found(r)' /\ WoundDown(r)'
  <2>1. Found(r) /\ WoundDown(r) BY DEF EndInv
  <2>2. pc[r] = "relay" => relay[r].mc \in wg[r] BY <2>1 DEF WoundDown
  <2> QED BY <2>1, <2>2, <1>1, QuietServer
<1>3. ASSUME NEW h \in ServerHandlers PROVE Works(h)'
  <2>1. Works(h) /\ h \in Handlers /\ h[1] \in Servers BY OfServer DEF EndInv
  <2>2. wg[h[1]] \subseteq wg'[h[1]] BY <2>1
  <2>3. CASE hpc'[h] = hpc[h] BY <2>1, <2>2, <2>3, <1>1, QuietHandler
  <2>4. CASE hpc[h] = "send" /\ hpc'[h] \in KindOf(h).sent
    BY <2>1, <2>2, <2>4, <1>1, SentOn DEF Works
  <2> QED BY <2>3, <2>4
<1> QED BY <1>2, <1>3 DEF EndInv

(* The steps that leave the list of streams and the WaitGroup alone *)
LEMMA LeaveEnds ==
  ASSUME ServerInv, EndInv, NEW s \in Servers,
         \/ SelectTick(s) \/ SelectTerminate(s)
         \/ \E c \in Conns : SelectConn(s, c)
  PROVE  EndInv'
<1> USE DEF ServerInv
<1>0. s \in Modules /\ s \in Places /\ Found(s) /\ WoundDown(s)
      /\ \A r \in Servers : r \in Modules /\ r \in Places
  BY ServerPlace DEF EndInv
<1>1. /\ pc[s] = "select"
      /\ \/ pc' = [pc EXCEPT ![s] = "join"] /\ made' = made
         \/ /\ pc' = [pc EXCEPT ![s] = "connected"]
            /\ made' = [made EXCEPT ![s] = made[s] + 1]
      /\ UNCHANGED <<linkClosed, wg, closed, hpc, outc, mcs, relay, serves>>
  BY DEF SelectTick, SelectTerminate, SelectConn, NewStream, GoTo, linkVars,
         streamVars, serverVars, connVars
<1>2. \A r \in Servers \ {s} : pc'[r] = pc[r] /\ made'[r] = made[r]
  BY <1>0, <1>1 DEF TypeOK
<1>3. Found(s)' /\ WoundDown(s)'
  <2>1. /\ pc'[s] \in {"join", "connected"}
        /\ made'[s] = IF pc'[s] = "connected" THEN made[s] + 1 ELSE made[s]
        /\ made[s] \in Nat
    BY <1>0, <1>1, PipelineAssumption DEF TypeOK
  <2>2. Announced(s)' = Announced(s) /\ Left(s)' = Left(s)
    BY <2>1, <1>1 DEF Announced, Left
  <2>3. Found(s)' BY <2>2, <1>0, <1>1 DEF Found, Taken
  <2>4. WoundDown(s)' BY <2>1, <1>0, <1>1 DEF WoundDown, Past
  <2> QED BY <2>3, <2>4
<1> QED BY <1>1, <1>2, <1>3, OwnStep

(* It announces a stream, which waits or is paired. *)
LEMMA ConnectedEnds ==
  ASSUME ServerInv, EndInv, NEW s \in Servers, Connected(s)
  PROVE  EndInv'
<1> USE DEF ServerInv
<1>0. /\ s \in Modules /\ s \in Places /\ Found(s) /\ WoundDown(s)
      /\ pc[s] = "connected" /\ made[s] # 0 /\ made[s] \in 0..MaxStreams
      /\ mcs[s] \in Seq(Handlers) /\ MaxStreams \in Nat
      /\ \A r \in Servers : r \in Modules /\ r \in Places
  BY ServerPlace, PipelineAssumption
     DEF EndInv, Connected, Pairing, Waits, TypeOK, ServerTypeOK
<1>1. /\ mcs' = [mcs EXCEPT ![s] = Unpaired(s)]
      /\ UNCHANGED <<linkClosed, made, closed, hpc, outc, serves>>
  BY DEF Connected, streamVars, connVars
<1>2. \/ /\ Unpaired(s) = Append(mcs[s], Mc(s))
         /\ pc' = [pc EXCEPT ![s] = "select"] /\ wg' = wg /\ relay' = relay
      \/ /\ Unpaired(s) = mcs[s]
         /\ pc' = [pc EXCEPT ![s] = "relay"]
         /\ wg' = [wg EXCEPT ![s] = @ \cup {Mc(s)}]
         /\ relay' = [relay EXCEPT ![s] = [cb |-> Head(cbs[s]), mc |-> Mc(s)]]
  BY DEF Connected, Unpaired, GoTo
<1>3. ASSUME NEW r \in Servers \ {s}
      PROVE  /\ pc'[r] = pc[r] /\ made'[r] = made[r] /\ wg'[r] = wg[r]
             /\ mcs'[r] = mcs[r] /\ relay'[r] = relay[r]
  <2>1. r \in Modules /\ r \in Places /\ r # s BY <1>0
  <2>2. mcs'[r] = mcs[r] /\ made'[r] = made[r]
    BY <2>1, <1>1 DEF ServerTypeOK
  <2>3. pc'[r] = pc[r]
    <3>1. \E state : pc' = [pc EXCEPT ![s] = state] BY <1>2
    <3> QED BY <3>1, <2>1 DEF TypeOK
  <2>4. wg'[r] = wg[r]
    <3>1. wg' = wg \/ wg' = [wg EXCEPT ![s] = wg[s] \cup {Mc(s)}] BY <1>2
    <3> QED BY <3>1, <2>1 DEF TypeOK
  <2>5. relay'[r] = relay[r]
    <3>1. relay' = relay \/ \E pair : relay' = [relay EXCEPT ![s] = pair]
      BY <1>2
    <3> QED BY <3>1, <2>1 DEF ServerTypeOK
  <2> QED BY <2>2, <2>3, <2>4, <2>5
<1>4. /\ mcs'[s] = Unpaired(s) /\ wg[s] \subseteq wg'[s]
      /\ \/ /\ Unpaired(s) = Append(mcs[s], Mc(s))
            /\ pc'[s] = "select"
         \/ /\ Unpaired(s) = mcs[s]
            /\ pc'[s] = "relay" /\ relay'[s].mc = Mc(s) /\ Mc(s) \in wg'[s]
  <2>1. mcs'[s] = Unpaired(s) BY <1>1 DEF ServerTypeOK
  <2>2. CASE /\ Unpaired(s) = Append(mcs[s], Mc(s))
             /\ pc' = [pc EXCEPT ![s] = "select"] /\ wg' = wg
    BY <2>1, <2>2, <1>0 DEF TypeOK
  <2>3. CASE /\ Unpaired(s) = mcs[s]
             /\ pc' = [pc EXCEPT ![s] = "relay"]
             /\ wg' = [wg EXCEPT ![s] = @ \cup {Mc(s)}]
             /\ relay' = [relay EXCEPT ![s] = [cb |-> Head(cbs[s]), mc |-> Mc(s)]]
    <3>1. pc'[s] = "relay" /\ wg'[s] = wg[s] \cup {Mc(s)}
      BY <2>3, <1>0 DEF TypeOK
    <3>2. relay'[s].mc = Mc(s) BY <2>3 DEF ServerTypeOK
    <3> QED BY <2>1, <2>3, <3>1, <3>2
  <2> QED BY <1>2, <2>2, <2>3
<1>5. Announced(s)' \subseteq Announced(s) \cup {Mc(s)}
  <2>1. Announced(s) = {s} \X (1..(made[s] - 1)) BY <1>0 DEF Announced
  <2>2. Announced(s)' = {s} \X (1..made[s]) BY <1>1, <1>4 DEF Announced
  <2>3. \A k \in 1..made[s] : k \in 1..(made[s] - 1) \/ k = made[s] BY <1>0
  <2> QED BY <2>1, <2>2, <2>3 DEF Mc
<1>6. Left(s) \subseteq Left(s)'
      /\ (Unpaired(s) = Append(mcs[s], Mc(s)) => Mc(s) \in Left(s)')
  <2>1. CASE Unpaired(s) = mcs[s]
    <3>1. Left(s)' = Left(s) BY <2>1, <1>4 DEF Left
    <3>2. Unpaired(s) # Append(mcs[s], Mc(s))
      <4>1. Len(Append(mcs[s], Mc(s))) = Len(mcs[s]) + 1 /\ Len(mcs[s]) \in Nat
        BY <1>0
      <4> QED BY <4>1, <2>1
    <3> QED BY <3>1, <3>2
  <2>2. CASE Unpaired(s) = Append(mcs[s], Mc(s))
    <3>1. /\ \A i \in 1..Len(mcs[s]) :
               i \in 1..Len(mcs'[s]) /\ mcs'[s][i] = mcs[s][i]
          /\ Len(mcs[s]) + 1 \in 1..Len(mcs'[s])
          /\ mcs'[s][Len(mcs[s]) + 1] = Mc(s)
      BY <2>2, <1>0, <1>4
    <3> QED BY <3>1 DEF Left
  <2> QED BY <2>1, <2>2, <1>4
<1>7. Found(s)'
  <2>1. ASSUME NEW h \in Announced(s)'
        PROVE  \/ h \in Left(s)' \/ Taken(h)'
               \/ pc'[s] = "relay" /\ relay'[s].mc = h
    <3>1. CASE h = Mc(s) BY <3>1, <1>4, <1>6
    <3>2. CASE h \in Announced(s)
      BY <3>2, <1>0, <1>1, <1>6 DEF Found, Taken
    <3> QED BY <3>1, <3>2, <1>5
  <2> QED BY <2>1 DEF Found
<1>8. WoundDown(s)' BY <1>0, <1>1, <1>4 DEF WoundDown, Past
<1> QED BY <1>1, <1>3, <1>4, <1>7, <1>8, OwnStep

(* A callback comes, and the first stream that waits is paired with it. *)
LEMMA SelectCallbackEnds ==
  ASSUME ServerInv, EndInv, NEW s \in Servers, SelectCallback(s)
  PROVE  EndInv'
<1> USE DEF ServerInv
<1>0. /\ s \in Modules /\ s \in Places /\ Found(s) /\ WoundDown(s)
      /\ pc[s] = "select" /\ mcs[s] \in Seq(Handlers)
      /\ \A r \in Servers : r \in Modules /\ r \in Places
  BY ServerPlace DEF EndInv, SelectCallback, ServerTypeOK
<1>1. UNCHANGED <<linkClosed, made, closed, hpc, outc, serves>>
  BY DEF SelectCallback, streamVars, connVars
<1>2. CASE mcs[s] = <<>>
  <2>1. UNCHANGED <<pc, wg, mcs, relay>> BY <1>2 DEF SelectCallback
  <2>2. Found(s)' /\ WoundDown(s)'
    BY <2>1, <1>0, <1>1 DEF Found, WoundDown, Announced, Left, Taken, Past
  <2> QED BY <2>1, <2>2, <1>1, OwnStep
<1>3. CASE mcs[s] # <<>>
  <2> DEFINE mc == Head(mcs[s])
  <2>1. /\ wg' = [wg EXCEPT ![s] = @ \cup {mc}]
        /\ \E cb : relay' = [relay EXCEPT ![s] = [cb |-> cb, mc |-> mc]]
        /\ mcs' = [mcs EXCEPT ![s] = Tail(@)]
        /\ pc' = [pc EXCEPT ![s] = "relay"]
    BY <1>3 DEF SelectCallback, GoTo
  <2>2. \A i \in 1..Len(mcs[s]) :
          mcs[s][i] = mc \/ \E j \in 1..Len(Tail(mcs[s])) : Tail(mcs[s])[j] = mcs[s][i]
    <3>1. ASSUME NEW i \in 1..Len(mcs[s])
          PROVE  mcs[s][i] = mc
                 \/ \E j \in 1..Len(Tail(mcs[s])) : Tail(mcs[s])[j] = mcs[s][i]
      <4>1. CASE i = 1 BY <4>1, <1>0, <1>3
      <4>2. CASE i # 1
        <5>1. i - 1 \in 1..Len(Tail(mcs[s])) /\ Tail(mcs[s])[i - 1] = mcs[s][i]
          BY <4>2, <1>0, <1>3
        <5> QED BY <5>1
      <4> QED BY <4>1, <4>2
    <3> QED BY <3>1
  <2> HIDE DEF mc
  <2>3. /\ \A r \in Servers \ {s} : /\ pc'[r] = pc[r] /\ made'[r] = made[r]
                                    /\ wg'[r] = wg[r] /\ mcs'[r] = mcs[r]
                                    /\ relay'[r] = relay[r]
        /\ wg[s] \subseteq wg'[s]
    BY <2>1, <1>0, <1>1 DEF TypeOK, ServerTypeOK
  <2>4. /\ pc'[s] = "relay" /\ relay'[s].mc = mc /\ mc \in wg'[s]
        /\ mcs'[s] = Tail(mcs[s])
    BY <2>1, <1>0 DEF TypeOK, ServerTypeOK
  <2>5. Announced(s)' = Announced(s) BY <2>4, <1>0, <1>1 DEF Announced
  <2>6. \A h \in Left(s) : h = mc \/ h \in Left(s)'
    BY <2>2, <2>4 DEF Left
  <2>7. Found(s)' BY <2>4, <2>5, <2>6, <1>0, <1>1 DEF Found, Taken
  <2>8. WoundDown(s)' BY <2>4, <1>0, <1>1 DEF WoundDown, Past
  <2> QED BY <2>3, <2>7, <2>8, <1>1, OwnStep
<1> QED BY <1>2, <1>3

(* The pair goes to a connection, and its stream with it. *)
LEMMA RelayedFrame ==
  ASSUME ServerInv, NEW s \in Servers, NEW c \in Conns, c[1] = s, Relayed(s, c)
  PROVE  LET h == relay[s].mc IN
         /\ pc[s] = "relay" /\ h \in ServerHandlers /\ h[1] = s
         /\ ~Taken(h) /\ hpc[h] = "idle"
         /\ pc'[s] \in {"join", "select"}
         /\ \A r \in Servers \ {s} : pc'[r] = pc[r] /\ relay'[r] = relay[r]
         /\ hpc' = [hpc EXCEPT ![h] = "start"]
         /\ \A g \in Handlers : Taken(g)' <=> Taken(g) \/ g = h
         /\ UNCHANGED <<link, linkClosed, made, held, init, wg, started, closed,
                        outc, mcs, cbs, panic, wpc>>
<1> USE DEF ServerInv
<1> DEFINE h == relay[s].mc
<1>0. /\ s \in Modules /\ s \in Places /\ pc[s] = "relay"
      /\ \A r \in Servers : r \in Modules /\ r \in Places
      /\ h \in Announced(s) /\ ~Taken(h)
      /\ cpc[c] \in {"try", "await"}
  BY ServerPlace DEF Relayed, Pairing, HandsOver
<1>1. /\ serves' = [serves EXCEPT ![c] = h]
      /\ hpc' = [hpc EXCEPT ![h] = "start"]
      /\ relay' = [relay EXCEPT ![s] = NoRelay]
      /\ \E state \in {"join", "select"} : pc' = [pc EXCEPT ![s] = state]
      /\ UNCHANGED <<link, linkClosed, made, held, init, wg, started, closed,
                     outc, mcs, cbs, panic, wpc>>
  BY DEF Relayed, GoTo, linkVars, dataVars
<1>2. h \in ServerHandlers /\ h[1] = s BY <1>0, AnnouncedBy
<1>3. hpc[h] = "idle"
  BY <1>0, <1>2 DEF Pairing, OneConnPerStream, Taken
<1> HIDE DEF h
<1>4. /\ pc'[s] \in {"join", "select"}
      /\ \A r \in Servers \ {s} : pc'[r] = pc[r] /\ relay'[r] = relay[r]
  BY <1>0, <1>1 DEF TypeOK, ServerTypeOK
<1>5. ASSUME NEW g \in Handlers PROVE Taken(g)' <=> Taken(g) \/ g = h
  <2>1. serves[c] = NoChannel /\ g # NoChannel
    BY <1>0 DEF Pairing, Has, NoChannel
  <2>2. serves'[c] = h /\ \A d \in Conns \ {c} : serves'[d] = serves[d]
    BY <1>1 DEF ServerTypeOK
  <2> QED BY <2>1, <2>2 DEF Taken
<1> QED BY <1>0, <1>1, <1>2, <1>3, <1>4, <1>5 DEF h

LEMMA RelayedEnds ==
  ASSUME ServerInv, EndInv, NEW s \in Servers, NEW c \in Conns,
         c[1] = s, Relayed(s, c)
  PROVE  EndInv'
<1> DEFINE h == relay[s].mc
<1> USE DEF ServerInv
<1>0. /\ pc[s] = "relay" /\ h \in ServerHandlers /\ h[1] = s
      /\ ~Taken(h) /\ hpc[h] = "idle"
      /\ pc'[s] \in {"join", "select"}
      /\ \A r \in Servers \ {s} : pc'[r] = pc[r] /\ relay'[r] = relay[r]
      /\ hpc' = [hpc EXCEPT ![h] = "start"]
      /\ \A g \in Handlers : Taken(g)' <=> Taken(g) \/ g = h
      /\ UNCHANGED <<link, linkClosed, made, held, init, wg, started, closed,
                     outc, mcs, cbs, panic, wpc>>
  BY RelayedFrame
<1>1. h \in wg[s] BY <1>0 DEF EndInv, WoundDown
<1>2. ASSUME NEW r \in Servers \ {s} PROVE Found(r)' /\ WoundDown(r)'
  <2>1. Found(r) /\ WoundDown(r) BY DEF EndInv
  <2>2. pc[r] = "relay" => relay[r].mc \in wg[r] BY <2>1 DEF WoundDown
  <2>3. \A g \in Announced(r) : Taken(g) => Taken(g)' BY <1>0, AnnouncedBy
  <2> QED BY <2>1, <2>2, <2>3, <1>0, QuietServer
<1>3. Found(s)'
  <2>1. Announced(s)' = Announced(s) BY <1>0 DEF Announced
  <2>2. Left(s)' = Left(s) BY <1>0 DEF Left
  <2>3. Found(s) BY DEF EndInv
  <2>4. \A g \in Announced(s) : g \in Handlers BY AnnouncedBy
  <2> QED BY <2>1, <2>2, <2>3, <2>4, <1>0 DEF Found
<1>4. WoundDown(s)' BY <1>0 DEF EndInv, WoundDown, Past
<1>5. ASSUME NEW g \in ServerHandlers PROVE Works(g)'
  <2>1. Works(g) /\ g \in Handlers BY OfServer DEF EndInv
  <2>2. CASE g = h
    <3>1. hpc'[g] = "start" BY <2>1, <2>2, <1>0 DEF TypeOK
    <3>2. g \in wg'[g[1]] BY <2>2, <1>0, <1>1
    <3> QED BY <3>1, <3>2 DEF Works
  <2>3. CASE g # h
    <3>1. hpc'[g] = hpc[g] BY <2>1, <2>3, <1>0 DEF TypeOK
    <3> QED BY <3>1, <2>1, <2>3, <1>0, QuietHandler
  <2> QED BY <2>2, <2>3
<1> QED BY <1>2, <1>3, <1>4, <1>5 DEF EndInv

(* What follows the loop: the streams nobody came for are closed before    *)
(* the server waits for its handlers a last time.                          *)
LEMMA WindDownEnds ==
  ASSUME ServerInv, EndInv, NEW s \in Servers,
         \/ Join(s, "join", "terminate") \/ SendTerminate(s, "shut")
         \/ Shut(s) \/ DrainedCallback(s) \/ ShutChannels(s)
         \/ \E g \in Handlers : DrainPayload(s, g)
         \/ Last(s, s - 1) \/ CloseOut(s, "done"),
         \/ UNCHANGED <<serverVars, connVars, dataVars>>
         \/ Shut(s) \/ DrainedCallback(s) \/ ShutChannels(s)
  PROVE  EndInv'
<1> USE DEF ServerInv
<1>0. /\ s \in Modules /\ s \in Places /\ Found(s) /\ WoundDown(s)
      /\ \A r \in Servers : r \in Modules /\ r \in Places
  BY ServerPlace DEF EndInv
<1>1. UNCHANGED <<made, wg, outc, mcs, relay, serves>>
  BY DEF Join, SendTerminate, Shut, DrainedCallback, ShutChannels, DrainPayload,
         Last, CloseOut, vars, loopVars, streamVars, serverVars, connVars
<1>2. \A h \in ServerHandlers :
        \/ hpc'[h] = hpc[h]
        \/ hpc[h] = "send" /\ hpc'[h] \in KindOf(h).sent
  <2>1. ASSUME NEW g \in Handlers, DrainPayload(s, g),
               NEW h \in ServerHandlers
        PROVE  \/ hpc'[h] = hpc[h]
               \/ hpc[h] = "send" /\ hpc'[h] \in KindOf(h).sent
    <3>1. /\ hpc[g] = "send"
          /\ \E back \in KindOf(g).sent : hpc' = [hpc EXCEPT ![g] = back]
      BY <2>1 DEF DrainPayload, Sends, Step
    <3> QED BY <3>1 DEF TypeOK, ServerHandlers
  <2> QED BY <2>1 DEF Join, SendTerminate, Shut, DrainedCallback, ShutChannels,
                      Last, CloseOut, vars
<1>3. /\ pc' = pc \/ \E state : pc' = [pc EXCEPT ![s] = state]
      /\ linkClosed' = linkClosed \/ linkClosed' = linkClosed \cup {s}
      /\ closed \subseteq closed'
  BY DEF Join, SendTerminate, Shut, DrainedCallback, ShutChannels, DrainPayload,
         Last, CloseOut, GoTo, vars, loopVars, linkVars
<1>4. \A r \in Servers \ {s} : /\ pc'[r] = pc[r]
                               /\ r \in linkClosed' => r \in linkClosed
  BY <1>0, <1>3 DEF TypeOK
<1>5. /\ pc[s] # "relay" /\ pc'[s] # "relay"
      /\ pc[s] # "connected" /\ pc'[s] # "connected"
  BY <1>0 DEF Join, SendTerminate, Shut, DrainedCallback, ShutChannels,
              DrainPayload, Last, CloseOut, GoTo, TypeOK, vars, loopVars
<1>6. Announced(s)' = Announced(s) /\ Left(s)' = Left(s)
  BY <1>1, <1>5 DEF Announced, Left
<1>7. Found(s)' BY <1>0, <1>1, <1>5, <1>6 DEF Found, Taken
<1>8. WoundDown(s)'
  <2>1. CASE Join(s, "join", "terminate")
    BY <2>1, <1>0, <1>1 DEF Join, GoTo, TypeOK, HandlersDone, WoundDown, Past,
                            linkVars
  <2>2. CASE SendTerminate(s, "shut")
    BY <2>2, <1>0, <1>1 DEF SendTerminate, GoTo, TypeOK, WoundDown, Past
  <2>3. CASE Shut(s)
    BY <2>3, <1>0, <1>1, <1>6 DEF Shut, GoTo, TypeOK, WoundDown, Past, linkVars
  <2>4. CASE DrainedCallback(s) \/ \E g \in Handlers : DrainPayload(s, g)
    BY <2>4, <1>0, <1>1, <1>6 DEF DrainedCallback, DrainPayload, WoundDown,
                                  Past, vars, loopVars, linkVars
  <2>5. CASE ShutChannels(s) \/ Last(s, s - 1) \/ CloseOut(s, "done")
    BY <2>5, <1>0, <1>1, <1>6 DEF ShutChannels, Last, CloseOut, GoTo, TypeOK,
                                  WoundDown, Past, linkVars
  <2> QED BY <2>1, <2>2, <2>3, <2>4, <2>5
<1> QED BY <1>1, <1>2, <1>3, <1>4, <1>7, <1>8, OwnStep

LEMMA ServerEnds ==
  ASSUME ServerInv, EndInv, NEW s \in Servers, Server(s)
  PROVE  EndInv'
<1>1. CASE SelectTick(s) \/ SelectTerminate(s) BY <1>1, LeaveEnds
<1>2. ASSUME NEW c \in Conns, c[1] = s, SelectConn(s, c) \/ Relayed(s, c)
      PROVE  EndInv'
  BY <1>2, LeaveEnds, RelayedEnds
<1>3. CASE Connected(s) BY <1>3, ConnectedEnds
<1>4. CASE SelectCallback(s) BY <1>4, SelectCallbackEnds
<1>5. CASE \/ /\ \/ Join(s, "join", "terminate") \/ SendTerminate(s, "shut")
                 \/ Last(s, s - 1) \/ CloseOut(s, "done")
              /\ UNCHANGED <<serverVars, connVars, dataVars>>
           \/ Shut(s) \/ DrainedCallback(s) \/ ShutChannels(s)
  BY <1>5, WindDownEnds
<1>6. ASSUME NEW g \in Handlers, DrainPayload(s, g) PROVE EndInv'
  <2>1. UNCHANGED <<serverVars, connVars, dataVars>> BY <1>6 DEF DrainPayload
  <2> QED BY <2>1, <1>6, WindDownEnds
<1> QED BY <1>1, <1>2, <1>3, <1>4, <1>5, <1>6 DEF Server, Select, WindDown

-----------------------------------------------------------------------------
(* Every stream is closed: the steps of connections and handlers *)

LEMMA Unmoved ==
  ASSUME EndInv,
         UNCHANGED <<linkClosed, pc, made, wg, closed, hpc, outc, mcs, relay,
                     serves>>
  PROVE  EndInv'
BY DEF EndInv, Found, WoundDown, Works, Announced, Left, Taken, Past

LEMMA ConnEnds ==
  ASSUME ServerInv, EndInv,
         \/ \E s \in Servers : Tick(s)
         \/ \E c \in Conns : Accept(c) \/ Conn(c)
  PROVE  EndInv'
<1>1. ASSUME NEW s \in Servers, Tick(s)
      PROVE  UNCHANGED <<linkClosed, pc, made, wg, closed, hpc, outc, mcs,
                         relay, serves>>
  BY <1>1 DEF Tick, vars, linkVars, loopVars, streamVars, connVars
<1>2. ASSUME NEW c \in Conns, Accept(c) \/ Conn(c)
      PROVE  UNCHANGED <<linkClosed, pc, made, wg, closed, hpc, outc, mcs,
                         relay, serves>>
  <2>1. CASE \/ Accept(c) \/ Refused(c) \/ TryDefault(c) \/ GiveUp(c)
             \/ Served(c) \/ Leave(c)
    BY <2>1 DEF Accept, Refused, TryDefault, GiveUp, Served, Leave, vars,
                linkVars, loopVars, streamVars, serverVars
  <2>2. CASE Reserve(c) \/ OfferClosed(c)
    BY <2>2 DEF Reserve, OfferClosed, linkVars, loopVars, streamVars,
                serverVars
  <2> QED BY <1>2, <2>1, <2>2 DEF Conn
<1> QED BY <1>1, <1>2, Unmoved

(* A step of the handler h, and of the one that sends to it: no other      *)
(* handler moves, and h leaves the WaitGroup only when it is done.         *)
OthersStay(h) ==
  \A g \in Handlers \ {h} :
    /\ outc'[g] = outc[g]
    /\ hpc'[g] = hpc[g] \/ (hpc[g] = "send" /\ hpc'[g] \in KindOf(g).sent)

LEMMA StaysBut ==
  ASSUME TypeOK, NEW h \in Handlers, NEW state, hpc' = [hpc EXCEPT ![h] = state],
         outc' = outc \/ \E c : outc' = [outc EXCEPT ![h] = c]
  PROVE  OthersStay(h)
BY DEF OthersStay, TypeOK

LEMMA HandlerEnds ==
  ASSUME ServerInv, EndInv, NEW h \in ServerHandlers,
         UNCHANGED <<linkVars, loopVars>>, UNCHANGED <<mcs, relay, serves>>,
         \/ wg' = wg
         \/ hpc[h] = "finish" /\ wg' = [wg EXCEPT ![h[1]] = @ \ {h}],
         closed \subseteq closed', OthersStay(h), Works(h)'
  PROVE  EndInv'
<1> USE DEF ServerInv
<1>0. h \in Handlers /\ h[1] \in Modules BY OfServer
<1>1. \A g : Taken(g)' <=> Taken(g) BY DEF Taken
<1>2. ASSUME NEW s \in Servers PROVE Found(s)' /\ WoundDown(s)'
  <2>1. Found(s) /\ WoundDown(s) BY DEF EndInv
  <2>2. ASSUME pc[s] = "relay" PROVE relay[s].mc \in wg'[s]
    <3>1. relay[s].mc \in wg[s] BY <2>1, <2>2 DEF WoundDown
    <3>2. relay[s].mc # h \/ hpc[h] = "idle"
      <4>1. ~Taken(relay[s].mc) BY <2>2 DEF Pairing, HandsOver
      <4> QED BY <4>1 DEF Pairing, OneConnPerStream, Taken
    <3>3. CASE wg' = wg BY <3>1, <3>3
    <3>4. CASE hpc[h] = "finish" /\ wg' = [wg EXCEPT ![h[1]] = @ \ {h}]
      BY <3>1, <3>2, <3>4, ServerPlace DEF TypeOK
    <3> QED BY <3>3, <3>4
  <2>3. wg'[s] \subseteq wg[s] BY <1>0, ServerPlace DEF TypeOK
  <2>4. mcs'[s] = mcs[s] /\ relay'[s] = relay[s] /\ pc'[s] = pc[s]
        /\ made'[s] = made[s] /\ linkClosed' = linkClosed
    BY DEF loopVars, linkVars
  <2> QED BY <2>1, <2>2, <2>3, <2>4, <1>1, QuietServer
<1>3. ASSUME NEW g \in ServerHandlers, g # h PROVE Works(g)'
  <2>1. Works(g) /\ g \in Handlers /\ g[1] \in Modules
    BY OfServer DEF EndInv
  <2>2. g \in wg[g[1]] => g \in wg'[g[1]]
    BY <2>1, <1>0, <1>3 DEF TypeOK
  <2>3. CASE hpc'[g] = hpc[g]
    BY <2>1, <2>2, <2>3, <1>1, <1>3, QuietHandler DEF OthersStay
  <2>4. CASE hpc[g] = "send" /\ hpc'[g] \in KindOf(g).sent
    BY <2>1, <2>2, <2>4, <1>1, <1>3, SentOn, BusyHandler
       DEF OthersStay
  <2> QED BY <2>1, <2>3, <2>4, <1>3 DEF OthersStay
<1> QED BY <1>2, <1>3 DEF EndInv

(* What the handler shares with those of other modules *)
LEMMA SharedEnds ==
  ASSUME ServerInv, EndInv, NEW h \in ServerHandlers, Shared(h),
         UNCHANGED <<serverVars, connVars, dataVars>>
  PROVE  EndInv'
<1> USE DEF ServerInv
<1>0. /\ h \in Handlers /\ h[1] \in Modules /\ Works(h)
      /\ UNCHANGED <<mcs, relay, serves>>
  BY OfServer DEF EndInv, serverVars, connVars
<1>1. ASSUME NEW g \in Handlers, Transfer(g, h) PROVE EndInv'
  <2>1. /\ hpc[g] = "send" /\ hpc'[g] \in KindOf(g).sent
        /\ g # h => \/ hpc'[h] = hpc[h]
                    \/ hpc[h] = "recv" /\ hpc'[h] \in KindOf(h).take
        /\ \A f \in Handlers \ {g, h} : hpc'[f] = hpc[f]
        /\ UNCHANGED <<linkVars, loopVars, wg, closed, hin, outc, draining,
                       stdinVars, panic>>
    BY <1>0, <1>1, TransferFrame
  <2>2. Works(h)'
    <3>1. CASE g = h BY <3>1, <2>1, <1>0, SentOn, BusyHandler
    <3>2. CASE g # h /\ hpc'[h] = hpc[h]
      <4>1. Taken(h)' <=> Taken(h) BY <1>0 DEF Taken
      <4> QED BY <3>2, <4>1, <2>1, <1>0, QuietHandler
    <3>3. CASE hpc[h] = "recv" /\ hpc'[h] \in KindOf(h).take
      BY <3>3, <2>1, <1>0, SentOn, BusyHandler
    <3> QED BY <3>1, <3>2, <3>3, <2>1
  <2>3. OthersStay(h)
    <3>1. ASSUME NEW f \in Handlers \ {h}
          PROVE  hpc'[f] = hpc[f] \/ (hpc[f] = "send" /\ hpc'[f] \in KindOf(f).sent)
      BY <2>1
    <3> QED BY <2>1, <3>1 DEF OthersStay
  <2> QED BY <2>1, <2>2, <2>3, <1>0, HandlerEnds
<1>2. CASE Start(h)
  <2>1. /\ hpc[h] = "start" /\ hpc' = [hpc EXCEPT ![h] = "cb"]
        /\ UNCHANGED <<linkVars, loopVars, wg, closed, outc>>
    BY <1>2, ServerKind DEF Start, Step
  <2>2. Works(h)' BY <2>1, <1>0, BusyHandler DEF TypeOK
  <2>3. OthersStay(h) BY <2>1, <1>0, StaysBut
  <2> QED BY <2>1, <2>2, <2>3, <1>0, HandlerEnds
<1>3. CASE SendClosed(h)
  <2>1. UNCHANGED <<linkVars, loopVars, wg, closed, hpc, outc>>
    BY <1>3 DEF SendClosed, streamVars
  <2> QED BY <2>1, <1>0, Unmoved DEF linkVars, loopVars
<1>4. CASE InputClosed(h)
  <2>1. PICK next \in AfterInput(h) :
        /\ hpc[h] \in {"recv", "drain", "select"}
        /\ hpc' = [hpc EXCEPT ![h] = next]
        /\ UNCHANGED <<linkVars, loopVars, wg, closed, outc>>
    BY <1>4 DEF InputClosed, Step
  <2>2. \/ hpc[h] = "drain" /\ next = "finish"
        \/ next \in {"send", "close", "source"}
    BY <1>0, <2>1, KindsType, KindOfType DEF AfterInput, KindStates
  <2>3. Taken(h)' <=> Taken(h) BY <1>0 DEF Taken
  <2>4. Works(h)' BY <2>1, <2>2, <2>3, <1>0 DEF TypeOK, Works
  <2>5. OthersStay(h) BY <2>1, <1>0, StaysBut
  <2> QED BY <2>1, <2>4, <2>5, <1>0, HandlerEnds
<1>5. CASE CloseOutc(h)
  <2>1. Out(h) = h
    <3>1. outc[h] = h BY <1>0, <1>5 DEF CloseOutc, Works
    <3> QED BY <3>1, ServerKind DEF Out
  <2>2. /\ hpc[h] \in {"close", "fail"}
        /\ hpc' = [hpc EXCEPT ![h] = AfterClose(h)]
        /\ closed' = closed \cup {h}
        /\ UNCHANGED <<linkVars, loopVars, wg, outc>>
    BY <1>5, <2>1 DEF CloseOutc, CloseChannel, Step, streamVars
  <2>3. AfterClose(h) \in {"drain", "finish"}
    BY <1>0, KindsType, KindOfType DEF AfterClose, KindStates
  <2>4. Taken(h)' <=> Taken(h) BY <1>0 DEF Taken
  <2>5. Works(h)' BY <2>2, <2>3, <2>4, <1>0 DEF TypeOK, Works
  <2>6. OthersStay(h) BY <2>2, <1>0, StaysBut
  <2> QED BY <2>2, <2>5, <2>6, <1>0, HandlerEnds
<1>6. CASE Done(h)
  <2>1. /\ hpc[h] = "finish" /\ hpc' = [hpc EXCEPT ![h] = "done"]
        /\ wg' = [wg EXCEPT ![h[1]] = @ \ {h}]
        /\ UNCHANGED <<linkVars, loopVars, closed, outc>>
    BY <1>6 DEF Done, Step, streamVars
  <2>2. Taken(h)' <=> Taken(h) BY <1>0 DEF Taken
  <2>3. Works(h)' BY <2>1, <2>2, <1>0 DEF TypeOK, Works
  <2>4. OthersStay(h) BY <2>1, <1>0, StaysBut
  <2> QED BY <2>1, <2>3, <2>4, <1>0, HandlerEnds
<1> QED BY <1>1, <1>2, <1>3, <1>4, <1>5, <1>6 DEF Shared

LEMMA ServerHandlerEnds ==
  ASSUME ServerInv, EndInv, NEW h \in ServerHandlers,
         ReadLoop(h) \/ WriteLoop(h) \/ ClientStep(h)
  PROVE  EndInv'
<1> USE DEF ServerInv
<1>0. h \in Handlers /\ h[1] \in Modules /\ Works(h)
  BY OfServer DEF EndInv
<1>1. CASE Shared(h) /\ UNCHANGED <<serverVars, connVars, dataVars>>
  BY <1>1, SharedEnds
<1>2. CASE \/ ServerCallback(h) \/ HandshakeFails(h)
           \/ ReadConn(h) \/ ReadConnEnd(h) \/ ClientGone(h)
  <2>1. /\ UNCHANGED <<linkVars, loopVars, wg, closed, mcs, relay, serves>>
        /\ hpc[h] \notin {"idle", "done"}
        /\ \E state \in {"read", "send", "close", "recv"} :
             hpc' = [hpc EXCEPT ![h] = state]
        /\ \/ outc' = [outc EXCEPT ![h] = h]
           \/ outc' = outc /\ hpc[h] \notin {"start", "cb"}
    <3>1. CASE ServerCallback(h)
      BY <3>1, ServerKind DEF ServerCallback, Step, serverVars, connVars
    <3>2. CASE HandshakeFails(h)
      BY <3>2 DEF HandshakeFails, Step, serverVars, connVars
    <3>3. CASE ReadConn(h) \/ ReadConnEnd(h) \/ ClientGone(h)
      BY <3>3 DEF ReadConn, ReadConnEnd, ClientGone, Reading, Step, streamVars,
                  serverVars, connVars
    <3> QED BY <1>2, <3>1, <3>2, <3>3
  <2>2. /\ hpc'[h] \in {"read", "send", "close", "recv"}
        /\ outc'[h] = h \/ (outc'[h] = outc[h] /\ hpc[h] \notin {"start", "cb"})
    BY <2>1, <1>0 DEF TypeOK
  <2>3. Works(h)' BY <2>1, <2>2, <1>0, BusyHandler
  <2>4. OthersStay(h) BY <2>1, <1>0, StaysBut
  <2> QED BY <2>1, <2>3, <2>4, HandlerEnds
<1>3. ASSUME NEW g \in Handlers, WriterRecv(g, h) PROVE EndInv'
  <2>1. /\ hpc[g] = "send"
        /\ \E back \in KindOf(g).sent : hpc' = [hpc EXCEPT ![g] = back]
        /\ UNCHANGED <<linkVars, loopVars, wg, closed, outc, mcs, relay, serves>>
    BY <1>3 DEF WriterRecv, Sends, Step, serverVars, connVars
  <2>2. Taken(h)' <=> Taken(h) BY <2>1 DEF Taken
  <2>3. Works(h)'
    <3>1. CASE g = h
      <4>1. hpc'[h] \in KindOf(h).sent BY <3>1, <2>1, <1>0 DEF TypeOK
      <4> QED BY <4>1, <3>1, <2>1, <1>0, SentOn, BusyHandler
    <3>2. CASE g # h
      <4>1. hpc'[h] = hpc[h] BY <3>2, <2>1, <1>0 DEF TypeOK
      <4> QED BY <4>1, <2>1, <2>2, <1>0, QuietHandler
    <3> QED BY <3>1, <3>2
  <2>4. OthersStay(h)
    <3>1. g \in Handlers BY <1>3
    <3> QED BY <3>1, <2>1, <1>0 DEF OthersStay, TypeOK
  <2> QED BY <2>1, <2>3, <2>4, <1>0, HandlerEnds
<1>4. CASE StartWriter(h) \/ WriteConn(h) \/ WriterEnd(h)
  BY <1>4, Unmoved DEF StartWriter, WriteConn, WriterEnd, vars, linkVars,
                       loopVars, streamVars, serverVars, connVars
<1> QED BY <1>1, <1>2, <1>3, <1>4
        DEF ReadLoop, WriteLoop, ClientStep, Shared

LEMMA EndsInitially == ServerInit => EndInv
<1> SUFFICES ASSUME ServerInit PROVE EndInv OBVIOUS
<1>1. \A s \in Servers : /\ s \in Modules /\ s \in Places /\ pc[s] = "select"
                         /\ made[s] = 0 /\ s \notin linkClosed
  BY ServerPlace DEF ServerInit, Init
<1>2. \A s \in Servers : Announced(s) = {}
  <2>1. 1..0 = {} OBVIOUS
  <2> QED BY <2>1, <1>1 DEF Announced
<1>3. \A s \in Servers : Found(s) /\ WoundDown(s)
  BY <1>1, <1>2 DEF Found, WoundDown, Past
<1>4. ASSUME NEW h \in ServerHandlers PROVE Works(h)
  <2>1. h \in Handlers /\ h # NoChannel BY DEF ServerHandlers, NoChannel
  <2> QED BY <2>1 DEF Works, Taken, ServerInit, Init
<1> QED BY <1>3, <1>4 DEF EndInv

LEMMA EndsKept ==
  ServerInv /\ EndInv /\ [ServerNext \/ ServerStopped]_allVars => EndInv'
<1> SUFFICES ASSUME ServerInv, EndInv, ServerNext \/ UNCHANGED allVars
             PROVE  EndInv'
  BY DEF ServerStopped
<1>1. CASE UNCHANGED allVars
  BY <1>1, Unmoved DEF allVars, vars, linkVars, loopVars, streamVars,
                       serverVars, connVars
<1> QED BY <1>1, PipelineEnds, ServerEnds, ConnEnds, ServerHandlerEnds
        DEF ServerNext

(* A server leaves no stream open: when it closes its `out', every stream  *)
(* it announced was closed by the handler of a connection, or by the loop  *)
(* when no connection came for it (tcpServer.go:89-111, 267-289).          *)
THEOREM ServersCloseBehind == ServerSpec => []ServerClosedBehind
<1>1. ServerInv /\ EndInv => ServerClosedBehind
  <2> SUFFICES ASSUME ServerInv, EndInv, NEW s \in Servers, s \in linkClosed,
                      NEW k \in 1..made[s]
               PROVE  <<s, k>> \in closed
    BY DEF ServerClosedBehind
  <2>1. pc[s] = "done" /\ wg[s] = {} /\ Left(s) \subseteq closed
    BY DEF EndInv, WoundDown, Past
  <2>2. <<s, k>> \in Announced(s) BY <2>1 DEF Announced
  <2>3. CASE <<s, k>> \in Left(s) BY <2>1, <2>3
  <2>4. CASE Taken(<<s, k>>)
    <3>1. <<s, k>> \in ServerHandlers BY <2>2, AnnouncedBy DEF ServerInv
    <3>2. Works(<<s, k>>) BY <3>1 DEF EndInv
    <3>3. <<s, k>>[1] = s OBVIOUS
    <3>4. hpc[<<s, k>>] = "done" BY <2>1, <2>4, <3>2, <3>3 DEF Works
    <3> QED BY <3>2, <3>4 DEF Works
  <2> QED BY <2>1, <2>2, <2>3, <2>4 DEF EndInv, Found
<1> QED BY EndsInitially, EndsKept, <1>1, ServerInvHolds, PTL DEF ServerSpec

-----------------------------------------------------------------------------
(* Every stream is closed once *)

(* The channel a handler sends on and closes is its own. *)
LEMMA OwnOut ==
  ASSUME KeepsMc, ServerInv, EndInv, OnceInv, NEW h \in Handlers,
         hpc[h] # "idle"
  PROVE  /\ McSeen(h) = h
         /\ hpc[h] \notin {"start", "cb"} => Out(h) = h
<1> USE DEF ServerInv, OnceInv
<1>1. McSeen(h) = h
  <2>1. CASE h \in ServerHandlers BY <2>1, ServerKind
  <2>2. CASE h \notin ServerHandlers /\ KindOf(h).byRef
    <3>1. /\ h[1] \in Modules /\ ~IsServer(h[1]) /\ SingleStream(h[1])
      BY <2>2 DEF KindOf, ServerHandlers, KeepsMc
    <3>2. made[h[1]] = 1 /\ h[2] \in Nat /\ h[2] <= made[h[1]] /\ 1 <= h[2]
      BY <2>2, <3>1, PipelineAssumption DEF OneMc, InTurn
    <3>3. h[2] = made[h[1]] BY <3>2
    <3> QED BY <3>3 DEF McSeen, Mc
  <2> QED BY <2>1, <2>2 DEF McSeen
<1>2. hpc[h] \notin {"start", "cb"} => outc[h] = h
  BY DEF InTurn, EndInv, Works, OwnOutc
<1> QED BY <1>1, <1>2 DEF Out

LEMMA QuietTurn ==
  ASSUME InTurn, OneMc,
         \A m \in Modules :
           ~IsServer(m) => /\ pc'[m] = pc[m] /\ init'[m] = init[m]
                           /\ made'[m] = made[m],
         \A h \in Handlers \ ServerHandlers :
           /\ hpc[h] = "idle" => hpc'[h] = "idle"
           /\ \/ outc'[h] = h
              \/ /\ outc'[h] = outc[h]
                 /\ hpc[h] \in {"idle", "start", "cb"} =>
                      hpc'[h] \in {"idle", "start", "cb"}
  PROVE  InTurn' /\ OneMc'
<1>1. \A h \in Handlers \ ServerHandlers : h[1] \in Modules /\ ~IsServer(h[1])
  BY DEF ServerHandlers
<1>2. InTurn' BY <1>1 DEF InTurn, OwnOutc
<1>3. OneMc' BY DEF OneMc, SingleStream
<1> QED BY <1>2, <1>3

Ends   == {"drain", "finish", "done"}
Beyond(m) == IF IsServer(m) THEN Past(m)
             ELSE ~init[m] /\ pc[m] \notin {"announce", "loop", "newChannel"}

LEMMA QuietClosed ==
  ASSUME TypeOK, ClosedByOne,
         \A h \in closed :
           hpc'[h] = hpc[h] \/ (hpc[h] \in Ends /\ hpc'[h] \in Ends),
         \A h \in closed' \ closed :
           hpc'[h] \in Ends \/ (hpc'[h] = "idle" /\ Beyond(h[1])'),
         \A m \in Modules : Beyond(m) => Beyond(m)'
  PROVE  ClosedByOne'
<1>1. \A h \in closed : hpc[h] \in Ends \/ (hpc[h] = "idle" /\ Beyond(h[1]))
  BY DEF ClosedByOne, Ends, Beyond
<1>2. \A h \in closed : h[1] \in Modules BY DEF TypeOK
<1>3. \A h \in closed' : hpc'[h] \in Ends \/ (hpc'[h] = "idle" /\ Beyond(h[1])')
  BY <1>1, <1>2 DEF Ends
<1> QED BY <1>3 DEF ClosedByOne, Ends, Beyond

(* What a handler that was not closed yet may do to its own stream *)
LEMMA HandlerOnce ==
  ASSUME ServerInv, OnceInv, NEW h \in Handlers, OthersStay(h),
         UNCHANGED <<linkVars, loopVars>>,
         hpc[h] = "idle" <=> hpc'[h] = "idle",
         \/ outc'[h] = h
         \/ /\ outc'[h] = outc[h]
            /\ hpc[h] \in {"idle", "start", "cb"} =>
                 hpc'[h] \in {"idle", "start", "cb"},
         closed' \subseteq closed \cup {h},
         h \in closed' => \/ hpc'[h] \in Ends
                          \/ h \in closed /\ hpc'[h] = hpc[h],
         panic' # "stream"
  PROVE  OnceInv'
<1> USE DEF ServerInv, OnceInv
<1>1. pc' = pc /\ init' = init /\ made' = made BY DEF loopVars
<1>2. \A g \in Handlers \ {h} :
        /\ outc'[g] = outc[g]
        /\ \/ hpc'[g] = hpc[g]
           \/ hpc[g] = "send" /\ hpc'[g] \notin {"idle", "start", "cb"}
  BY SentOn DEF OthersStay
<1>3. InTurn' /\ OneMc' BY <1>1, <1>2, QuietTurn
<1>4. \A g \in closed \cap closed' :
        hpc'[g] = hpc[g] \/ (hpc[g] \in Ends /\ hpc'[g] \in Ends)
  <2> SUFFICES ASSUME NEW g \in closed, g \in closed'
               PROVE  hpc'[g] = hpc[g] \/ (hpc[g] \in Ends /\ hpc'[g] \in Ends)
    OBVIOUS
  <2>1. g \in Handlers /\ hpc[g] \in {"idle"} \cup Ends
    BY DEF TypeOK, ClosedByOne, Ends
  <2>2. CASE g = h BY <2>1, <2>2 DEF Ends
  <2>3. CASE g # h BY <2>1, <2>3, <1>2 DEF Ends
  <2> QED BY <2>2, <2>3
<1>5. \A m \in Modules : Beyond(m)' = Beyond(m)
  BY <1>1 DEF Beyond, Past
<1>6. ClosedByOne'
  <2>1. \A g \in closed : hpc[g] \in Ends \/ (hpc[g] = "idle" /\ Beyond(g[1]))
    BY DEF ClosedByOne, Ends, Beyond
  <2>2. \A g \in closed : g[1] \in Modules BY DEF TypeOK
  <2>3. ASSUME NEW g \in closed'
        PROVE  hpc'[g] \in Ends \/ (hpc'[g] = "idle" /\ Beyond(g[1])')
    <3>1. CASE g \in closed BY <3>1, <2>1, <2>2, <2>3, <1>4, <1>5 DEF Ends
    <3>2. CASE g \notin closed BY <3>2, <2>3
    <3> QED BY <3>1, <3>2
  <2> QED BY <2>3 DEF ClosedByOne, Ends, Beyond
<1> QED BY <1>3, <1>6 DEF StreamsClosedOnce

(* The steps handlers of every module share *)
LEMMA AnyHandlerOnce ==
  ASSUME KeepsMc, ServerInv, EndInv, OnceInv, NEW h \in Handlers,
         \/ Start(h) \/ SendClosed(h) \/ InputClosed(h) \/ CloseOutc(h)
         \/ Done(h) \/ \E g \in Handlers : Transfer(g, h)
  PROVE  OnceInv'
<1> USE DEF ServerInv
<1>0. /\ h[1] \in Modules /\ KindStates(KindOf(h)) /\ panic # "stream"
  BY KindsType, KindOfType DEF OnceInv, StreamsClosedOnce
<1>1. ASSUME NEW g \in Handlers, Transfer(g, h) PROVE OnceInv'
  <2>1. /\ hpc[g] = "send" /\ hpc'[g] \in KindOf(g).sent
        /\ g # h => \/ hpc'[h] = hpc[h]
                    \/ hpc[h] = "recv" /\ hpc'[h] \in KindOf(h).take
        /\ \A f \in Handlers \ {g, h} : hpc'[f] = hpc[f]
        /\ UNCHANGED <<linkVars, loopVars, wg, closed, hin, outc, draining,
                       stdinVars, panic>>
    BY <1>1, TransferFrame
  <2>2. OthersStay(h)
    <3>1. ASSUME NEW f \in Handlers \ {h}
          PROVE  hpc'[f] = hpc[f] \/ (hpc[f] = "send" /\ hpc'[f] \in KindOf(f).sent)
      BY <2>1
    <3> QED BY <2>1, <3>1 DEF OthersStay
  <2>3. \/ hpc'[h] = hpc[h]
        \/ /\ hpc[h] \in {"send", "recv"}
           /\ hpc'[h] \notin {"idle", "start", "cb"} \cup Ends
    BY <2>1, SentOn DEF Ends
  <2>4. hpc[h] \in {"send", "recv"} => h \notin closed
    BY DEF OnceInv, ClosedByOne
  <2> QED BY <2>1, <2>2, <2>3, <2>4, <1>0, HandlerOnce
<1>2. CASE Start(h)
  <2>1. /\ hpc[h] = "start"
        /\ UNCHANGED <<linkVars, loopVars, wg, closed, panic>>
    BY <1>2 DEF Start
  <2>2. h \notin closed BY <2>1 DEF OnceInv, ClosedByOne
  <2>3. CASE hpc' = [hpc EXCEPT ![h] = "cb"] /\ outc' = outc
    <3>1. OthersStay(h) BY <2>3, StaysBut
    <3>2. hpc'[h] = "cb" BY <2>3 DEF TypeOK
    <3> QED BY <2>1, <2>2, <2>3, <3>1, <3>2, <1>0, HandlerOnce
  <2>4. CASE hpc' = hpc /\ outc' = [outc EXCEPT ![h] = McSeen(h)]
    <3>1. McSeen(h) = h BY <2>1, OwnOut
    <3>2. outc'[h] = h /\ \A g \in Handlers \ {h} : outc'[g] = outc[g]
      BY <2>4, <3>1 DEF TypeOK
    <3>3. OthersStay(h) BY <2>4, <3>2 DEF OthersStay
    <3> QED BY <2>1, <2>2, <2>4, <3>2, <3>3, <1>0, HandlerOnce
  <2> QED BY <1>2, <2>3, <2>4 DEF Start, Bound, Step
<1>3. CASE SendClosed(h)
  <2>1. Out(h) = h BY <1>3, OwnOut DEF SendClosed
  <2>2. h \notin closed BY <1>3 DEF SendClosed, OnceInv, ClosedByOne
  <2> QED BY <1>3, <2>1, <2>2 DEF SendClosed
<1>4. CASE InputClosed(h)
  <2>1. PICK next \in AfterInput(h) :
        /\ hpc[h] \in {"recv", "drain", "select"}
        /\ hpc' = [hpc EXCEPT ![h] = next]
        /\ UNCHANGED <<linkVars, loopVars, wg, closed, outc, panic>>
    BY <1>4 DEF InputClosed, Step
  <2>2. \/ hpc[h] = "drain" /\ next = "finish"
        \/ hpc[h] # "drain" /\ next \in {"send", "close", "source"}
    BY <1>0, <2>1 DEF AfterInput, KindStates
  <2>3. OthersStay(h) BY <2>1, StaysBut
  <2>4. hpc'[h] = next BY <2>1 DEF TypeOK
  <2>5. hpc[h] # "drain" => h \notin closed
    BY <2>1 DEF OnceInv, ClosedByOne
  <2>6. h \in closed' => hpc'[h] \in Ends
    BY <2>1, <2>2, <2>4, <2>5 DEF Ends
  <2> QED BY <2>1, <2>2, <2>3, <2>4, <2>6, <1>0, HandlerOnce
<1>5. CASE CloseOutc(h)
  <2>1. Out(h) = h BY <1>5, OwnOut DEF CloseOutc
  <2>2. h \notin closed BY <1>5 DEF CloseOutc, OnceInv, ClosedByOne
  <2>3. /\ hpc[h] \in {"close", "fail"}
        /\ hpc' = [hpc EXCEPT ![h] = AfterClose(h)]
        /\ closed' = closed \cup {h} /\ panic' = panic
        /\ UNCHANGED <<linkVars, loopVars, wg, outc>>
    BY <1>5, <2>1, <2>2 DEF CloseOutc, CloseChannel, Step, streamVars
  <2>4. AfterClose(h) \in {"drain", "finish"}
    BY <1>0 DEF AfterClose, KindStates
  <2>5. OthersStay(h) BY <2>3, StaysBut
  <2>6. hpc'[h] \in Ends BY <2>3, <2>4 DEF TypeOK, Ends
  <2> QED BY <2>3, <2>4, <2>5, <2>6, <1>0, HandlerOnce DEF Ends
<1>6. CASE Done(h)
  <2>1. /\ hpc[h] = "finish" /\ hpc' = [hpc EXCEPT ![h] = "done"]
        /\ UNCHANGED <<linkVars, loopVars, closed, outc, panic>>
    BY <1>6 DEF Done, Step, streamVars
  <2>2. OthersStay(h) BY <2>1, StaysBut
  <2>3. hpc'[h] = "done" BY <2>1 DEF TypeOK
  <2> QED BY <2>1, <2>2, <2>3, <1>0, HandlerOnce DEF Ends
<1> QED BY <1>1, <1>2, <1>3, <1>4, <1>5, <1>6
(* A step of a handler that closes nothing and has not closed its own *)
LEMMA MovesOnce ==
  ASSUME ServerInv, OnceInv, NEW h \in Handlers,
         hpc[h] \notin {"idle"} \cup Ends,
         NEW state, state # "idle", hpc' = [hpc EXCEPT ![h] = state],
         \/ outc' = [outc EXCEPT ![h] = h]
         \/ /\ outc' = outc
            /\ \/ hpc[h] \notin {"start", "cb"} \/ state \in {"start", "cb"}
               \/ outc[h] = h,
         UNCHANGED <<linkVars, loopVars, closed>>, panic' # "stream"
  PROVE  OnceInv'
<1> USE DEF ServerInv
<1>1. hpc'[h] = state BY DEF TypeOK
<1>2. OthersStay(h) BY StaysBut
<1>3. h \notin closed BY DEF OnceInv, ClosedByOne, Ends
<1>4. outc'[h] = h \/ outc'[h] = outc[h] BY DEF TypeOK
<1>5. \/ outc'[h] = h
      \/ /\ outc'[h] = outc[h]
         /\ hpc[h] \in {"idle", "start", "cb"} =>
              hpc'[h] \in {"idle", "start", "cb"}
  BY <1>1, <1>4 DEF TypeOK, Ends
<1> QED BY <1>1, <1>2, <1>3, <1>5, HandlerOnce DEF Ends

LEMMA StillOnce ==
  ASSUME TypeOK, OnceInv, \A m \in Modules : pc'[m] = pc[m],
         UNCHANGED <<init, made, closed, hpc, outc>>, panic' # "stream"
  PROVE  OnceInv'
<1>1. InTurn'
  <2>1. \A h \in Handlers : h[1] \in Modules OBVIOUS
  <2> QED BY <2>1 DEF OnceInv, InTurn, OwnOutc
<1>2. OneMc' BY DEF OnceInv, OneMc, SingleStream
<1>3. ClosedByOne'
  <2>1. \A m \in Modules : Beyond(m)' = Beyond(m) BY DEF Beyond, Past
  <2> QED BY <2>1, QuietClosed DEF OnceInv
<1> QED BY <1>1, <1>2, <1>3 DEF OnceInv, StreamsClosedOnce

LEMMA PipelineHandlerOnce ==
  ASSUME KeepsMc, ServerInv, EndInv, OnceInv, NEW h \in Handlers, Handler(h)
  PROVE  OnceInv'
<1> USE DEF ServerInv
<1>0. /\ h[1] \in Modules /\ KindStates(KindOf(h)) /\ panic # "stream"
  BY KindsType, KindOfType DEF OnceInv, StreamsClosedOnce
<1>1. CASE Callback(h)
  <2>1. McSeen(h) = h BY <1>1, OwnOut DEF Callback
  <2>2. PICK next \in KindOf(h).enter : hpc' = [hpc EXCEPT ![h] = next]
    BY <1>1 DEF Callback, Step
  <2>3. next # "idle" BY <1>0, <2>2 DEF KindStates
  <2>4. /\ hpc[h] = "cb"
        /\ \/ outc' = [outc EXCEPT ![h] = h]
           \/ outc' = outc /\ outc[h] = h
    <3>1. h \notin ServerHandlers BY DEF Handler, ServerHandlers
    <3>2. outc[h] = h \/ outc[h] = NoChannel
      BY <3>1 DEF OnceInv, InTurn, OwnOutc
    <3> QED BY <1>1, <2>1, <3>2 DEF Callback, Bound
  <2>5. UNCHANGED <<linkVars, loopVars, closed, panic>> BY <1>1 DEF Callback
  <2> QED BY <2>2, <2>3, <2>4, <2>5, <1>0, MovesOnce DEF Ends
<1>2. CASE \/ ReadFrom(h) \/ ReadFromEnd(h) \/ Lock(h) \/ ReadDatac(h)
  <2>1. /\ hpc[h] \in {"source", "lock", "select"}
        /\ \E state \in {"send", "close", "select"} :
             hpc' = [hpc EXCEPT ![h] = state]
        /\ UNCHANGED <<linkVars, loopVars, closed, outc, panic>>
    BY <1>2 DEF ReadFrom, ReadFromEnd, Lock, ReadDatac, Step, streamVars
  <2> QED BY <2>1, <1>0, MovesOnce DEF Ends
<1>3. CASE DatacClosed(h)
  <2>1. CASE h[1] \in cancel
    BY <1>3, <2>1, StillOnce DEF DatacClosed, loopVars, streamVars
  <2>2. CASE h[1] \notin cancel
    <3>1. /\ hpc[h] = "select" /\ hpc' = [hpc EXCEPT ![h] = "close"]
          /\ UNCHANGED <<linkVars, loopVars, closed, outc, panic>>
      BY <1>3, <2>2 DEF DatacClosed, Step, streamVars
    <3> QED BY <3>1, <1>0, MovesOnce DEF Ends
  <2> QED BY <2>1, <2>2
<1>4. CASE Drained(h)
  BY <1>0, <1>4, StillOnce DEF Drained, loopVars
<1> QED BY <1>1, <1>2, <1>3, <1>4, AnyHandlerOnce DEF Handler

LEMMA ServerHandlerOnce ==
  ASSUME KeepsMc, ServerInv, EndInv, OnceInv, NEW h \in ServerHandlers,
         ReadLoop(h) \/ WriteLoop(h) \/ ClientStep(h)
  PROVE  OnceInv'
<1> USE DEF ServerInv
<1>0. h \in Handlers /\ h[1] \in Modules /\ panic # "stream"
  BY OfServer DEF OnceInv, StreamsClosedOnce
<1>1. CASE Shared(h)
  BY <1>0, <1>1, AnyHandlerOnce DEF Shared
<1>2. CASE \/ ServerCallback(h) \/ HandshakeFails(h)
           \/ ReadConn(h) \/ ReadConnEnd(h) \/ ClientGone(h)
  <2>1. /\ UNCHANGED <<linkVars, loopVars, closed, panic>>
        /\ hpc[h] \notin {"idle"} \cup Ends
        /\ \E state \in {"read", "send", "close", "recv"} :
             hpc' = [hpc EXCEPT ![h] = state]
        /\ \/ outc' = [outc EXCEPT ![h] = h]
           \/ outc' = outc /\ hpc[h] \notin {"start", "cb"}
    <3>1. CASE ServerCallback(h)
      BY <3>1, ServerKind DEF ServerCallback, Step, Ends
    <3>2. CASE HandshakeFails(h)
      BY <3>2 DEF HandshakeFails, Step, Ends
    <3>3. CASE ReadConn(h) \/ ReadConnEnd(h) \/ ClientGone(h)
      BY <3>3 DEF ReadConn, ReadConnEnd, ClientGone, Reading, Step, streamVars,
                  Ends
    <3> QED BY <1>2, <3>1, <3>2, <3>3
  <2> QED BY <2>1, <1>0, MovesOnce
<1>3. ASSUME NEW g \in Handlers, WriterRecv(g, h) PROVE OnceInv'
  <2>1. /\ hpc[g] = "send"
        /\ \E back \in KindOf(g).sent : hpc' = [hpc EXCEPT ![g] = back]
        /\ UNCHANGED <<linkVars, loopVars, closed, outc, panic>>
    BY <1>3 DEF WriterRecv, Sends, Step
  <2> QED BY <2>1, <1>0, SentOn, MovesOnce DEF Ends
<1>4. CASE StartWriter(h) \/ WriteConn(h) \/ WriterEnd(h)
  BY <1>0, <1>4, StillOnce DEF StartWriter, WriteConn, WriterEnd, vars,
                               loopVars, streamVars
<1> QED BY <1>1, <1>2, <1>3, <1>4
        DEF ReadLoop, WriteLoop, ClientStep, Shared

(* The loop of a module starts a handler on a stream nobody had, and closes *)
(* a stream only when no handler was started.                              *)
LEMMA LoopOnce ==
  ASSUME ServerInv, EndInv, OnceInv, NEW m \in Modules, Loop(m)
  PROVE  OnceInv'
<1> USE DEF ServerInv, OnceInv
<1>0. /\ ~IsServer(m) /\ m \in Places /\ Mc(m) \in Handlers \ ServerHandlers
      /\ made[m] \in 1..MaxStreams /\ panic # "stream"
  <2>1. made[m] \in 0..MaxStreams /\ made[m] # 0 /\ MaxStreams \in Nat
    BY PipelineAssumption DEF Loop, TypeOK
  <2> QED BY <2>1 DEF Loop, Mc, ServerHandlers, StreamsClosedOnce
<1>1. CASE \/ Announce(m) \/ Cancelled(m) \/ Join(m, "join", "terminate")
           \/ SendTerminate(m, "drain") \/ Join(m, "drain", "last")
           \/ Last(m, m - 1) \/ CloseOut(m, "done")
           \/ RecvTerminate(m) /\ init[m]
  <2>1. /\ UNCHANGED <<init, made, hpc, outc, closed, panic>>
        /\ \E state \in LoopStates : pc' = [pc EXCEPT ![m] = state]
    BY <1>1 DEF Announce, Cancelled, Join, SendTerminate, Last, CloseOut,
                RecvTerminate, GoTo, LoopStates, streamVars
  <2>2. \A n \in Modules : n # m => pc'[n] = pc[n] BY <2>1 DEF TypeOK
  <2>3. /\ pc'[m] \notin {"newChannel", "announce"}
        /\ pc'[m] = "loop" => pc[m] = "announce"
        /\ pc[m] # "newChannel"
    BY <1>0, <1>1 DEF Announce, Cancelled, Join, SendTerminate, Last, CloseOut,
                      RecvTerminate, GoTo, TypeOK
  <2>4. InTurn'
    <3> SUFFICES ASSUME NEW h \in Handlers \ ServerHandlers
                 PROVE  /\ hpc[h] # "idle" =>
                             /\ init[h[1]] /\ h[2] <= made[h[1]]
                             /\ pc'[h[1]] = "newChannel" => h[2] # made[h[1]]
                        /\ OwnOutc(h)
      BY <2>1 DEF InTurn, OwnOutc
    <3> QED BY <2>2, <2>3 DEF InTurn
  <2>5. OneMc'
    <3> SUFFICES ASSUME NEW n \in Modules, ~IsServer(n)
                 PROVE  /\ pc'[n] = "newChannel" => init[n]
                        /\ SingleStream(n) =>
                             /\ made[n] = 1 /\ pc'[n] # "newChannel"
                             /\ init[n] => pc'[n] \notin {"announce", "loop"}
      BY <2>1 DEF OneMc, SingleStream
    <3> QED BY <2>2, <2>3 DEF OneMc
  <2>6. \A n \in Modules : Beyond(n) => Beyond(n)'
    BY <2>1, <2>2, <2>3, <1>0 DEF Beyond, Past
  <2>7. ClosedByOne' BY <2>1, <2>6, QuietClosed
  <2> QED BY <2>1, <2>4, <2>5, <2>7, <1>0 DEF StreamsClosedOnce
<1>2. CASE RecvTerminate(m) /\ ~init[m]
  <2>1. hpc[Mc(m)] = "idle" /\ Mc(m) \notin closed
    BY <1>0, <1>2 DEF InTurn, Mc, RecvTerminate, ClosedByOne
  <2>2. /\ closed' = closed \cup {Mc(m)} /\ panic' = panic
        /\ pc[m] = "loop" /\ pc' = [pc EXCEPT ![m] = "join"]
        /\ UNCHANGED <<init, made, hpc, outc>>
    BY <1>2, <2>1 DEF RecvTerminate, CloseChannel, GoTo, streamVars
  <2>3. pc'[m] = "join" /\ \A n \in Modules : n # m => pc'[n] = pc[n]
    BY <1>0, <2>2 DEF TypeOK
  <2>4. InTurn'
    <3> SUFFICES ASSUME NEW h \in Handlers \ ServerHandlers
                 PROVE  /\ hpc[h] # "idle" =>
                             /\ init[h[1]] /\ h[2] <= made[h[1]]
                             /\ pc'[h[1]] = "newChannel" => h[2] # made[h[1]]
                        /\ OwnOutc(h)
      BY <2>2 DEF InTurn, OwnOutc
    <3> QED BY <2>3 DEF InTurn
  <2>5. OneMc'
    <3> SUFFICES ASSUME NEW n \in Modules, ~IsServer(n)
                 PROVE  /\ pc'[n] = "newChannel" => init[n]
                        /\ SingleStream(n) =>
                             /\ made[n] = 1 /\ pc'[n] # "newChannel"
                             /\ init[n] => pc'[n] \notin {"announce", "loop"}
      BY <2>2 DEF OneMc, SingleStream
    <3> QED BY <2>3 DEF OneMc
  <2>6. \A n \in Modules : Beyond(n) => Beyond(n)'
    BY <2>2, <2>3, <1>0 DEF Beyond, Past
  <2>7. Mc(m)[1] = m /\ Beyond(m)'
    BY <1>0, <1>2, <2>2, <2>3 DEF Mc, Beyond
  <2>8. ClosedByOne' BY <2>1, <2>2, <2>6, <2>7, QuietClosed
  <2> QED BY <2>2, <2>4, <2>5, <2>8, <1>0 DEF StreamsClosedOnce
<1>3. CASE RecvNextChannel(m)
  <2>1. /\ pc[m] = "loop" /\ init[m] /\ pc' = [pc EXCEPT ![m] = "newChannel"]
        /\ made' = [made EXCEPT ![m] = @ + 1]
        /\ UNCHANGED <<init, hpc, outc, closed, panic>>
    BY <1>3 DEF RecvNextChannel, NextMc, GoTo, streamVars
  <2>2. /\ pc'[m] = "newChannel" /\ made'[m] = made[m] + 1
        /\ \A n \in Modules : n # m => pc'[n] = pc[n] /\ made'[n] = made[n]
    BY <1>0, <2>1 DEF TypeOK
  <2>3. ~SingleStream(m) BY <1>0, <2>1 DEF OneMc
  <2>4. InTurn'
    <3> SUFFICES ASSUME NEW h \in Handlers \ ServerHandlers
                 PROVE  /\ hpc[h] # "idle" =>
                             /\ init[h[1]] /\ h[2] <= made'[h[1]]
                             /\ pc'[h[1]] = "newChannel" => h[2] # made'[h[1]]
                        /\ OwnOutc(h)
      BY <2>1 DEF InTurn, OwnOutc
    <3>1. h[1] \in Modules /\ h[2] \in Nat BY DEF ServerHandlers
    <3>2. CASE h[1] = m BY <3>1, <3>2, <2>2, <1>0 DEF InTurn
    <3>3. CASE h[1] # m BY <3>1, <3>3, <2>2 DEF InTurn
    <3> QED BY <3>2, <3>3
  <2>5. OneMc'
    <3> SUFFICES ASSUME NEW n \in Modules, ~IsServer(n)
                 PROVE  /\ pc'[n] = "newChannel" => init[n]
                        /\ SingleStream(n) =>
                             /\ made'[n] = 1 /\ pc'[n] # "newChannel"
                             /\ init[n] => pc'[n] \notin {"announce", "loop"}
      BY <2>1 DEF OneMc, SingleStream
    <3>1. CASE n = m BY <3>1, <2>1, <2>3
    <3>2. CASE n # m BY <3>2, <2>2 DEF OneMc
    <3> QED BY <3>1, <3>2
  <2>6. \A n \in Modules : Beyond(n) => Beyond(n)'
    BY <2>1, <2>2, <1>0 DEF Beyond, Past
  <2>7. ClosedByOne' BY <2>1, <2>6, QuietClosed
  <2> QED BY <2>1, <2>4, <2>5, <2>7, <1>0 DEF StreamsClosedOnce
<1>4. CASE RecvFirstChannel(m) \/ AnnounceNext(m)
  <2> DEFINE h == Mc(m)
  <2>1. /\ \/ pc[m] = "loop" /\ ~init[m] /\ init' = [init EXCEPT ![m] = TRUE]
           \/ pc[m] = "newChannel" /\ init' = init
        /\ pc' = [pc EXCEPT ![m] = AfterSpawn(m)]
        /\ hpc' = [hpc EXCEPT ![h] = "start"]
        /\ UNCHANGED <<made, outc, closed, panic>>
    BY <1>4 DEF RecvFirstChannel, AnnounceNext, Spawn, GoTo
  <2>2. h \in Handlers \ ServerHandlers /\ h[1] = m /\ h[2] = made[m]
    BY <1>0 DEF Mc
  <2>3. hpc[h] = "idle"
    <3>1. CASE pc[m] = "loop" /\ ~init[m] BY <3>1, <2>2 DEF InTurn
    <3>2. CASE pc[m] = "newChannel" BY <3>2, <2>2 DEF InTurn
    <3> QED BY <2>1, <3>1, <3>2
  <2> HIDE DEF h
  <2>4. h \notin closed BY <2>1, <2>2, <2>3, <1>0 DEF ClosedByOne
  <2>5. /\ pc'[m] \in {"join", "loop"} /\ (SingleStream(m) => pc'[m] = "join")
        /\ \A n \in Modules : n # m => pc'[n] = pc[n]
    BY <1>0, <2>1 DEF TypeOK, AfterSpawn
  <2>6. /\ \A n \in Modules : n # m => init'[n] = init[n]
        /\ pc[m] = "loop" => init'[m]
    BY <2>1 DEF TypeOK
  <2>7. init'[m] BY <2>1, <2>6, <1>0 DEF OneMc
  <2>8. \A g \in Handlers : g # h => hpc'[g] = hpc[g]
    BY <2>1 DEF TypeOK
  <2>9. hpc'[h] = "start" BY <2>1, <2>2 DEF TypeOK
  <2>10. InTurn'
    <3> SUFFICES ASSUME NEW g \in Handlers \ ServerHandlers
                 PROVE  /\ hpc'[g] # "idle" =>
                             /\ init'[g[1]] /\ g[2] <= made[g[1]]
                             /\ pc'[g[1]] = "newChannel" => g[2] # made[g[1]]
                        /\ OwnOutc(g)'
      BY <2>1 DEF InTurn, OwnOutc
    <3>1. CASE g = h
      <4>1. OwnOutc(g) BY DEF InTurn
      <4>2. OwnOutc(g)' BY <4>1, <3>1, <2>1, <2>3, <2>9 DEF OwnOutc
      <4> QED BY <4>2, <3>1, <2>2, <2>5, <2>7, <2>9, <1>0
    <3>2. CASE g # h /\ g[1] = m BY <3>2, <2>1, <2>5, <2>7, <2>8 DEF InTurn, OwnOutc
    <3>3. CASE g[1] # m
      <4>1. g[1] \in Modules /\ g # h BY <3>3, <2>2
      <4> QED BY <4>1, <3>3, <2>1, <2>5, <2>6, <2>8 DEF InTurn, OwnOutc
    <3> QED BY <3>1, <3>2, <3>3
  <2>11. OneMc'
    <3> SUFFICES ASSUME NEW n \in Modules, ~IsServer(n)
                 PROVE  /\ pc'[n] = "newChannel" => init'[n]
                        /\ SingleStream(n) =>
                             /\ made[n] = 1 /\ pc'[n] # "newChannel"
                             /\ init'[n] => pc'[n] \notin {"announce", "loop"}
      BY <2>1 DEF OneMc, SingleStream
    <3>1. CASE n = m BY <3>1, <2>5 DEF OneMc
    <3>2. CASE n # m BY <3>2, <2>5, <2>6 DEF OneMc
    <3> QED BY <3>1, <3>2
  <2>12. \A n \in Modules : Beyond(n) => Beyond(n)'
    <3>1. ~Beyond(m) BY <1>0, <2>1 DEF Beyond
    <3>2. \A n \in Modules : n # m => Beyond(n)' = Beyond(n)
      BY <2>5, <2>6 DEF Beyond, Past
    <3> QED BY <3>1, <3>2
  <2>13. ClosedByOne'
    <3>1. \A g \in closed : hpc'[g] = hpc[g] BY <2>4, <2>8 DEF TypeOK
    <3> QED BY <3>1, <2>1, <2>12, QuietClosed
  <2> QED BY <2>1, <2>10, <2>11, <2>13, <1>0 DEF StreamsClosedOnce
<1> QED BY <1>1, <1>2, <1>3, <1>4 DEF Loop
(* A step of the main goroutine of a server that touches no handler *)
LEMMA ServerStepOnce ==
  ASSUME ServerInv, OnceInv, NEW s \in Servers,
         \A p \in Places \ {s} : pc'[p] = pc[p],
         \A m \in Modules \ {s} : made'[m] = made[m],
         Past(s) => Past(s)',
         UNCHANGED <<init, hpc, outc>>,
         \A h \in closed' \ closed : hpc[h] = "idle" /\ h[1] = s /\ Past(s)',
         panic' # "stream"
  PROVE  OnceInv'
<1> USE DEF ServerInv, OnceInv
<1>1. s \in Modules /\ IsServer(s) BY ServerPlace
<1>2. \A m \in Modules :
        ~IsServer(m) => /\ pc'[m] = pc[m] /\ init'[m] = init[m]
                        /\ made'[m] = made[m]
  BY <1>1
<1>3. InTurn' /\ OneMc' BY <1>2, QuietTurn
<1>4. \A m \in Modules : Beyond(m) => Beyond(m)'
  BY <1>1 DEF Beyond, Past
<1>5. ClosedByOne' BY <1>1, <1>4, QuietClosed DEF Beyond
<1> QED BY <1>3, <1>5 DEF StreamsClosedOnce

(* A stream that is handed to a connection was never closed, and the loop  *)
(* closes only those no connection has.                                    *)
LEMMA ServerOnce ==
  ASSUME KeepsMc, ServerInv, EndInv, OnceInv, NEW s \in Servers, Server(s)
  PROVE  OnceInv'
<1> USE DEF ServerInv
<1>0. /\ s \in Modules /\ s \in Places /\ IsServer(s) /\ panic # "stream"
  BY ServerPlace DEF OnceInv, StreamsClosedOnce
<1>1. CASE \/ SelectTick(s) \/ SelectTerminate(s) \/ Connected(s)
           \/ SelectCallback(s) \/ DrainedCallback(s) \/ ShutChannels(s)
           \/ \E c \in Conns : SelectConn(s, c)
           \/ Join(s, "join", "terminate") \/ SendTerminate(s, "shut")
           \/ Last(s, s - 1) \/ CloseOut(s, "done")
  <2>1. UNCHANGED <<init, hpc, outc, closed, panic>>
    BY <1>1 DEF SelectTick, SelectTerminate, Connected, SelectCallback,
                DrainedCallback, ShutChannels, SelectConn, Join, SendTerminate,
                Last, CloseOut, vars, loopVars, streamVars
  <2>2. \/ pc' = pc
        \/ \E state \in LoopStates :
             /\ pc' = [pc EXCEPT ![s] = state]
             /\ Past(s) => state \in {"callbacks", "last", "close", "done"}
    <3>1. CASE \/ SelectTick(s) \/ SelectTerminate(s) \/ Connected(s)
               \/ SelectCallback(s) \/ \E c \in Conns : SelectConn(s, c)
      BY <3>1 DEF SelectTick, SelectTerminate, Connected, SelectCallback,
                  SelectConn, GoTo, LoopStates, Past
    <3>2. CASE \/ DrainedCallback(s) \/ ShutChannels(s)
               \/ Join(s, "join", "terminate") \/ SendTerminate(s, "shut")
               \/ Last(s, s - 1) \/ CloseOut(s, "done")
      BY <3>2 DEF DrainedCallback, ShutChannels, Join, SendTerminate, Last,
                  CloseOut, GoTo, LoopStates, Past, vars, loopVars
    <3> QED BY <1>1, <3>1, <3>2
  <2>3. made' = made \/ made' = [made EXCEPT ![s] = NewStream(s)]
    BY <1>1 DEF SelectTick, SelectTerminate, Connected, SelectCallback,
                DrainedCallback, ShutChannels, SelectConn, Join, SendTerminate,
                Last, CloseOut, vars, loopVars
  <2>4. /\ \A p \in Places \ {s} : pc'[p] = pc[p]
        /\ \A m \in Modules \ {s} : made'[m] = made[m]
        /\ Past(s) => Past(s)'
    BY <2>2, <2>3, <1>0 DEF TypeOK, Past
  <2> QED BY <2>1, <2>4, <1>0, ServerStepOnce
<1>2. CASE Shut(s)
  <2>1. /\ pc[s] = "shut" /\ pc' = [pc EXCEPT ![s] = "callbacks"]
        /\ closed' = closed \cup Left(s)
        /\ panic' = IF Left(s) \cap closed = {} THEN panic ELSE "stream"
        /\ UNCHANGED <<init, made, hpc, outc>>
    BY <1>2 DEF Shut, GoTo, streamVars
  <2>2. pc'[s] = "callbacks" /\ \A p \in Places \ {s} : pc'[p] = pc[p]
    BY <1>0, <2>1 DEF TypeOK
  <2>3. ASSUME NEW h \in Left(s)
        PROVE  hpc[h] = "idle" /\ h[1] = s /\ h \notin closed
    <3>1. h \in Announced(s) /\ ~Taken(h) BY DEF Left, Pairing, Waits
    <3>2. h \in ServerHandlers /\ h[1] = s BY <3>1, AnnouncedBy
    <3>3. hpc[h] = "idle" BY <3>1, <3>2 DEF Pairing, OneConnPerStream, Taken
    <3>4. h \notin closed
      BY <1>0, <2>1, <3>2, <3>3 DEF OnceInv, ClosedByOne, Past
    <3> QED BY <3>2, <3>3, <3>4
  <2>4. panic' = panic BY <2>1, <2>3
  <2>5. Past(s)' BY <2>2 DEF Past
  <2> QED BY <2>1, <2>2, <2>3, <2>4, <2>5, <1>0, ServerStepOnce
<1>3. ASSUME NEW g \in Handlers, DrainPayload(s, g) PROVE OnceInv'
  <2>1. /\ hpc[g] = "send"
        /\ \E back \in KindOf(g).sent : hpc' = [hpc EXCEPT ![g] = back]
        /\ UNCHANGED <<linkVars, loopVars, closed, outc, panic>>
    BY <1>3 DEF DrainPayload, Sends, Step
  <2> QED BY <2>1, <1>0, SentOn, MovesOnce DEF Ends
<1>4. ASSUME NEW c \in Conns, c[1] = s, Relayed(s, c) PROVE OnceInv'
  <2> DEFINE h == relay[s].mc
  <2>1. /\ pc[s] = "relay" /\ h \in ServerHandlers /\ h[1] = s
        /\ ~Taken(h) /\ hpc[h] = "idle"
        /\ pc'[s] \in {"join", "select"}
        /\ hpc' = [hpc EXCEPT ![h] = "start"]
        /\ UNCHANGED <<made, init, closed, outc, panic>>
    BY <1>4, RelayedFrame
  <2>2. \A p \in Places \ {s} : pc'[p] = pc[p]
    BY <1>0, <1>4 DEF Relayed, GoTo, TypeOK
  <2> HIDE DEF h
  <2>3. \A g \in Handlers : g # h => hpc'[g] = hpc[g] BY <2>1 DEF TypeOK
  <2>4. h \notin closed BY <2>1, <1>0 DEF OnceInv, ClosedByOne, Past
  <2>5. \A m \in Modules : ~IsServer(m) => pc'[m] = pc[m] BY <2>2, <1>0
  <2>6. \A g \in Handlers \ ServerHandlers : hpc'[g] = hpc[g] BY <2>1, <2>3
  <2>7. InTurn' /\ OneMc' BY <2>1, <2>5, <2>6, QuietTurn DEF OnceInv
  <2>8. \A m \in Modules : Beyond(m) => Beyond(m)'
    BY <2>1, <2>2, <1>0 DEF Beyond, Past
  <2>9. \A g \in closed : hpc'[g] = hpc[g] BY <2>3, <2>4 DEF TypeOK
  <2>10. ClosedByOne' BY <2>1, <2>8, <2>9, QuietClosed DEF OnceInv
  <2> QED BY <2>1, <2>7, <2>10, <1>0 DEF OnceInv, StreamsClosedOnce
<1> QED BY <1>1, <1>2, <1>3, <1>4 DEF Server, Select, WindDown

LEMMA ConnOnce ==
  ASSUME ServerInv, OnceInv,
         \/ \E s \in Servers : Tick(s)
         \/ \E c \in Conns : Accept(c) \/ Conn(c)
  PROVE  OnceInv'
<1> USE DEF ServerInv
<1>0. panic # "stream" BY DEF OnceInv, StreamsClosedOnce
<1>1. ASSUME NEW s \in Servers, Tick(s) PROVE OnceInv'
  BY <1>0, <1>1, StillOnce DEF Tick, vars, loopVars, streamVars
<1>2. ASSUME NEW c \in Conns, Accept(c) \/ Conn(c) PROVE OnceInv'
  <2>1. CASE \/ Accept(c) \/ Refused(c) \/ TryDefault(c) \/ GiveUp(c)
             \/ Served(c) \/ Leave(c)
    BY <1>0, <2>1, StillOnce DEF Accept, Refused, TryDefault, GiveUp, Served,
                                 Leave, vars, loopVars, streamVars
  <2>2. CASE Reserve(c) \/ OfferClosed(c)
    <3>1. /\ UNCHANGED <<loopVars, closed, hpc, streamVars>>
          /\ panic' \in {panic, "server"}
      BY <2>2 DEF Reserve, OfferClosed, Panics
    <3> QED BY <1>0, <3>1, StillOnce DEF loopVars, streamVars
  <2> QED BY <1>2, <2>1, <2>2 DEF Conn
<1> QED BY <1>1, <1>2

(* Nobody closes a MessageChannel twice or sends on a closed one, with any *)
(* number of servers, connections and streams, provided each handler that  *)
(* reads the variable `mc' of its loop runs where that loop has one `mc'.  *)
(* Without --multi-streams every command line of these modules is like     *)
(* that (SingleKeepsMc); with it, those without dgst, gzip, null, env and  *)
(* the modules that read a file, which may close the stream of another     *)
(* handler (null.go:78-83, run null_multi).                                *)
THEOREM ClosedOnce ==
  ASSUME KeepsMc
  PROVE  ServerSpec => []StreamsClosedOnce
<1>1. ServerInit => EndInv /\ OnceInv
  <2> SUFFICES ASSUME ServerInit PROVE OnceInv BY EndsInitially
  <2>1. InTurn BY DEF InTurn, OwnOutc, ServerInit, Init
  <2>2. OneMc BY DEF OneMc, ServerInit, Init
  <2>3. ClosedByOne BY DEF ClosedByOne, ServerInit, Init
  <2> QED BY <2>1, <2>2, <2>3 DEF OnceInv, StreamsClosedOnce, ServerInit, Init
<1>2. /\ ServerInv /\ EndInv /\ OnceInv
      /\ [ServerNext \/ ServerStopped]_allVars
      => EndInv' /\ OnceInv'
  <2> SUFFICES ASSUME ServerInv, EndInv, OnceInv,
                      ServerNext \/ UNCHANGED allVars
               PROVE  OnceInv'
    BY EndsKept DEF ServerStopped
  <2>0. ServerInv => TypeOK BY DEF ServerInv
  <2>1. CASE UNCHANGED allVars
    BY <2>0, <2>1, StillOnce DEF allVars, vars, loopVars, streamVars, OnceInv,
                                 StreamsClosedOnce
  <2>2. CASE Next
    <3>1. CASE RelayMessages
      BY <2>0, <3>1, RelayFrame, RelayPc, StillOnce
         DEF streamVars, OnceInv, StreamsClosedOnce
    <3> QED BY <2>2, <3>1, LoopOnce, PipelineHandlerOnce DEF Next
  <2> QED BY <2>1, <2>2, ServerOnce, ConnOnce, ServerHandlerOnce DEF ServerNext
<1>3. OnceInv => StreamsClosedOnce BY DEF OnceInv
<1> QED BY <1>1, <1>2, <1>3, ServerInvHolds, PTL DEF ServerSpec
(* Each module whose handler is a closure over `mc' has the branch for     *)
(* single streams (dgst.go, gzip.go, null.go, env.go, readFile.go).        *)
LEMMA SingleKeepsMc == ASSUME ~MultiStreams PROVE KeepsMc
<1>1. \A k \in Kinds : k.byRef => k.single BY KindsType DEF KindStates
<1>2. \A m \in Modules : Kind[m] \in Kinds BY PipelineAssumption
<1> QED BY <1>1, <1>2 DEF KeepsMc, SingleStream

(* In single-stream mode no MessageChannel is closed twice or sent on once *)
(* it was closed, on any command line of these modules.                    *)
COROLLARY ClosedOnceSingle ==
  ASSUME ~MultiStreams
  PROVE  ServerSpec => []StreamsClosedOnce
BY SingleKeepsMc, ClosedOnce

-----------------------------------------------------------------------------
(* One receiver: where a MessageChannel can be *)

(* What there is at each spot *)
LEMMA SpotOf ==
  ASSUME NEW t \in Spots
  PROVE  \/ \E l \in Places : t = <<"link", l>>
         \/ \E p \in Places : t = <<"hand", p>>
         \/ \E s \in Servers : t = <<"list", s>>
         \/ \E s \in Servers : t = <<"pair", s>>
         \/ \E h \in Handlers : t = <<"in", h>>
BY DEF Spots

LEMMA AtSpot ==
  /\ \A l \in Places : <<"link", l>> \in Spots /\ At(<<"link", l>>) = OnLink(l)
  /\ \A p \in Places : <<"hand", p>> \in Spots /\ At(<<"hand", p>>) = InHand(p)
  /\ \A s \in Servers : /\ <<"list", s>> \in Spots
                        /\ At(<<"list", s>>) = Items(cbs[s])
                        /\ <<"pair", s>> \in Spots
                        /\ At(<<"pair", s>>) = {relay[s].cb} \ {NoChannel}
  /\ \A h \in Handlers : <<"in", h>> \in Spots /\ At(<<"in", h>>) = {hin[h]} \ {NoChannel}
BY DEF Spots, At

LEMMA AtSpotNext ==
  /\ \A l \in Places : At(<<"link", l>>)' = OnLink(l)'
  /\ \A p \in Places : At(<<"hand", p>>)' = InHand(p)'
  /\ \A s \in Servers : /\ At(<<"list", s>>)' = Items(cbs'[s])
                        /\ At(<<"pair", s>>)' = {relay'[s].cb} \ {NoChannel}
  /\ \A h \in Handlers : At(<<"in", h>>)' = {hin'[h]} \ {NoChannel}
BY DEF Spots, At, Items

(* Taking the first item of a sequence, and appending one *)
LEMMA TailItems ==
  ASSUME NEW S, NEW q \in Seq(S), q # <<>>
  PROVE  /\ Items(Tail(q)) \subseteq Items(q) /\ Head(q) \in Items(q)
         /\ \A but : Distinct(q, but) =>
              /\ Distinct(Tail(q), but)
              /\ Head(q) # but => Head(q) \notin Items(Tail(q))
<1>1. /\ Len(q) \in Nat /\ Len(q) >= 1 /\ Head(q) = q[1]
      /\ Len(Tail(q)) = Len(q) - 1
      /\ \A i \in 1..Len(Tail(q)) : i + 1 \in 1..Len(q) /\ Tail(q)[i] = q[i + 1]
  OBVIOUS
<1>2. Items(Tail(q)) \subseteq Items(q) /\ Head(q) \in Items(q) BY <1>1 DEF Items
<1>3. ASSUME NEW but, Distinct(q, but)
      PROVE  /\ Distinct(Tail(q), but)
             /\ Head(q) # but => Head(q) \notin Items(Tail(q))
  <2>1. Distinct(Tail(q), but)
    <3>1. ASSUME NEW i \in 1..Len(Tail(q)), NEW j \in 1..Len(Tail(q)),
                 Tail(q)[i] = Tail(q)[j], Tail(q)[i] # but
          PROVE  i = j
      <4>1. i + 1 = j + 1 BY <1>1, <1>3, <3>1 DEF Distinct
      <4> QED BY <4>1, <1>1
    <3> QED BY <3>1 DEF Distinct
  <2>2. ASSUME Head(q) # but, NEW i \in 1..Len(Tail(q)), Tail(q)[i] = Head(q)
        PROVE  FALSE
    <3>1. i + 1 = 1 BY <1>1, <1>3, <2>2 DEF Distinct
    <3> QED BY <3>1, <1>1
  <2> QED BY <2>1, <2>2 DEF Items
<1> QED BY <1>2, <1>3

LEMMA AppendItems ==
  ASSUME NEW S, NEW q \in Seq(S), NEW x \in S
  PROVE  /\ Items(Append(q, x)) = Items(q) \cup {x}
         /\ \A but : Distinct(q, but) /\ (x = but \/ x \notin Items(q)) =>
                       Distinct(Append(q, x), but)
<1>1. /\ Len(q) \in Nat /\ Len(Append(q, x)) = Len(q) + 1
      /\ \A i \in 1..Len(q) : Append(q, x)[i] = q[i]
      /\ Append(q, x)[Len(q) + 1] = x
  OBVIOUS
<1>2. \A i \in 1..(Len(q) + 1) : i \in 1..Len(q) \/ i = Len(q) + 1 BY <1>1
<1>3. 1..Len(q) \subseteq 1..(Len(q) + 1) /\ Len(q) + 1 \in 1..(Len(q) + 1)
  BY <1>1
<1>4. Items(Append(q, x)) = Items(q) \cup {x} BY <1>1, <1>2, <1>3 DEF Items
<1>5. ASSUME NEW but, Distinct(q, but), x = but \/ x \notin Items(q)
      PROVE  Distinct(Append(q, x), but)
  BY <1>1, <1>2, <1>5 DEF Distinct, Items
<1> QED BY <1>4, <1>5

LEMMA ChannelIs ==
  /\ \A x, y : Channel(x) = Channel(y) => x = y
  /\ \A x \in Handlers : Channel(x) # Terminate /\ Channel(x).mc = x
                         /\ Channel(x) \in Messages
  /\ \A msg \in Messages : msg # Terminate =>
       msg.mc \in Handlers /\ msg = Channel(msg.mc)
  /\ NoChannel \notin Handlers
<1>1. \A x : Channel(x).mc = x BY DEF Channel
<1>2. \A x, y : Channel(x) = Channel(y) => x = y BY <1>1
<1>3. NoChannel \notin Handlers BY DEF NoChannel
<1>4. ASSUME NEW x \in Handlers PROVE Channel(x) # Terminate
  <2>1. Terminate.mc = NoChannel BY DEF Terminate
  <2> QED BY <2>1, <1>1, <1>3
<1>5. \A x \in Handlers : Channel(x) \in Messages BY MessageType
<1>6. ASSUME NEW msg \in Messages, msg # Terminate
      PROVE  msg.mc \in Handlers /\ msg = Channel(msg.mc)
  <2>1. PICK x \in Handlers : msg = Channel(x) BY <1>6 DEF Messages
  <2> QED BY <2>1, <1>1
<1> QED BY <1>1, <1>2, <1>3, <1>4, <1>5, <1>6

(* Receiving from a link, and sending on it *)
LEMMA TakenOff ==
  ASSUME TypeOK, NoRepeats, NEW k \in Places, Receive(k)
  PROVE  /\ \A l \in Places : OnLink(l)' \subseteq OnLink(l)
         /\ \A l \in Places : Distinct(link'[l], Terminate)
         /\ Head(link[k]) \in Messages
         /\ Head(link[k]) # Terminate =>
              /\ Head(link[k]).mc \in OnLink(k)
              /\ Head(link[k]).mc \notin OnLink(k)'
<1>1. link[k] \in Seq(Messages) /\ link[k] # <<>> BY DEF TypeOK, Receive, Pending
<1>2. link'[k] = Tail(link[k]) /\ \A l \in Places \ {k} : link'[l] = link[l]
  BY DEF TypeOK, Receive
<1>3. Distinct(link[k], Terminate) BY DEF NoRepeats
<1>4. /\ Items(link'[k]) \subseteq Items(link[k])
      /\ Head(link[k]) \in Items(link[k])
      /\ Distinct(link'[k], Terminate)
      /\ Head(link[k]) # Terminate => Head(link[k]) \notin Items(link'[k])
  BY <1>1, <1>2, <1>3, TailItems
<1>5. Head(link[k]) \in Messages BY <1>1
<1>6. \A l \in Places : Items(link'[l]) \subseteq Items(link[l]) BY <1>2, <1>4
<1>7. \A l \in Places : Distinct(link'[l], Terminate)
  BY <1>2, <1>4 DEF NoRepeats
<1>8. \A l \in Places : OnLink(l)' \subseteq OnLink(l) BY <1>6 DEF OnLink, Items
<1>9. Head(link[k]) # Terminate =>
        /\ Head(link[k]).mc \in OnLink(k)
        /\ Head(link[k]).mc \notin OnLink(k)'
  BY <1>4, <1>5, ChannelIs DEF OnLink, Items
<1> QED BY <1>5, <1>7, <1>8, <1>9

LEMMA PutOn ==
  ASSUME TypeOK, NoRepeats, NEW k \in Places, NEW x \in Handlers,
         Send(k, Channel(x)), x \notin OnLink(k)
  PROVE  /\ \A l \in Places \ {k} : OnLink(l)' = OnLink(l)
         /\ OnLink(k)' = OnLink(k) \cup {x}
         /\ \A l \in Places : Distinct(link'[l], Terminate)
<1>1. link[k] \in Seq(Messages) /\ Channel(x) \in Messages BY ChannelIs DEF TypeOK
<1>2. /\ link'[k] = Append(link[k], Channel(x))
      /\ \A l \in Places \ {k} : link'[l] = link[l]
  BY DEF TypeOK, Send
<1>3. Distinct(link[k], Terminate) BY DEF NoRepeats
<1>4. Channel(x) \notin Items(link[k]) BY DEF OnLink
<1>5. /\ Items(link'[k]) = Items(link[k]) \cup {Channel(x)}
      /\ Distinct(link'[k], Terminate)
  BY <1>1, <1>2, <1>3, <1>4, AppendItems
<1>6. \A l \in Places : Distinct(link'[l], Terminate)
  BY <1>2, <1>5 DEF NoRepeats
<1>7. \A l \in Places \ {k} : OnLink(l)' = OnLink(l) BY <1>2 DEF OnLink, Items
<1>8. OnLink(k)' = {y \in Handlers : Channel(y) \in Items(link'[k])}
  BY DEF OnLink, Items
<1>9. OnLink(k)' = OnLink(k) \cup {x}
  BY <1>5, <1>8, ChannelIs DEF OnLink
<1> QED BY <1>6, <1>7, <1>9

LEMMA TerminatePutOn ==
  ASSUME TypeOK, NoRepeats, NEW k \in Places, Send(k, Terminate)
  PROVE  /\ \A l \in Places : OnLink(l)' = OnLink(l)
         /\ \A l \in Places : Distinct(link'[l], Terminate)
<1>1. link[k] \in Seq(Messages) /\ Terminate \in Messages BY MessageType DEF TypeOK
<1>2. /\ link'[k] = Append(link[k], Terminate)
      /\ \A l \in Places \ {k} : link'[l] = link[l]
  BY DEF TypeOK, Send
<1>3. Distinct(link[k], Terminate) BY DEF NoRepeats
<1>5. /\ Items(link'[k]) = Items(link[k]) \cup {Terminate}
      /\ Distinct(link'[k], Terminate)
  BY <1>1, <1>2, <1>3, AppendItems
<1>6. \A l \in Places : Distinct(link'[l], Terminate)
  BY <1>2, <1>5 DEF NoRepeats
<1>7. \A l \in Places \ {k} : OnLink(l)' = OnLink(l) BY <1>2 DEF OnLink, Items
<1>8. OnLink(k)' = {y \in Handlers : Channel(y) \in Items(link'[k])}
  BY DEF OnLink, Items
<1>9. OnLink(k)' = OnLink(k)
  BY <1>5, <1>8, ChannelIs DEF OnLink
<1> QED BY <1>6, <1>7, <1>9

(* A step keeps what is in one place there when nothing that comes to a    *)
(* spot is at another.                                                     *)
Settles == \A s \in Servers : pc'[s] \in {"select", "connected"} /\ Relists(s) =>
                                pc[s] \in {"select", "connected"}

LEMMA Moved ==
  ASSUME OnePlace, Settles,
         \A t, u \in Spots : \/ t = u \/ Relisted(t, u)' \/ Relisted(u, t)'
                             \/ (At(t)' \ At(t)) \cap At(u)' = {}
  PROVE  OnePlace'
<1>1. ASSUME NEW t \in Spots, NEW u \in Spots, Relisted(t, u)
      PROVE  Relisted(t, u)'
  <2>1. t[2] \in Servers BY <1>1 DEF Spots, Relisted
  <2> QED BY <2>1, <1>1 DEF Relisted, Settles, Relists
<1>2. Spots' = Spots BY DEF Spots
<1> SUFFICES ASSUME NEW t \in Spots, NEW u \in Spots
             PROVE  \/ t = u \/ Relisted(t, u)' \/ Relisted(u, t)'
                    \/ At(t)' \cap At(u)' = {}
  BY <1>2 DEF OnePlace
<1>3. \/ t = u \/ Relisted(t, u)' \/ Relisted(u, t)'
      \/ At(t) \cap At(u) = {}
  BY <1>1 DEF OnePlace
<1> QED BY <1>3

(* Nothing is announced twice by a loop that goes on. *)
LEMMA StaysIssued ==
  ASSUME TypeOK,
         \A m \in Modules :
           \/ /\ made'[m] = made[m]
              /\ pc'[m] \in {"announce", "newChannel", "connected"} =>
                   pc[m] \in {"announce", "newChannel", "connected"}
           \/ made'[m] = made[m] + 1,
         NEW x, Issued(x)
  PROVE  Issued(x)'
<1>1. x[1] \in Modules /\ x[2] \in Nat /\ x[2] <= made[x[1]] /\ made[x[1]] \in Nat
  BY PipelineAssumption DEF Issued, TypeOK
<1>2. CASE made'[x[1]] = made[x[1]] + 1
  <2>1. x[2] <= made'[x[1]] /\ x[2] # made'[x[1]] BY <1>1, <1>2
  <2> QED BY <2>1 DEF Issued
<1>3. CASE /\ made'[x[1]] = made[x[1]]
           /\ pc'[x[1]] \in {"announce", "newChannel", "connected"} =>
                pc[x[1]] \in {"announce", "newChannel", "connected"}
  BY <1>3 DEF Issued
<1> QED BY <1>1, <1>2, <1>3

(* The part of the invariant that a step may disturb, and what keeps it *)
PlaceInv == NoRepeats /\ OnePlace /\ IssuedFirst
Issues ==
  \A m \in Modules :
    \/ /\ made'[m] = made[m]
       /\ pc'[m] \in {"announce", "newChannel", "connected"} =>
            pc[m] \in {"announce", "newChannel", "connected"}
    \/ made'[m] = made[m] + 1
Fitting == /\ \A l \in Places : Distinct(link'[l], Terminate)
           /\ \A s \in Servers : Distinct(cbs'[s], NoChannel)

LEMMA MovesOn ==
  ASSUME TypeOK, PlaceInv, Settles, Issues, Fitting,
         \A t, u \in Spots : \/ t = u \/ Relisted(t, u)' \/ Relisted(u, t)'
                             \/ (At(t)' \ At(t)) \cap At(u)' = {},
         \A t \in Spots : \A x \in At(t)' \ At(t) : Issued(x)'
  PROVE  PlaceInv'
<1>1. OnePlace' BY Moved DEF PlaceInv
<1>2. NoRepeats' BY DEF Fitting, NoRepeats, Distinct
<1>3. \A x : Issued(x) => Issued(x)' BY StaysIssued DEF Issues
<1>4. Spots' = Spots BY DEF Spots
<1>5. IssuedFirst' BY <1>3, <1>4 DEF PlaceInv, IssuedFirst
<1> QED BY <1>1, <1>2, <1>5 DEF PlaceInv

LEMMA NoneMoves ==
  ASSUME TypeOK, PlaceInv, Settles, Issues, Fitting,
         \A t \in Spots : At(t)' \subseteq At(t)
  PROVE  PlaceInv'
BY MovesOn

LEMMA OneMoves ==
  ASSUME TypeOK, PlaceInv, Settles, Issues, Fitting,
         NEW x, Issued(x)', NEW T \in SUBSET Spots,
         \A t \in Spots \ T : At(t)' \subseteq At(t) /\ x \notin At(t)',
         \A t \in T : At(t)' \subseteq At(t) \cup {x},
         \A t, u \in T : t = u \/ Relisted(t, u)' \/ Relisted(u, t)'
  PROVE  PlaceInv'
<1>1. ASSUME NEW t \in Spots, NEW u \in Spots
      PROVE  \/ t = u \/ Relisted(t, u)' \/ Relisted(u, t)'
             \/ (At(t)' \ At(t)) \cap At(u)' = {}
  <2>1. CASE t \notin T BY <2>1
  <2>2. CASE t \in T /\ u \in T BY <2>2
  <2>3. CASE t \in T /\ u \notin T BY <2>3
  <2> QED BY <2>1, <2>2, <2>3
<1>2. \A t \in Spots : \A y \in At(t)' \ At(t) : Issued(y)' OBVIOUS
<1> QED BY <1>1, <1>2, MovesOn

(* A channel on a link or in the hands of a loop is nowhere else. *)
LEMMA Elsewhere ==
  ASSUME OnePlace, NEW t \in Spots, t[1] \in {"link", "hand"}, NEW x \in At(t),
         NEW u \in Spots, u # t
  PROVE  x \notin At(u)
BY DEF OnePlace, Relisted

(* A channel is taken from a link, or from the hands of RelayMessages, to *)
(* another spot.                                                           *)
LEMMA FromLink ==
  ASSUME TypeOK, PlaceInv, Settles, Issues, Fitting,
         NEW from \in Spots, from[1] \in {"link", "hand"},
         NEW to \in Spots, to # from,
         NEW x \in At(from), x \notin At(from)',
         \A t \in Spots \ {to} : At(t)' \subseteq At(t),
         At(to)' \subseteq At(to) \cup {x}
  PROVE  PlaceInv'
<1>1. \A t \in Spots \ {from} : x \notin At(t)
  BY Elsewhere DEF PlaceInv
<1>2. \A t \in Spots \ {to} : x \notin At(t)' BY <1>1
<1>3. Issued(x)' BY StaysIssued DEF PlaceInv, IssuedFirst, Issues
<1>4. {to} \in SUBSET Spots OBVIOUS
<1> QED BY <1>2, <1>3, <1>4, OneMoves

(* What does not come to a spot *)
LEMMA StayBut ==
  ASSUME NEW T,
         \A l \in Places : <<"link", l>> \in T \/ OnLink(l)' \subseteq OnLink(l),
         \A p \in Places : <<"hand", p>> \in T \/ InHand(p)' \subseteq InHand(p),
         \A s \in Servers : <<"list", s>> \in T \/ Items(cbs'[s]) \subseteq Items(cbs[s]),
         \A s \in Servers : <<"pair", s>> \in T \/ relay'[s].cb \in {relay[s].cb, NoChannel},
         \A h \in Handlers : <<"in", h>> \in T \/ hin'[h] \in {hin[h], NoChannel}
  PROVE  \A t \in Spots \ T : At(t)' \subseteq At(t)
<1> SUFFICES ASSUME NEW t \in Spots \ T PROVE At(t)' \subseteq At(t)
  OBVIOUS
<1>1. ASSUME NEW l \in Places, t = <<"link", l>> PROVE At(t)' \subseteq At(t)
  <2>1. OnLink(l)' \subseteq OnLink(l) BY <1>1
  <2> QED BY <2>1, <1>1, AtSpot, AtSpotNext
<1>2. ASSUME NEW p \in Places, t = <<"hand", p>> PROVE At(t)' \subseteq At(t)
  <2>1. InHand(p)' \subseteq InHand(p) BY <1>2
  <2> QED BY <2>1, <1>2, AtSpot, AtSpotNext
<1>3. ASSUME NEW s \in Servers, t = <<"list", s>> PROVE At(t)' \subseteq At(t)
  <2>1. Items(cbs'[s]) \subseteq Items(cbs[s]) BY <1>3
  <2>2. At(<<"list", s>>) = Items(cbs[s]) BY AtSpot
  <2>3. At(<<"list", s>>)' = Items(cbs'[s]) BY AtSpotNext
  <2> QED BY <2>1, <2>2, <2>3, <1>3
<1>4. ASSUME NEW s \in Servers, t = <<"pair", s>> PROVE At(t)' \subseteq At(t)
  <2>1. relay'[s].cb \in {relay[s].cb, NoChannel} BY <1>4
  <2>2. At(<<"pair", s>>) = {relay[s].cb} \ {NoChannel} BY AtSpot
  <2>3. At(<<"pair", s>>)' = {relay'[s].cb} \ {NoChannel} BY AtSpotNext
  <2> QED BY <2>1, <2>2, <2>3, <1>4
<1>5. ASSUME NEW h \in Handlers, t = <<"in", h>> PROVE At(t)' \subseteq At(t)
  <2>1. hin'[h] \in {hin[h], NoChannel} BY <1>5
  <2> QED BY <2>1, <1>5, AtSpot, AtSpotNext
<1> QED BY <1>1, <1>2, <1>3, <1>4, <1>5, SpotOf

(* What a loop, or RelayMessages, moves: only the link it reads, the one   *)
(* it writes, its hands and the handler it starts.                         *)
LEMMA LoopSpots ==
  ASSUME TypeOK, NEW m \in Modules, Loop(m)
  PROVE  /\ \A p \in Places \ {m} : InHand(p)' = InHand(p)
         /\ pc'[m] # "newChannel" => InHand(m)' = {}
         /\ \A s \in Servers : pc'[s] = pc[s]
         /\ Issues
<1> USE DEF TypeOK
<1>0. m \in Places BY PipelineAssumption
<1>1. \A p \in Places \ {m} : pc'[p] = pc[p] BY LoopFrame
<1>2. \A p \in Places \ {m} : held'[p] = held[p]
  BY DEF Loop, Announce, RecvTerminate, RecvFirstChannel, RecvNextChannel,
         AnnounceNext, Cancelled, Join, SendTerminate, Last, CloseOut
<1>3. /\ pc'[m] # "forward"
      /\ \/ made' = made /\ pc'[m] \notin {"announce", "newChannel", "connected"}
         \/ made' = [made EXCEPT ![m] = made[m] + 1]
  BY <1>0 DEF Loop, Announce, RecvTerminate, RecvFirstChannel, RecvNextChannel,
         AnnounceNext, Cancelled, Join, SendTerminate, Last, CloseOut, GoTo,
         Spawn, AfterSpawn, NextMc
<1>4. \A p \in Places \ {m} : InHand(p)' = InHand(p) BY <1>1, <1>2 DEF InHand
<1>5. pc'[m] # "newChannel" => InHand(m)' = {} BY <1>3 DEF InHand
<1>6. \A s \in Servers : s # m /\ s \in Places
  BY ServerPlace DEF Loop
<1>7. Issues
  <2>1. ASSUME NEW p \in Modules \ {m} PROVE made'[p] = made[p] /\ pc'[p] = pc[p]
    <3>1. p \in Places BY PipelineAssumption
    <3> QED BY <1>1, <1>3, <3>1
  <2>2. \/ made'[m] = made[m]
           /\ pc'[m] \notin {"announce", "newChannel", "connected"}
        \/ made'[m] = made[m] + 1
    BY <1>3
  <2> QED BY <2>1, <2>2 DEF Issues
<1> QED BY <1>1, <1>4, <1>5, <1>6, <1>7

LEMMA LoopPlaced ==
  ASSUME ServerInv, PlaceInv, NEW m \in Modules, Loop(m),
         UNCHANGED <<serverVars, connVars, dataVars>>
  PROVE  PlaceInv'
<1> USE DEF ServerInv
<1>0. PICK x \in Handlers : x = Mc(m)
  <2>1. made[m] \in 1..MaxStreams
    BY PipelineAssumption DEF TypeOK, Loop
  <2> QED BY <2>1, PipelineAssumption DEF Mc
<1>1. /\ m \in Places /\ m - 1 \in Places /\ m # m - 1 /\ ~IsServer(m)
      /\ x[1] = m /\ x[2] = made[m] /\ made[m] \in Nat
  <2>1. m \in Places /\ m - 1 \in Places /\ m # m - 1 /\ ~IsServer(m)
    BY PipelineAssumption DEF Loop
  <2> QED BY <2>1, <1>0, PipelineAssumption DEF Mc, TypeOK
<1>2. /\ \A p \in Places \ {m} : InHand(p)' = InHand(p)
      /\ pc'[m] # "newChannel" => InHand(m)' = {}
      /\ Issues /\ Settles
  BY LoopSpots DEF Settles
<1>3. cbs' = cbs /\ relay' = relay BY DEF serverVars
<1>4. /\ \A s \in Servers : Distinct(cbs'[s], NoChannel)
      /\ \A l \in Places : Distinct(link[l], Terminate)
      /\ NoRepeats /\ OnePlace
  BY <1>3 DEF PlaceInv, NoRepeats
<1>5. <<"link", m>> \in Spots /\ <<"link", m - 1>> \in Spots
      /\ <<"hand", m>> \in Spots /\ <<"in", x>> \in Spots
  BY <1>1, AtSpot
(* What is announced now is nowhere yet. *)
<1>6. ASSUME pc[m] \in {"announce", "newChannel"}, NEW t \in Spots
      PROVE  x \notin At(t)
  BY <1>1, <1>6 DEF PlaceInv, IssuedFirst, Issued
<1>10. CASE Announce(m)
  <2>1. /\ Send(m, Channel(x)) /\ hin' = hin /\ made' = made
        /\ pc[m] = "announce" /\ pc'[m] = "loop"
    BY <1>0, <1>1, <1>10 DEF Announce, GoTo, streamVars, TypeOK
  <2>2. x \notin OnLink(m) BY <2>1, <1>1, <1>5, <1>6, AtSpot
  <2>3. /\ \A l \in Places \ {m} : OnLink(l)' = OnLink(l)
        /\ OnLink(m)' = OnLink(m) \cup {x}
        /\ \A l \in Places : Distinct(link'[l], Terminate)
    BY <2>1, <2>2, <1>1, <1>4, PutOn
  <2>4. \A t \in Spots \ {<<"link", m>>} : At(t)' \subseteq At(t)
    <3>1. \A p \in Places : InHand(p)' \subseteq InHand(p) BY <2>1, <1>2
    <3> QED BY <2>1, <2>3, <3>1, <1>3, StayBut
  <2>5. At(<<"link", m>>)' \subseteq At(<<"link", m>>) \cup {x}
    BY <2>3, <1>1, AtSpot, AtSpotNext
  <2>6. Issued(x)' BY <2>1, <1>1 DEF Issued
  <2>7. Fitting BY <2>3, <1>4 DEF Fitting
  <2>8. \A t \in Spots \ {<<"link", m>>} : x \notin At(t)'
    BY <2>1, <2>4, <1>6
  <2>9. {<<"link", m>>} \in SUBSET Spots BY <1>5
  <2>10. \A t \in {<<"link", m>>} : At(t)' \subseteq At(t) \cup {x} BY <2>5
  <2> QED BY <2>4, <2>6, <2>7, <2>8, <2>9, <2>10, <1>2, OneMoves
<1>11. CASE RecvTerminate(m)
  <2>1. Receive(m - 1) /\ hin' = hin /\ pc'[m] = "join"
    BY <1>1, <1>11 DEF RecvTerminate, GoTo, streamVars, TypeOK
  <2>2. /\ \A l \in Places : OnLink(l)' \subseteq OnLink(l)
        /\ \A l \in Places : Distinct(link'[l], Terminate)
    BY <2>1, <1>1, <1>4, TakenOff
  <2>3. \A p \in Places : InHand(p)' \subseteq InHand(p) BY <2>1, <1>2
  <2>4. \A t \in Spots \ {} : At(t)' \subseteq At(t)
    BY <2>1, <2>2, <2>3, <1>3, StayBut
  <2>5. Fitting BY <2>2, <1>4 DEF Fitting
  <2> QED BY <2>4, <2>5, <1>2, NoneMoves
<1>12. CASE RecvFirstChannel(m)
  <2>1. PICK cb : cb = Head(link[m - 1]).mc OBVIOUS
  <2>2. /\ Receive(m - 1) /\ Head(link[m - 1]) # Terminate
        /\ \A h \in Handlers : hin'[h] = IF h = x THEN cb ELSE hin[h]
        /\ pc'[m] \in {"loop", "join"}
    BY <2>1, <1>0, <1>1, <1>12
       DEF RecvFirstChannel, Spawn, AfterSpawn, GoTo, TypeOK
  <2>3. /\ \A l \in Places : OnLink(l)' \subseteq OnLink(l)
        /\ \A l \in Places : Distinct(link'[l], Terminate)
        /\ cb \in OnLink(m - 1) /\ cb \notin OnLink(m - 1)'
    BY <2>1, <2>2, <1>1, <1>4, TakenOff
  <2>4. \A p \in Places : InHand(p)' \subseteq InHand(p) BY <2>2, <1>2
  <2>5. \A t \in Spots \ {<<"in", x>>} : At(t)' \subseteq At(t)
    BY <2>2, <2>3, <2>4, <1>3, StayBut
  <2>6. At(<<"in", x>>)' \subseteq At(<<"in", x>>) \cup {cb}
    BY <2>2, AtSpotNext
  <2>7. Fitting BY <2>3, <1>4 DEF Fitting
  <2>8. <<"link", m - 1>> # <<"in", x>> OBVIOUS
  <2>9. cb \in At(<<"link", m - 1>>) /\ cb \notin At(<<"link", m - 1>>)'
    BY <2>3, <1>1, AtSpot, AtSpotNext
  <2>10. <<"link", m - 1>>[1] \in {"link", "hand"} OBVIOUS
  <2> QED BY <2>5, <2>6, <2>7, <2>8, <2>9, <2>10, <1>2, <1>4, <1>5, FromLink
<1>13. CASE RecvNextChannel(m)
  <2>1. PICK cb : cb = Head(link[m - 1]).mc OBVIOUS
  <2>2. /\ Receive(m - 1) /\ Head(link[m - 1]) # Terminate
        /\ hin' = hin /\ held'[m] = Head(link[m - 1])
    BY <1>1, <1>13 DEF RecvNextChannel, streamVars, TypeOK
  <2>3. /\ \A l \in Places : OnLink(l)' \subseteq OnLink(l)
        /\ \A l \in Places : Distinct(link'[l], Terminate)
        /\ cb \in OnLink(m - 1) /\ cb \notin OnLink(m - 1)'
    BY <2>1, <2>2, <1>1, <1>4, TakenOff
  <2>5. \A t \in Spots \ {<<"hand", m>>} : At(t)' \subseteq At(t)
    BY <2>2, <2>3, <1>2, <1>3, StayBut
  <2>6. At(<<"hand", m>>)' \subseteq At(<<"hand", m>>) \cup {cb}
    <3>1. InHand(m)' \subseteq {cb} BY <2>1, <2>2 DEF InHand
    <3> QED BY <3>1, <1>1, AtSpotNext
  <2>7. Fitting BY <2>3, <1>4 DEF Fitting
  <2>8. <<"link", m - 1>> # <<"hand", m>> OBVIOUS
  <2>9. cb \in At(<<"link", m - 1>>) /\ cb \notin At(<<"link", m - 1>>)'
    BY <2>3, <1>1, AtSpot, AtSpotNext
  <2>10. <<"link", m - 1>>[1] \in {"link", "hand"} OBVIOUS
  <2> QED BY <2>5, <2>6, <2>7, <2>8, <2>9, <2>10, <1>2, <1>4, <1>5, FromLink
<1>14. CASE AnnounceNext(m)
  <2>1. PICK cb : cb = held[m].mc OBVIOUS
  <2>2. /\ Send(m, Channel(x)) /\ pc[m] = "newChannel" /\ made' = made
        /\ \A h \in Handlers : hin'[h] = IF h = x THEN cb ELSE hin[h]
        /\ pc'[m] \in {"loop", "join"}
    BY <2>1, <1>0, <1>1, <1>14 DEF AnnounceNext, Spawn, AfterSpawn, GoTo, TypeOK
  <2>3. x \notin OnLink(m) BY <2>2, <1>1, <1>5, <1>6, AtSpot
  <2>4. /\ \A l \in Places \ {m} : OnLink(l)' = OnLink(l)
        /\ OnLink(m)' = OnLink(m) \cup {x}
        /\ \A l \in Places : Distinct(link'[l], Terminate)
    BY <2>2, <2>3, <1>1, <1>4, PutOn
  <2>5. \A p \in Places : InHand(p)' \subseteq InHand(p) BY <2>2, <1>2
  <2>6. \A t \in Spots \ {<<"link", m>>, <<"in", x>>} : At(t)' \subseteq At(t)
    BY <2>2, <2>4, <2>5, <1>3, StayBut
  <2>7. /\ At(<<"link", m>>)' = At(<<"link", m>>) \cup {x}
        /\ At(<<"hand", m>>)' = {}
        /\ At(<<"in", x>>)' = {cb} \ {NoChannel}
    BY <2>2, <2>4, <1>1, <1>2, AtSpot, AtSpotNext
  <2>8. cb # NoChannel => cb \in At(<<"hand", m>>) /\ cb # x
    <3>1. cb # NoChannel => held[m] # Terminate BY <2>1 DEF Terminate
    <3>2. cb # NoChannel => cb \in InHand(m) BY <3>1, <2>1, <2>2 DEF InHand
    <3> QED BY <3>2, <2>2, <1>1, <1>5, <1>6, AtSpot
  <2>9. ASSUME NEW t \in Spots, t # <<"in", x>>, cb # NoChannel
        PROVE  cb \notin At(t)'
    <3>1. CASE t = <<"hand", m>> BY <3>1, <2>7
    <3>2. CASE t # <<"hand", m>>
      <4>1. cb \notin At(t)
        BY <3>2, <2>8, <2>9, <1>4, <1>5, Elsewhere
      <4> QED BY <4>1, <2>6, <2>7, <2>8, <2>9
    <3> QED BY <3>1, <3>2
  <2>10. ASSUME NEW t \in Spots, t # <<"link", m>> PROVE x \notin At(t)'
    BY <2>2, <2>6, <2>7, <2>8, <2>10, <1>6
  <2>11. <<"link", m>> # <<"in", x>> OBVIOUS
  <2>12. ASSUME NEW t \in Spots, NEW u \in Spots, t # u
         PROVE  (At(t)' \ At(t)) \cap At(u)' = {}
    <3>1. CASE t = <<"link", m>> BY <3>1, <2>7, <2>10, <2>12
    <3>2. CASE t = <<"in", x>>
      <4>1. u # <<"in", x>> BY <3>2, <2>12
      <4> QED BY <4>1, <3>2, <2>7, <2>9
    <3>3. CASE t # <<"link", m>> /\ t # <<"in", x>>
      <4>1. At(t)' \subseteq At(t) BY <3>3, <2>6
      <4> QED BY <4>1
    <3> QED BY <3>1, <3>2, <3>3
  <2>13. Issued(x)' BY <2>2, <1>1 DEF Issued
  <2>14. cb # NoChannel => Issued(cb)'
    <3>1. cb # NoChannel => Issued(cb)
      BY <2>8, <1>5 DEF PlaceInv, IssuedFirst
    <3> QED BY <3>1, <1>2, StaysIssued DEF Issues
  <2>15. ASSUME NEW t \in Spots, NEW y \in At(t)' \ At(t) PROVE Issued(y)'
    <3>1. CASE t = <<"link", m>> BY <3>1, <2>7, <2>13, <2>15
    <3>2. CASE t = <<"in", x>> BY <3>2, <2>7, <2>14, <2>15
    <3>3. CASE t # <<"link", m>> /\ t # <<"in", x>> BY <3>3, <2>6, <2>15
    <3> QED BY <3>1, <3>2, <3>3
  <2>16. Fitting BY <2>4, <1>4 DEF Fitting
  <2> QED BY <2>12, <2>15, <2>16, <1>2, MovesOn
<1>15. CASE \/ Cancelled(m) \/ Join(m, "join", "terminate")
            \/ Join(m, "drain", "last") \/ CloseOut(m, "done")
  <2>1. link' = link /\ hin' = hin /\ pc'[m] # "newChannel"
    BY <1>1, <1>15 DEF Cancelled, Join, CloseOut, GoTo, linkVars, streamVars, TypeOK
  <2>2. \A l \in Places : OnLink(l)' = OnLink(l) BY <2>1 DEF OnLink, Items
  <2>3. \A p \in Places : InHand(p)' \subseteq InHand(p) BY <2>1, <1>2
  <2>4. \A t \in Spots \ {} : At(t)' \subseteq At(t)
    BY <2>1, <2>2, <2>3, <1>3, StayBut
  <2>5. Fitting BY <2>1, <1>4 DEF Fitting
  <2> QED BY <2>4, <2>5, <1>2, NoneMoves
<1>16. CASE SendTerminate(m, "drain")
  <2>1. Send(m, Terminate) /\ hin' = hin /\ pc'[m] = "drain"
    BY <1>1, <1>16 DEF SendTerminate, GoTo, streamVars, TypeOK
  <2>2. /\ \A l \in Places : OnLink(l)' = OnLink(l)
        /\ \A l \in Places : Distinct(link'[l], Terminate)
    BY <2>1, <1>1, <1>4, TerminatePutOn
  <2>3. \A p \in Places : InHand(p)' \subseteq InHand(p) BY <2>1, <1>2
  <2>4. \A t \in Spots \ {} : At(t)' \subseteq At(t)
    BY <2>1, <2>2, <2>3, <1>3, StayBut
  <2>5. Fitting BY <2>2, <1>4 DEF Fitting
  <2> QED BY <2>4, <2>5, <1>2, NoneMoves
<1>17. CASE Last(m, m - 1)
  <2>1. /\ Receive(m - 1) \/ link' = link
        /\ hin' = hin /\ pc'[m] = "close"
    BY <1>1, <1>17 DEF Last, GoTo, streamVars, TypeOK
  <2>2. /\ \A l \in Places : OnLink(l)' \subseteq OnLink(l)
        /\ \A l \in Places : Distinct(link'[l], Terminate)
    <3>1. CASE Receive(m - 1) BY <3>1, <1>1, <1>4, TakenOff
    <3>2. CASE link' = link BY <3>2, <1>4 DEF OnLink, Items
    <3> QED BY <2>1, <3>1, <3>2
  <2>3. \A p \in Places : InHand(p)' \subseteq InHand(p) BY <2>1, <1>2
  <2>4. \A t \in Spots \ {} : At(t)' \subseteq At(t)
    BY <2>1, <2>2, <2>3, <1>3, StayBut
  <2>5. Fitting BY <2>2, <1>4 DEF Fitting
  <2> QED BY <2>4, <2>5, <1>2, NoneMoves
<1> QED BY <1>10, <1>11, <1>12, <1>13, <1>14, <1>15, <1>16, <1>17 DEF Loop

(* What moves nothing: it may take from a link or from a list. *)
LEMMA QuietPlaced ==
  ASSUME ServerInv, PlaceInv, UNCHANGED <<hin, held, made>>,
         \A l \in Places : /\ OnLink(l)' \subseteq OnLink(l)
                           /\ Distinct(link'[l], Terminate),
         \A s \in Servers : /\ Items(cbs'[s]) \subseteq Items(cbs[s])
                            /\ Distinct(cbs'[s], NoChannel)
                            /\ relay'[s] = relay[s],
         \A p \in Places :
           \/ pc'[p] = pc[p]
           \/ pc'[p] \notin {"announce", "forward", "newChannel", "select",
                             "connected"}
  PROVE  PlaceInv'
<1>1. TypeOK BY DEF ServerInv
<1>2. \A p \in Places : InHand(p)' \subseteq InHand(p) BY DEF InHand
<1>3. \A t \in Spots \ {} : At(t)' \subseteq At(t) BY <1>2, StayBut
<1>4. Issues /\ Settles
  <2>1. \A s \in Servers : s \in Places BY ServerPlace
  <2> QED BY <2>1 DEF Issues, Settles
<1>5. Fitting BY DEF Fitting
<1> QED BY <1>1, <1>3, <1>4, <1>5, NoneMoves

LEMMA SameLinks ==
  ASSUME PlaceInv, link' = link
  PROVE  \A l \in Places : /\ OnLink(l)' \subseteq OnLink(l)
                           /\ Distinct(link'[l], Terminate)
BY DEF OnLink, Items, PlaceInv, NoRepeats

LEMMA SameLists ==
  ASSUME PlaceInv, UNCHANGED <<cbs, relay>>
  PROVE  \A s \in Servers : /\ Items(cbs'[s]) \subseteq Items(cbs[s])
                            /\ Distinct(cbs'[s], NoChannel)
                            /\ relay'[s] = relay[s]
BY DEF PlaceInv, NoRepeats

LEMMA RelayPlaced ==
  ASSUME ServerInv, PlaceInv, RelayMessages,
         UNCHANGED <<serverVars, connVars, dataVars>>
  PROVE  PlaceInv'
<1> USE DEF ServerInv
<1>0. 0 \in Places /\ N \in Places /\ N # 0 BY PipelineAssumption
<1>1. /\ UNCHANGED <<made, hin, cbs, relay>>
      /\ \A m \in Modules : pc'[m] = pc[m]
  BY RelayFrame, RelayPc DEF streamVars, serverVars
<1>2. \A p \in Places : p = 0 \/ p \in Modules BY PipelineAssumption
<1>3. Issues /\ Settles
  <2>1. \A s \in Servers : s \in Modules BY ServerPlace
  <2> QED BY <2>1, <1>1 DEF Issues, Settles
<1>4. NoRepeats /\ OnePlace BY DEF PlaceInv
<1>5. /\ <<"hand", 0>> \in Spots /\ <<"link", 0>> \in Spots
      /\ <<"link", N>> \in Spots
  BY <1>0, AtSpot
<1>6. \A s \in Servers : Distinct(cbs'[s], NoChannel)
  BY <1>1 DEF PlaceInv, NoRepeats
<1>7. CASE RelayRecv
  <2>1. PICK cb : cb = Head(link[N]).mc OBVIOUS
  <2>2. /\ Receive(N) /\ held'[0] = Head(link[N]) /\ pc'[0] = "forward"
        /\ \A p \in Places \ {0} : held'[p] = held[p]
    BY <1>0, <1>7 DEF RelayRecv, GoTo, TypeOK
  <2>3. /\ \A l \in Places : OnLink(l)' \subseteq OnLink(l)
        /\ \A l \in Places : Distinct(link'[l], Terminate)
        /\ Head(link[N]) # Terminate => cb \in OnLink(N) /\ cb \notin OnLink(N)'
    BY <2>1, <2>2, <1>0, <1>4, TakenOff
  <2>4. \A p \in Places \ {0} : InHand(p)' \subseteq InHand(p)
    BY <2>2, <1>1, <1>2 DEF InHand
  <2>5. \A t \in Spots \ {<<"hand", 0>>} : At(t)' \subseteq At(t)
    BY <2>3, <2>4, <1>1, StayBut
  <2>6. Fitting BY <2>3, <1>6 DEF Fitting
  <2>7. CASE Head(link[N]) = Terminate
    <3>1. At(<<"hand", 0>>)' = {}
      <4>1. InHand(0)' = {} BY <2>2, <2>7 DEF InHand
      <4> QED BY <4>1, <1>0, AtSpotNext
    <3>2. \A t \in Spots : At(t)' \subseteq At(t) BY <3>1, <2>5
    <3> QED BY <3>2, <2>6, <1>3, NoneMoves
  <2>8. CASE Head(link[N]) # Terminate
    <3>1. At(<<"hand", 0>>)' \subseteq At(<<"hand", 0>>) \cup {cb}
      <4>1. InHand(0)' \subseteq {cb} BY <2>1, <2>2 DEF InHand
      <4> QED BY <4>1, <1>0, AtSpotNext
    <3>2. cb \in At(<<"link", N>>) /\ cb \notin At(<<"link", N>>)'
      BY <2>3, <2>8, <1>0, AtSpot, AtSpotNext
    <3>3. /\ <<"link", N>> # <<"hand", 0>>
          /\ <<"link", N>>[1] \in {"link", "hand"}
      OBVIOUS
    <3> QED BY <3>1, <3>2, <3>3, <2>5, <2>6, <1>3, <1>5, FromLink
  <2> QED BY <2>7, <2>8
<1>8. CASE RelayForward
  <2>1. /\ Send(0, held[0]) /\ pc[0] = "forward" /\ held' = held
        /\ pc'[0] \in {"last", "loop"}
    BY <1>0, <1>8 DEF RelayForward, GoTo, TypeOK
  <2>2. /\ InHand(0)' = {}
        /\ \A p \in Places : InHand(p)' \subseteq InHand(p)
    BY <2>1, <1>1, <1>2 DEF InHand
  <2>3. CASE held[0] = Terminate
    <3>1. \A l \in Places : /\ OnLink(l)' \subseteq OnLink(l)
                            /\ Distinct(link'[l], Terminate)
      BY <2>1, <2>3, <1>0, <1>4, TerminatePutOn
    <3>2. \A t \in Spots \ {} : At(t)' \subseteq At(t)
      BY <3>1, <2>2, <1>1, StayBut
    <3>3. Fitting BY <3>1, <1>6 DEF Fitting
    <3> QED BY <3>2, <3>3, <1>3, NoneMoves
  <2>4. CASE held[0] # Terminate
    <3>0. held[0] \in Messages BY <1>0 DEF TypeOK
    <3>1. PICK x \in Handlers : x = held[0].mc /\ held[0] = Channel(x)
      BY <3>0, <2>4, ChannelIs
    <3>2. x \in At(<<"hand", 0>>)
      <4>1. x \in InHand(0) BY <3>1, <2>1, <2>4 DEF InHand
      <4> QED BY <4>1, <1>0, AtSpot
    <3>3. x \notin At(<<"hand", 0>>)' BY <2>2, <1>0, AtSpotNext
    <3>4. /\ <<"link", 0>> # <<"hand", 0>>
          /\ <<"hand", 0>>[1] \in {"link", "hand"}
      OBVIOUS
    <3>5. x \notin OnLink(0)
      <4>1. x \notin At(<<"link", 0>>) BY <3>2, <3>4, <1>4, <1>5, Elsewhere
      <4> QED BY <4>1, <1>0, AtSpot
    <3>6. /\ \A l \in Places \ {0} : OnLink(l)' = OnLink(l)
          /\ OnLink(0)' = OnLink(0) \cup {x}
          /\ \A l \in Places : Distinct(link'[l], Terminate)
      BY <3>1, <3>5, <2>1, <1>0, <1>4, PutOn
    <3>7. \A t \in Spots \ {<<"link", 0>>} : At(t)' \subseteq At(t)
      BY <3>6, <2>2, <1>1, StayBut
    <3>8. At(<<"link", 0>>)' \subseteq At(<<"link", 0>>) \cup {x}
      BY <3>6, <1>0, AtSpot, AtSpotNext
    <3>9. Fitting BY <3>6, <1>6 DEF Fitting
    <3> QED BY <3>2, <3>3, <3>4, <3>7, <3>8, <3>9, <1>3, <1>5, FromLink
  <2> QED BY <2>3, <2>4
<1>9. CASE Last(0, N) \/ CloseOut(0, "exited")
  <2>1. /\ Receive(N) \/ link' = link
        /\ pc'[0] \in {"close", "exited"} /\ held' = held
    BY <1>0, <1>9 DEF Last, CloseOut, GoTo, TypeOK
  <2>2. \A l \in Places : /\ OnLink(l)' \subseteq OnLink(l)
                          /\ Distinct(link'[l], Terminate)
    BY <2>1, <1>0, <1>4, TakenOff, SameLinks
  <2>3. \A p \in Places : pc'[p] = pc[p] \/ pc'[p] \in {"close", "exited"}
    BY <2>1, <1>1, <1>2
  <2> QED BY <2>1, <2>2, <2>3, <1>1, QuietPlaced, SameLists
<1> QED BY <1>7, <1>8, <1>9 DEF RelayMessages

LEMMA PipelinePlaced ==
  ASSUME ServerInv, PlaceInv, Next, UNCHANGED <<serverVars, connVars, dataVars>>
  PROVE  PlaceInv'
<1>1. ASSUME NEW h \in Handlers, Handler(h) PROVE PlaceInv'
  <2>1. UNCHANGED <<link, pc, made, held, hin>>
    BY <1>1, HandlerFrame DEF ServerInv, linkVars, loopVars
  <2>2. UNCHANGED <<cbs, relay>> BY DEF serverVars
  <2> QED BY <2>1, <2>2, SameLinks, SameLists, QuietPlaced
<1> QED BY <1>1, LoopPlaced, RelayPlaced DEF Next

-----------------------------------------------------------------------------
(* One receiver: the steps of the servers *)

(* A callback on a list is nowhere else while no callback was listed again.*)
LEMMA OnList ==
  ASSUME OnePlace, NEW s \in Servers,
         ~Relists(s) \/ pc[s] \in {"select", "connected"},
         NEW x \in Items(cbs[s]), NEW u \in Spots, u # <<"list", s>>
  PROVE  x \notin At(u)
<1>1. <<"list", s>> \in Spots /\ At(<<"list", s>>) = Items(cbs[s]) BY AtSpot
<1>2. ~Relisted(<<"list", s>>, u) /\ ~Relisted(u, <<"list", s>>)
  BY DEF Relisted
<1> QED BY <1>1, <1>2 DEF OnePlace

(* A step of the server s changes its own part alone. *)
LEMMA OwnSpots ==
  ASSUME ServerInv, NEW s \in Servers,
         \/ made' = made
         \/ made' = [made EXCEPT ![s] = made[s] + 1],
         NEW state \in {"select", "connected", "relay", "join"},
         pc' = [pc EXCEPT ![s] = state],
         made' = made => state # "connected" \/ pc[s] = "connected",
         state \in {"select", "connected"} /\ Relists(s) =>
           pc[s] \in {"select", "connected"},
         held' = held
  PROVE  /\ Issues /\ Settles
         /\ \A p \in Places : InHand(p)' \subseteq InHand(p)
         /\ \A r \in Servers \ {s} : pc'[r] = pc[r]
         /\ pc'[s] = state
<1>1. s \in Modules /\ s \in Places /\ \A r \in Servers : r \in Places
  BY ServerPlace
<1>2. pc'[s] = state /\ \A p \in Places \ {s} : pc'[p] = pc[p]
  BY <1>1 DEF ServerInv, TypeOK
<1>3. \A p \in Places : InHand(p)' \subseteq InHand(p) BY <1>2 DEF InHand
<1>4. Settles BY <1>1, <1>2 DEF Settles
<1>5. /\ \A m \in Modules \ {s} : made'[m] = made[m] /\ m \in Places
      /\ made'[s] = made[s] \/ made'[s] = made[s] + 1
      /\ made' # made => made'[s] = made[s] + 1
  BY <1>1, PipelineAssumption DEF ServerInv, TypeOK
<1>6. Issues BY <1>1, <1>2, <1>5 DEF Issues
<1> QED BY <1>1, <1>2, <1>3, <1>4, <1>6

LEMMA SelectConnPlaced ==
  ASSUME ServerInv, PlaceInv, NEW s \in Servers, NEW c \in Conns, SelectConn(s, c)
  PROVE  PlaceInv'
<1>1. /\ pc[s] = "select" /\ pc' = [pc EXCEPT ![s] = "connected"]
      /\ made' = [made EXCEPT ![s] = made[s] + 1]
      /\ UNCHANGED <<link, held, hin, cbs, relay>>
  BY DEF SelectConn, NewStream, GoTo, linkVars, streamVars, serverVars
<1>2. made' # made
  <2>1. s \in Modules /\ made[s] \in Nat
    BY ServerPlace, PipelineAssumption DEF ServerInv, TypeOK
  <2>2. made'[s] = made[s] + 1 BY <1>1, <2>1 DEF ServerInv, TypeOK
  <2> QED BY <2>1, <2>2
<1>3. Issues /\ Settles /\ \A p \in Places : InHand(p)' \subseteq InHand(p)
  BY <1>1, <1>2, OwnSpots
<1>4. /\ \A l \in Places : OnLink(l)' \subseteq OnLink(l)
      /\ \A r \in Servers : Items(cbs'[r]) \subseteq Items(cbs[r])
      /\ Fitting
  BY <1>1, SameLinks, SameLists DEF Fitting
<1>5. \A t \in Spots \ {} : At(t)' \subseteq At(t)
  BY <1>1, <1>3, <1>4, StayBut
<1> QED BY <1>3, <1>4, <1>5, NoneMoves DEF ServerInv

(* The stream goes on the link, and a callback of the list into the pair. *)
LEMMA ConnectedPlaced ==
  ASSUME ServerInv, PlaceInv, NEW s \in Servers, Connected(s)
  PROVE  PlaceInv'
<1> USE DEF ServerInv
<1>0. /\ s \in Modules /\ s \in Places /\ pc[s] = "connected"
      /\ cbs[s] \in Seq(Handlers)
      /\ NoRepeats /\ OnePlace
  BY ServerPlace DEF Connected, ServerTypeOK, PlaceInv
<1>1. PICK x \in Handlers : x = Mc(s) /\ x[1] = s /\ x[2] = made[s]
  <2>1. made[s] # 0 BY <1>0 DEF Pairing, Waits
  <2> QED BY <2>1, <1>0, McType DEF Mc
<1>2. /\ <<"link", s>> \in Spots /\ <<"list", s>> \in Spots
      /\ <<"pair", s>> \in Spots
  BY <1>0, AtSpot
<1>3. \A t \in Spots : x \notin At(t)
  BY <1>0, <1>1 DEF PlaceInv, IssuedFirst, Issued
<1>4. /\ Send(s, Channel(x)) /\ UNCHANGED <<made, held, hin>>
      /\ cbs' = [cbs EXCEPT ![s] = RestOfCbs(s)]
  BY <1>1 DEF Connected, streamVars
<1>5. x \notin OnLink(s) BY <1>0, <1>2, <1>3, AtSpot
<1>6. /\ \A l \in Places \ {s} : OnLink(l)' = OnLink(l)
      /\ OnLink(s)' = OnLink(s) \cup {x}
      /\ \A l \in Places : Distinct(link'[l], Terminate)
  BY <1>0, <1>4, <1>5, PutOn
<1>7. \E state \in {"select", "relay"} : pc' = [pc EXCEPT ![s] = state]
  BY DEF Connected, GoTo
<1>8. /\ Issues /\ Settles
      /\ \A p \in Places : InHand(p)' \subseteq InHand(p)
  <2>1. PICK state \in {"select", "relay"} : pc' = [pc EXCEPT ![s] = state]
    BY <1>7
  <2> QED BY <2>1, <1>0, <1>4, OwnSpots
<1>9. /\ \A r \in Servers \ {s} : cbs'[r] = cbs[r]
      /\ cbs'[s] = RestOfCbs(s)
  BY <1>4 DEF ServerTypeOK
<1>10. At(<<"link", s>>)' \subseteq At(<<"link", s>>) \cup {x}
  BY <1>0, <1>6, AtSpot, AtSpotNext
<1>11. Issued(x)'
  <2>1. pc'[s] \in {"select", "relay"} BY <1>0, <1>7 DEF TypeOK
  <2>2. made[s] \in Nat BY <1>0, PipelineAssumption DEF TypeOK
  <2> QED BY <2>1, <2>2, <1>1, <1>4 DEF Issued
<1>12. /\ Items(RestOfCbs(s)) \subseteq Items(cbs[s])
       /\ Distinct(RestOfCbs(s), NoChannel)
  <2>1. CASE cbs[s] = <<>> BY <2>1 DEF RestOfCbs, Items, Distinct
  <2>2. CASE cbs[s] # <<>>
    <3>1. Distinct(cbs[s], NoChannel) BY <1>0 DEF NoRepeats
    <3> QED BY <2>2, <3>1, <1>0, TailItems DEF RestOfCbs
  <2> QED BY <2>1, <2>2
<1>13. Fitting
  BY <1>0, <1>6, <1>9, <1>12 DEF Fitting, NoRepeats
<1>14. \A r \in Servers : Items(cbs'[r]) \subseteq Items(cbs[r])
  BY <1>9, <1>12
<1>15. \A l \in Places : <<"link", l>> \in {<<"link", s>>} \/ OnLink(l)' \subseteq OnLink(l)
  BY <1>6
<1>16. CASE cbs[s] = <<>>
  <2>1. relay' = relay BY <1>16 DEF Connected
  <2>2. \A t \in Spots \ {<<"link", s>>} : At(t)' \subseteq At(t)
    BY <2>1, <1>4, <1>8, <1>14, <1>15, StayBut
  <2>3. \A t \in Spots \ {<<"link", s>>} : x \notin At(t)' BY <2>2, <1>3
  <2>4. {<<"link", s>>} \in SUBSET Spots BY <1>2
  <2>5. \A t \in {<<"link", s>>} : At(t)' \subseteq At(t) \cup {x} BY <1>10
  <2> QED BY <2>2, <2>3, <2>4, <2>5, <1>8, <1>11, <1>13, OneMoves
<1>17. CASE cbs[s] # <<>>
  <2>1. PICK cb : cb = Head(cbs[s]) OBVIOUS
  <2>2. /\ relay'[s].cb = cb
        /\ \A r \in Servers \ {s} : relay'[r] = relay[r]
    BY <2>1, <1>17 DEF Connected, ServerTypeOK
  <2>3. cb \in Handlers /\ cb \in Items(cbs[s]) /\ cb \notin Items(cbs'[s])
    <3>1. Distinct(cbs[s], NoChannel) BY <1>0 DEF NoRepeats
    <3>2. cb \in Handlers BY <2>1, <1>0, <1>17
    <3>3. cb \in Items(cbs[s]) /\ cb \notin Items(Tail(cbs[s]))
      BY <2>1, <3>1, <3>2, <1>0, <1>17, TailItems, ChannelIs
    <3> QED BY <3>2, <3>3, <1>9, <1>17 DEF RestOfCbs
  <2>4. At(<<"pair", s>>)' \subseteq {cb} BY <2>2, AtSpotNext
  <2>5. /\ cb \notin At(<<"list", s>>)' /\ cb # x
    <3>1. x \notin Items(cbs[s]) BY <1>2, <1>3, AtSpot
    <3> QED BY <3>1, <2>3, AtSpotNext
  <2>6. \A t \in Spots \ {<<"link", s>>, <<"pair", s>>} : At(t)' \subseteq At(t)
    BY <2>2, <1>4, <1>8, <1>14, <1>15, StayBut
  <2>7. ASSUME NEW t \in Spots, t # <<"link", s>> PROVE x \notin At(t)'
    BY <2>4, <2>5, <2>6, <2>7, <1>3
  <2>8. ASSUME NEW t \in Spots, t # <<"pair", s>> PROVE cb \notin At(t)'
    <3>1. CASE t = <<"list", s>> BY <3>1, <2>5
    <3>2. CASE t # <<"list", s>>
      <4>1. cb \notin At(t) BY <3>2, <2>3, <1>0, OnList
      <4> QED BY <4>1, <2>5, <2>6, <2>8, <1>10
    <3> QED BY <3>1, <3>2
  <2>9. <<"link", s>> # <<"pair", s>> OBVIOUS
  <2>10. ASSUME NEW t \in Spots, NEW u \in Spots, t # u
         PROVE  (At(t)' \ At(t)) \cap At(u)' = {}
    <3>1. CASE t = <<"link", s>> BY <3>1, <1>10, <2>7, <2>10
    <3>2. CASE t = <<"pair", s>> BY <3>2, <2>4, <2>8, <2>10
    <3>3. CASE t # <<"link", s>> /\ t # <<"pair", s>>
      <4>1. At(t)' \subseteq At(t) BY <3>3, <2>6
      <4> QED BY <4>1
    <3> QED BY <3>1, <3>2, <3>3
  <2>11. Issued(cb)'
    <3>1. cb \in At(<<"list", s>>) BY <2>3, AtSpot
    <3>2. Issued(cb) BY <3>1, <1>2 DEF PlaceInv, IssuedFirst
    <3> QED BY <3>2, <1>8, StaysIssued DEF Issues
  <2>12. ASSUME NEW t \in Spots, NEW y \in At(t)' \ At(t) PROVE Issued(y)'
    <3>1. CASE t = <<"link", s>> BY <3>1, <1>10, <1>11, <2>12
    <3>2. CASE t = <<"pair", s>> BY <3>2, <2>4, <2>11, <2>12
    <3>3. CASE t # <<"link", s>> /\ t # <<"pair", s>> BY <3>3, <2>6, <2>12
    <3> QED BY <3>1, <3>2, <3>3
  <2> QED BY <2>10, <2>12, <1>8, <1>13, MovesOn
<1> QED BY <1>16, <1>17

(* A callback goes from the link on the list, into the pair, or to both. *)
LEMMA SelectCallbackPlaced ==
  ASSUME ServerInv, PlaceInv, NEW s \in Servers, SelectCallback(s)
  PROVE  PlaceInv'
<1> USE DEF ServerInv
<1>0. /\ s \in Modules /\ s \in Places /\ s - 1 \in Places /\ pc[s] = "select"
      /\ cbs[s] \in Seq(Handlers)
      /\ NoRepeats /\ OnePlace
  BY ServerPlace DEF SelectCallback, ServerTypeOK, PlaceInv
<1>1. PICK cb : cb = Head(link[s - 1]).mc OBVIOUS
<1>2. /\ Receive(s - 1) /\ Head(link[s - 1]) # Terminate
      /\ UNCHANGED <<made, held, hin>>
  BY DEF SelectCallback, IsCallback, streamVars
<1>3. /\ \A l \in Places : OnLink(l)' \subseteq OnLink(l)
      /\ \A l \in Places : Distinct(link'[l], Terminate)
      /\ cb \in OnLink(s - 1) /\ cb \notin OnLink(s - 1)'
  BY <1>0, <1>1, <1>2, TakenOff
<1>4. /\ <<"link", s - 1>> \in Spots /\ <<"list", s>> \in Spots
      /\ <<"pair", s>> \in Spots
      /\ cb \in At(<<"link", s - 1>>) /\ cb \notin At(<<"link", s - 1>>)'
  BY <1>0, <1>3, AtSpot, AtSpotNext
<1>5. /\ <<"link", s - 1>> # <<"list", s>> /\ <<"link", s - 1>> # <<"pair", s>>
      /\ <<"link", s - 1>>[1] \in {"link", "hand"}
  OBVIOUS
<1>6. \A t \in Spots \ {<<"link", s - 1>>} : cb \notin At(t)
  BY <1>0, <1>4, <1>5, Elsewhere
<1>7. /\ cb \in Handlers /\ cb \notin Items(cbs[s])
  <2>1. cb \in Handlers BY <1>3 DEF OnLink
  <2> QED BY <2>1, <1>4, <1>5, <1>6, AtSpot
<1>8. /\ Items(Append(cbs[s], cb)) = Items(cbs[s]) \cup {cb}
      /\ Distinct(Append(cbs[s], cb), NoChannel)
      /\ \A r \in Servers : Distinct(cbs[r], NoChannel)
  <2>1. \A r \in Servers : Distinct(cbs[r], NoChannel) BY <1>0 DEF NoRepeats
  <2> QED BY <2>1, <1>0, <1>7, AppendItems
<1>9. \E state \in {"select", "relay"} : pc' = [pc EXCEPT ![s] = state]
  <2>1. CASE mcs[s] = <<>>
    <3>1. pc' = pc BY <2>1 DEF SelectCallback
    <3>2. pc' = [pc EXCEPT ![s] = "select"] BY <3>1, <1>0 DEF TypeOK
    <3> QED BY <3>2
  <2>2. CASE mcs[s] # <<>> BY <2>2 DEF SelectCallback, GoTo
  <2> QED BY <2>1, <2>2
<1>10. /\ Issues /\ Settles
       /\ \A p \in Places : InHand(p)' \subseteq InHand(p)
  <2>1. PICK state \in {"select", "relay"} : pc' = [pc EXCEPT ![s] = state]
    BY <1>9
  <2> QED BY <2>1, <1>0, <1>2, OwnSpots
<1>11. \A r \in Servers \ {s} : cbs'[r] = cbs[r] /\ relay'[r] = relay[r]
  <2>1. /\ \E q : cbs' = [cbs EXCEPT ![s] = q]
        /\ relay' = relay \/ \E pair : relay' = [relay EXCEPT ![s] = pair]
    <3>1. CASE mcs[s] = <<>> BY <3>1 DEF SelectCallback
    <3>2. CASE mcs[s] # <<>> BY <3>2 DEF SelectCallback
    <3> QED BY <3>1, <3>2
  <2> QED BY <2>1 DEF ServerTypeOK
(* On the list only *)
<1>12. CASE mcs[s] = <<>>
  <2>1. relay' = relay /\ cbs'[s] = Append(cbs[s], cb)
    BY <1>1, <1>12 DEF SelectCallback, ServerTypeOK
  <2>2. \A r \in Servers : <<"list", r>> \in {<<"list", s>>}
                           \/ Items(cbs'[r]) \subseteq Items(cbs[r])
    BY <1>11
  <2>3. \A t \in Spots \ {<<"list", s>>} : At(t)' \subseteq At(t)
    BY <2>1, <2>2, <1>2, <1>3, <1>10, StayBut
  <2>4. At(<<"list", s>>)' \subseteq At(<<"list", s>>) \cup {cb}
    BY <2>1, <1>8, AtSpot, AtSpotNext
  <2>5. Fitting
    <3>1. \A r \in Servers : Distinct(cbs'[r], NoChannel) BY <2>1, <1>8, <1>11
    <3> QED BY <3>1, <1>3 DEF Fitting
  <2> QED BY <2>3, <2>4, <2>5, <1>4, <1>5, <1>10, FromLink
(* Into the pair only *)
<1>13. CASE mcs[s] # <<>> /\ ~Relists(s)
  <2>1. /\ relay'[s].cb = cb /\ cbs'[s] = cbs[s]
    BY <1>1, <1>13 DEF SelectCallback, HandedOver, Relists, ServerTypeOK
  <2>2. \A r \in Servers : /\ Items(cbs'[r]) \subseteq Items(cbs[r])
                           /\ \/ <<"pair", r>> \in {<<"pair", s>>}
                              \/ relay'[r].cb \in {relay[r].cb, NoChannel}
    <3>1. \A r \in Servers : cbs'[r] = cbs[r] BY <2>1, <1>11
    <3> QED BY <3>1, <1>11
  <2>3. \A t \in Spots \ {<<"pair", s>>} : At(t)' \subseteq At(t)
    BY <2>2, <1>2, <1>3, <1>10, StayBut
  <2>4. At(<<"pair", s>>)' \subseteq At(<<"pair", s>>) \cup {cb}
    BY <2>1, AtSpotNext
  <2>5. Fitting
    <3>1. \A r \in Servers : Distinct(cbs'[r], NoChannel) BY <2>1, <1>8, <1>11
    <3> QED BY <3>1, <1>3 DEF Fitting
  <2> QED BY <2>3, <2>4, <2>5, <1>4, <1>5, <1>10, FromLink
(* Into the pair and on the list *)
<1>14. CASE mcs[s] # <<>> /\ Relists(s)
  <2>1. /\ relay'[s].cb = cb /\ cbs'[s] = Append(cbs[s], cb)
        /\ pc'[s] = "relay"
    <3>1. /\ relay' = [relay EXCEPT ![s] = [cb |-> cb, mc |-> Head(mcs[s])]]
          /\ cbs' = [cbs EXCEPT ![s] = HandedOver(s, cb)]
          /\ pc' = [pc EXCEPT ![s] = "relay"]
      BY <1>1, <1>14 DEF SelectCallback, GoTo
    <3>2. HandedOver(s, cb) = Append(cbs[s], cb)
      BY <1>14 DEF HandedOver, Relists
    <3>3. relay'[s].cb = cb BY <3>1 DEF ServerTypeOK
    <3>4. cbs'[s] = Append(cbs[s], cb) BY <3>1, <3>2 DEF ServerTypeOK
    <3>5. pc'[s] = "relay" BY <3>1, <1>0 DEF TypeOK
    <3> QED BY <3>3, <3>4, <3>5
  <2> DEFINE both == {<<"list", s>>, <<"pair", s>>}
  <2>2. \A r \in Servers : /\ \/ <<"list", r>> \in both
                              \/ Items(cbs'[r]) \subseteq Items(cbs[r])
                           /\ \/ <<"pair", r>> \in both
                              \/ relay'[r].cb \in {relay[r].cb, NoChannel}
    BY <1>11
  <2>3. \A t \in Spots \ both : At(t)' \subseteq At(t)
    <3> HIDE DEF both
    <3> QED BY <2>2, <1>2, <1>3, <1>10, StayBut
  <2>4. /\ At(<<"list", s>>)' \subseteq At(<<"list", s>>) \cup {cb}
        /\ At(<<"pair", s>>)' \subseteq At(<<"pair", s>>) \cup {cb}
    BY <2>1, <1>8, AtSpot, AtSpotNext
  <2>5. Fitting
    <3>1. \A r \in Servers : Distinct(cbs'[r], NoChannel) BY <2>1, <1>8, <1>11
    <3> QED BY <3>1, <1>3 DEF Fitting
  <2>6. Relisted(<<"list", s>>, <<"pair", s>>)'
    BY <2>1, <1>14 DEF Relisted, Relists
  <2>7. both \in SUBSET Spots BY <1>4
  <2>8. \A t \in Spots \ both : cb \notin At(t)' BY <2>3, <1>4, <1>6
  <2>9. \A t \in both : At(t)' \subseteq At(t) \cup {cb} BY <2>4
  <2>10. \A t, u \in both : t = u \/ Relisted(t, u)' \/ Relisted(u, t)'
    BY <2>6
  <2>11. Issued(cb)'
    <3>1. Issued(cb) BY <1>4 DEF PlaceInv, IssuedFirst
    <3> QED BY <3>1, <1>10, StaysIssued DEF Issues
  <2> HIDE DEF both
  <2> QED BY <2>3, <2>5, <2>7, <2>8, <2>9, <2>10, <2>11, <1>10, OneMoves
<1> QED BY <1>12, <1>13, <1>14

(* The callback of the pair goes to the handler of its stream. *)
LEMMA RelayedPlaced ==
  ASSUME ServerInv, PlaceInv, NEW s \in Servers, NEW c \in Conns,
         c[1] = s, Relayed(s, c)
  PROVE  PlaceInv'
<1> USE DEF ServerInv
<1>0. /\ s \in Modules /\ s \in Places /\ pc[s] = "relay"
      /\ NoRepeats /\ OnePlace
  BY ServerPlace DEF Relayed, PlaceInv
<1>1. PICK h \in Handlers : h = relay[s].mc /\ h[1] = s
  BY RelayedFrame, OfServer
<1>2. PICK cb : cb = relay[s].cb OBVIOUS
<1>3. /\ hin' = [hin EXCEPT ![h] = cb]
      /\ relay' = [relay EXCEPT ![s] = NoRelay]
      /\ UNCHANGED <<link, made, held, cbs>>
      /\ pc' = [pc EXCEPT ![s] = IF LastStream THEN "join" ELSE "select"]
  BY <1>1, <1>2 DEF Relayed, GoTo, linkVars
<1>4. /\ \A g \in Handlers : hin'[g] = IF g = h THEN cb ELSE hin[g]
      /\ relay'[s].cb = NoChannel
      /\ \A r \in Servers \ {s} : relay'[r] = relay[r]
  BY <1>3 DEF TypeOK, ServerTypeOK, NoRelay
<1>5. /\ Issues /\ Settles
      /\ \A p \in Places : InHand(p)' \subseteq InHand(p)
      /\ LastStream => pc'[s] = "join"
  <2>1. CASE LastStream BY <2>1, <1>0, <1>3, OwnSpots
  <2>2. CASE ~LastStream BY <2>2, <1>0, <1>3, OwnSpots DEF Relists
  <2> QED BY <2>1, <2>2
<1>6. /\ <<"in", h>> \in Spots /\ <<"list", s>> \in Spots
      /\ <<"pair", s>> \in Spots
      /\ At(<<"pair", s>>) = {cb} \ {NoChannel}
      /\ At(<<"pair", s>>)' = {}
      /\ At(<<"in", h>>)' = {cb} \ {NoChannel}
      /\ At(<<"list", s>>)' = At(<<"list", s>>)
  BY <1>2, <1>3, <1>4, AtSpot, AtSpotNext
<1>7. \A t \in Spots \ {<<"in", h>>} : At(t)' \subseteq At(t)
  <2>1. /\ \A l \in Places : OnLink(l)' \subseteq OnLink(l)
        /\ \A r \in Servers : Items(cbs'[r]) \subseteq Items(cbs[r])
    BY <1>3, SameLinks DEF Items
  <2>2. \A r \in Servers : relay'[r].cb \in {relay[r].cb, NoChannel} BY <1>4
  <2> QED BY <2>1, <2>2, <1>4, <1>5, StayBut
<1>8. Fitting BY <1>3, <1>0 DEF Fitting, NoRepeats
<1>9. CASE cb = NoChannel
  <2>1. \A t \in Spots : At(t)' \subseteq At(t) BY <1>6, <1>7, <1>9
  <2> QED BY <2>1, <1>5, <1>8, NoneMoves
<1>10. CASE cb # NoChannel
  <2>1. Issued(cb)'
    <3>1. Issued(cb) BY <1>6, <1>10 DEF PlaceInv, IssuedFirst
    <3> QED BY <3>1, <1>5, StaysIssued DEF Issues
  <2>2. \A t \in Spots :
          cb \in At(t) => t = <<"pair", s>> \/ (t = <<"list", s>> /\ Relists(s))
    <3>1. ASSUME NEW t \in Spots, cb \in At(t), t # <<"pair", s>>
          PROVE  t = <<"list", s>> /\ Relists(s)
      <4>1. Relisted(t, <<"pair", s>>) \/ Relisted(<<"pair", s>>, t)
        BY <3>1, <1>0, <1>6, <1>10 DEF OnePlace
      <4>2. t[1] = "list" /\ Relists(t[2]) /\ t[2] = s
        BY <4>1 DEF Relisted
      <4> QED BY <4>2, SpotOf
    <3> QED BY <3>1
  <2> DEFINE both == {<<"in", h>>} \cup (IF Relists(s) THEN {<<"list", s>>} ELSE {})
  <2>3. both \in SUBSET Spots BY <1>6
  <2>4. \A t \in Spots \ both : At(t)' \subseteq At(t) /\ cb \notin At(t)'
    BY <2>2, <1>6, <1>7
  <2>5. \A t \in both : At(t)' \subseteq At(t) \cup {cb}
    BY <1>6
  <2>6. Relists(s) => Relisted(<<"list", s>>, <<"in", h>>)'
    BY <1>1, <1>5 DEF Relisted, Relists
  <2>7. \A t, u \in both : t = u \/ Relisted(t, u)' \/ Relisted(u, t)'
    BY <2>6
  <2> HIDE DEF both
  <2> QED BY <2>1, <2>3, <2>4, <2>5, <2>7, <1>5, <1>8, OneMoves
<1> QED BY <1>9, <1>10

LEMMA ServerPlaced ==
  ASSUME ServerInv, PlaceInv, NEW s \in Servers, Tick(s) \/ Server(s)
  PROVE  PlaceInv'
<1> USE DEF ServerInv
<1>0. /\ s \in Modules /\ s \in Places /\ s - 1 \in Places /\ NoRepeats
      /\ \A r \in Servers : Distinct(cbs[r], NoChannel)
  BY ServerPlace DEF PlaceInv, NoRepeats
<1>1. CASE \/ Tick(s) \/ SelectTick(s) \/ Shut(s) \/ ShutChannels(s)
           \/ \E g \in Handlers : DrainPayload(s, g)
  <2>1. /\ UNCHANGED <<link, hin, held, made, cbs, relay>>
        /\ \/ pc' = pc
           \/ \E state \in {"join", "callbacks", "last"} :
                pc' = [pc EXCEPT ![s] = state]
    BY <1>1 DEF Tick, SelectTick, Shut, ShutChannels, DrainPayload, GoTo,
                vars, linkVars, loopVars, streamVars, serverVars
  <2>2. \A p \in Places : pc'[p] = pc[p] \/ pc'[p] \in {"join", "callbacks", "last"}
    BY <2>1, <1>0 DEF TypeOK
  <2> QED BY <2>1, <2>2, SameLinks, SameLists, QuietPlaced
<1>2. CASE DrainedCallback(s)
  <2>1. /\ UNCHANGED <<link, hin, held, made, relay, pc>>
        /\ cbs[s] # <<>> /\ cbs[s] \in Seq(Handlers)
        /\ cbs'[s] = Tail(cbs[s])
        /\ \A r \in Servers \ {s} : cbs'[r] = cbs[r]
    BY <1>2 DEF DrainedCallback, vars, linkVars, loopVars, streamVars, ServerTypeOK
  <2>2. /\ Items(Tail(cbs[s])) \subseteq Items(cbs[s])
        /\ Distinct(Tail(cbs[s]), NoChannel)
    BY <2>1, <1>0, TailItems
  <2>3. \A r \in Servers : /\ Items(cbs'[r]) \subseteq Items(cbs[r])
                           /\ Distinct(cbs'[r], NoChannel)
                           /\ relay'[r] = relay[r]
    BY <2>1, <2>2, <1>0
  <2> QED BY <2>1, <2>3, SameLinks, QuietPlaced
<1>3. CASE \/ SelectTerminate(s)
           \/ /\ \/ Join(s, "join", "terminate") \/ SendTerminate(s, "shut")
                 \/ Last(s, s - 1) \/ CloseOut(s, "done")
              /\ UNCHANGED <<serverVars, connVars, dataVars>>
  <2>1. /\ UNCHANGED <<hin, held, made, cbs, relay>>
        /\ \/ link' = link
           \/ Receive(s - 1) \/ Send(s, Terminate)
        /\ \E state \in {"join", "terminate", "shut", "close", "done"} :
             pc' = [pc EXCEPT ![s] = state]
    BY <1>3 DEF SelectTerminate, Join, SendTerminate, Last, CloseOut, GoTo,
                linkVars, streamVars, serverVars
  <2>2. \A p \in Places :
          \/ pc'[p] = pc[p]
          \/ pc'[p] \in {"join", "terminate", "shut", "close", "done"}
    BY <2>1, <1>0 DEF TypeOK
  <2>3. \A l \in Places : /\ OnLink(l)' \subseteq OnLink(l)
                          /\ Distinct(link'[l], Terminate)
    BY <2>1, <1>0, SameLinks, TakenOff, TerminatePutOn
  <2> QED BY <2>1, <2>2, <2>3, SameLists, QuietPlaced
<1>4. ASSUME NEW c \in Conns, c[1] = s, SelectConn(s, c) \/ Relayed(s, c)
      PROVE  PlaceInv'
  BY <1>4, SelectConnPlaced, RelayedPlaced
<1> QED BY <1>1, <1>2, <1>3, <1>4, ConnectedPlaced, SelectCallbackPlaced
        DEF Server, Select, WindDown

LEMMA PlaceKept ==
  ASSUME ServerInv, PlaceInv, ServerNext
  PROVE  PlaceInv'
<1>1. CASE Next /\ UNCHANGED <<serverVars, connVars, dataVars>>
  BY <1>1, PipelinePlaced
<1>2. ASSUME NEW c \in Conns, Accept(c) \/ Conn(c)
      PROVE  PlaceInv'
  <2>1. UNCHANGED <<link, hin, held, made, pc, cbs, relay>>
    BY <1>2 DEF Accept, Conn, Reserve, Refused, TryDefault, GiveUp, OfferClosed,
                Served, Leave, vars, linkVars, loopVars, streamVars, serverVars
  <2> QED BY <2>1, SameLinks, SameLists, QuietPlaced
<1>3. ASSUME NEW h \in ServerHandlers, ReadLoop(h) \/ WriteLoop(h) \/ ClientStep(h)
      PROVE  PlaceInv'
  <2>0. h \in Handlers BY OfServer
  <2>1. ASSUME NEW g \in Handlers, Transfer(g, h)
        PROVE  UNCHANGED <<link, hin, held, made, pc>>
    BY <2>0, <2>1, TransferFrame DEF ServerInv, linkVars, loopVars
  <2>2. Start(h) \/ SendClosed(h) \/ InputClosed(h) \/ CloseOutc(h) \/ Done(h)
        => UNCHANGED <<link, hin, held, made, pc>>
    BY DEF Start, SendClosed, InputClosed, CloseOutc, Done, linkVars,
                loopVars, streamVars
  <2>3. \/ ServerCallback(h) \/ HandshakeFails(h) \/ StartWriter(h)
        \/ ReadConn(h) \/ ReadConnEnd(h) \/ ClientGone(h) \/ WriteLoop(h)
        => UNCHANGED <<link, hin, held, made, pc>>
    BY DEF ServerCallback, HandshakeFails, StartWriter, ReadConn,
                ReadConnEnd, ClientGone, WriteLoop, WriterRecv, WriteConn,
                WriterEnd, vars, linkVars, loopVars, streamVars
  <2>4. UNCHANGED <<link, hin, held, made, pc>>
    BY <1>3, <2>1, <2>2, <2>3 DEF ReadLoop, ClientStep
  <2>5. UNCHANGED <<cbs, relay>>
    BY <1>3 DEF ReadLoop, ClientStep, ServerCallback, HandshakeFails,
                StartWriter, ReadConn, ReadConnEnd, ClientGone, WriteLoop,
                WriterRecv, WriteConn, WriterEnd, serverVars
  <2> QED BY <2>4, <2>5, SameLinks, SameLists, QuietPlaced
<1> QED BY <1>1, <1>2, <1>3, ServerPlaced DEF ServerNext

-----------------------------------------------------------------------------
(* One receiver: who it is *)

LEMMA HttpKind ==
  ASSUME NEW h \in ServerHandlers, OneGoroutine(h)
  PROVE  KindOf(h).enter = {"read"} /\ KindOf(h) # TlsSide
BY DEF OneGoroutine, HttpSide, ServerSide, TlsSide, Upper

LEMMA HandlerReceives ==
  ASSUME ServerInv, ReceivesAlone, NEW h \in ServerHandlers,
         ReadLoop(h) \/ WriteLoop(h) \/ ClientStep(h)
  PROVE  ReceivesAlone'
<1>0. h \in Handlers BY OfServer
<1>1. UNCHANGED <<hin, serves>>
  <2>1. ASSUME NEW g \in Handlers, Transfer(g, h) PROVE hin' = hin
    BY <1>0, <2>1, TransferFrame DEF ServerInv
  <2>2. \/ Start(h) \/ SendClosed(h) \/ InputClosed(h) \/ CloseOutc(h) \/ Done(h)
        \/ ServerCallback(h) \/ HandshakeFails(h) \/ StartWriter(h)
        \/ ReadConn(h) \/ ReadConnEnd(h) \/ ClientGone(h) \/ WriteLoop(h)
        => hin' = hin
    BY DEF Start, SendClosed, InputClosed, CloseOutc, Done, ServerCallback,
           HandshakeFails, StartWriter, ReadConn, ReadConnEnd, ClientGone,
           WriteLoop, WriterRecv, WriteConn, WriterEnd, vars, streamVars
  <2>3. serves' = serves
    BY DEF ReadLoop, ClientStep, ServerCallback, HandshakeFails,
           StartWriter, ReadConn, ReadConnEnd, ClientGone, WriteLoop,
           WriterRecv, WriteConn, WriterEnd, connVars
  <2> QED BY <2>1, <2>2, <2>3 DEF ReadLoop, ClientStep
<1>2. \/ wpc' = wpc
      \/ /\ \E state : wpc' = [wpc EXCEPT ![h] = state]
         /\ OneGoroutine(h) => wpc'[h] = "idle"
  <2>1. CASE ServerCallback(h)
    <3>1. PICK next \in KindOf(h).enter :
            wpc' = [wpc EXCEPT ![h] = WriterAfter(h, next)]
      BY <2>1 DEF ServerCallback
    <3>2. OneGoroutine(h) => WriterAfter(h, next) = "idle"
      BY <3>1, HttpKind DEF WriterAfter
    <3> QED BY <3>1, <3>2, <1>0 DEF ServerInv, ServerTypeOK
  <2>2. CASE StartWriter(h)
    <3>1. ~OneGoroutine(h) BY <2>2, HttpKind DEF StartWriter
    <3> QED BY <3>1, <2>2 DEF StartWriter
  <2>3. CASE WriteLoop(h)
    <3>1. wpc[h] # "idle" /\ \E state : wpc' = [wpc EXCEPT ![h] = state]
      BY <2>3 DEF WriteLoop, WriterRecv, WriteConn, WriterEnd
    <3> QED BY <3>1 DEF ReceivesAlone
  <2>4. CASE /\ ReadLoop(h) \/ ClientStep(h)
             /\ ~ServerCallback(h) /\ ~StartWriter(h)
    BY <2>4 DEF ReadLoop, ClientStep, HandshakeFails, ReadConn, ReadConnEnd,
                ClientGone, dataVars
  <2> QED BY <2>1, <2>2, <2>3, <2>4
<1>3. \A g : Taken(g)' <=> Taken(g) BY <1>1 DEF Taken
<1>4. \A g \in ServerHandlers : OneGoroutine(g) => wpc'[g] = "idle"
  BY <1>2, OfServer DEF ReceivesAlone, ServerInv, ServerTypeOK
<1> QED BY <1>1, <1>3, <1>4 DEF ReceivesAlone, OneGoroutine, KindOf

LEMMA ReceivesKept ==
  ASSUME ServerInv, ReceivesAlone, ServerNext
  PROVE  ReceivesAlone'
<1> USE DEF ServerInv
<1>1. ASSUME \A h \in ServerHandlers : hin'[h] = hin[h], UNCHANGED <<serves, wpc>>
      PROVE  ReceivesAlone'
  BY <1>1 DEF ReceivesAlone, Taken, OneGoroutine, KindOf
<1>2. CASE Next /\ UNCHANGED <<serverVars, connVars, dataVars>>
  BY <1>1, <1>2, PipelineFrame DEF connVars, dataVars
<1>3. ASSUME NEW s \in Servers, NEW c \in Conns, c[1] = s, Relayed(s, c)
      PROVE  ReceivesAlone'
  <2>1. PICK h \in ServerHandlers : h = relay[s].mc BY <1>3, RelayedFrame
  <2>2. /\ wpc' = wpc /\ \A g \in Handlers : Taken(g)' <=> Taken(g) \/ g = h
        /\ hin' = [hin EXCEPT ![h] = relay[s].cb]
    BY <1>3, <2>1, RelayedFrame DEF Relayed
  <2>3. \A g \in ServerHandlers : g \in Handlers /\ (g # h => hin'[g] = hin[g])
    BY <2>2, OfServer DEF TypeOK
  <2> QED BY <2>2, <2>3 DEF ReceivesAlone, OneGoroutine, KindOf
<1>4. ASSUME NEW s \in Servers, Tick(s) \/ Server(s),
             ~\E c \in Conns : c[1] = s /\ Relayed(s, c)
      PROVE  ReceivesAlone'
  <2>1. UNCHANGED <<hin, serves, wpc>>
    BY <1>4 DEF Tick, Server, Select, WindDown, SelectTick, SelectConn,
                Connected, SelectCallback, SelectTerminate, Shut, DrainPayload,
                DrainedCallback, ShutChannels, Join, SendTerminate, Last,
                CloseOut, vars, streamVars, connVars, dataVars
  <2> QED BY <2>1, <1>1
<1>5. ASSUME NEW c \in Conns, Accept(c) \/ Conn(c) PROVE ReceivesAlone'
  <2>1. UNCHANGED <<hin, serves, wpc>>
    BY <1>5 DEF Accept, Conn, Reserve, Refused, TryDefault, GiveUp, OfferClosed,
                Served, Leave, vars, streamVars, dataVars
  <2> QED BY <2>1, <1>1
<1> QED BY <1>2, <1>3, <1>4, <1>5, HandlerReceives DEF ServerNext

LEMMA ReceiverInitially ==
  ASSUME ServerInit
  PROVE  ReceiverInv
<1>1. /\ \A l \in Places : Items(link[l]) = {} /\ Distinct(link[l], Terminate)
      /\ \A s \in Servers : Items(cbs[s]) = {} /\ Distinct(cbs[s], NoChannel)
  BY DEF ServerInit, Init, Items, Distinct
<1>2. /\ \A p \in Places : InHand(p) = {} /\ OnLink(p) = {}
      /\ \A s \in Servers : relay[s].cb = NoChannel
      /\ \A h \in Handlers : hin[h] = NoChannel /\ wpc[h] = "idle"
  BY <1>1 DEF ServerInit, Init, InHand, OnLink, NoRelay
<1>3. ASSUME NEW t \in Spots PROVE At(t) = {}
  <2>1. \A l \in Places : At(<<"link", l>>) = {} /\ At(<<"hand", l>>) = {}
    BY <1>2, AtSpot
  <2>2. \A s \in Servers : At(<<"list", s>>) = {} /\ At(<<"pair", s>>) = {}
    BY <1>1, <1>2, AtSpot
  <2>3. \A h \in Handlers : At(<<"in", h>>) = {}
    BY <1>2, AtSpot
  <2> QED BY <2>1, <2>2, <2>3, SpotOf
<1>4. NoRepeats BY <1>1 DEF NoRepeats
<1>5. OnePlace /\ IssuedFirst BY <1>3 DEF OnePlace, IssuedFirst
<1>6. ReceivesAlone BY <1>2, OfServer DEF ReceivesAlone
<1> QED BY <1>4, <1>5, <1>6 DEF ReceiverInv

(* A channel that is on a server's list and with a handler at once was     *)
(* listed again by http-server, whose one handler is done by then.         *)
LEMMA OneReceives ==
  ASSUME ServerInv, EndInv, ReceiverInv
  PROVE  SingleReceiver
<1>1. ASSUME NEW g \in Handlers, NEW h \in Handlers, hin[g] = hin[h],
             hin[g] # NoChannel
      PROVE  g = h
  <2>1. /\ <<"in", g>> \in Spots /\ <<"in", h>> \in Spots
        /\ hin[g] \in At(<<"in", g>>) /\ hin[g] \in At(<<"in", h>>)
    BY <1>1, AtSpot
  <2>2. ~Relisted(<<"in", g>>, <<"in", h>>) /\ ~Relisted(<<"in", h>>, <<"in", g>>)
    BY DEF Relisted
  <2>3. <<"in", g>> = <<"in", h>> BY <2>1, <2>2 DEF ReceiverInv, OnePlace
  <2> QED BY <2>3
<1>2. ASSUME NEW s \in Servers, NEW i \in 1..Len(cbs[s]), NEW h \in Handlers,
             pc[s] \in {"shut", "callbacks"}, hin[h] = cbs[s][i]
      PROVE  hpc[h] = "done" /\ wpc[h] \in {"idle", "done"}
  <2>1. cbs[s][i] \in Handlers /\ cbs[s][i] \in Items(cbs[s])
    <3>1. cbs[s] \in Seq(Handlers) BY DEF ServerInv, ServerTypeOK
    <3> QED BY <3>1 DEF Items
  <2>2. /\ <<"list", s>> \in Spots /\ <<"in", h>> \in Spots
        /\ hin[h] \in At(<<"list", s>>) /\ hin[h] \in At(<<"in", h>>)
        /\ hin[h] # NoChannel
    <3>1. hin[h] # NoChannel BY <1>2, <2>1, ChannelIs
    <3>2. <<"list", s>> \in Spots /\ At(<<"list", s>>) = Items(cbs[s]) BY AtSpot
    <3>3. <<"in", h>> \in Spots /\ At(<<"in", h>>) = {hin[h]} \ {NoChannel}
      BY AtSpot
    <3> QED BY <1>2, <2>1, <3>1, <3>2, <3>3
  <2>3. Relisted(<<"list", s>>, <<"in", h>>)
    <3>1. <<"list", s>> # <<"in", h>> /\ ~Relisted(<<"in", h>>, <<"list", s>>)
      BY DEF Relisted
    <3> QED BY <3>1, <2>2 DEF ReceiverInv, OnePlace
  <2>4. h[1] = s /\ Kind[s] = HttpSide BY <2>3 DEF Relisted, Relists
  <2>5. h \in ServerHandlers BY <2>4, ServerPlace DEF ServerHandlers
  <2>6. Taken(h) /\ wpc[h] = "idle"
    BY <2>2, <2>4, <2>5 DEF ReceiverInv, ReceivesAlone, OneGoroutine, KindOf
  <2>7. wg[s] = {} BY <1>2 DEF EndInv, WoundDown, Past
  <2>8. hpc[h] # "idle" /\ (hpc[h] \notin {"idle", "done"} => h \in wg[s])
    BY <2>4, <2>5, <2>6 DEF EndInv, Works
  <2> QED BY <2>6, <2>7, <2>8
<1> QED BY <1>1, <1>2 DEF SingleReceiver

LEMMA ReceiverKept ==
  ServerInv /\ ReceiverInv /\ [ServerNext \/ ServerStopped]_allVars
  => ReceiverInv'
<1> SUFFICES ASSUME ServerInv, ReceiverInv, ServerNext \/ UNCHANGED allVars
             PROVE  ReceiverInv'
  BY DEF ServerStopped
<1>1. PlaceInv /\ ReceivesAlone BY DEF ReceiverInv, PlaceInv
<1>2. CASE ServerNext
  <2>1. PlaceInv' BY <1>1, <1>2, PlaceKept
  <2>2. ReceivesAlone' BY <1>1, <1>2, ReceivesKept
  <2> QED BY <2>1, <2>2 DEF PlaceInv, ReceiverInv
<1>3. CASE UNCHANGED allVars
  <2>1. UNCHANGED <<link, hin, held, made, pc, cbs, relay, serves, wpc>>
    BY <1>3 DEF allVars, vars, linkVars, loopVars, streamVars, serverVars,
                connVars, dataVars
  <2>2. PlaceInv' BY <2>1, <1>1, SameLinks, SameLists, QuietPlaced
  <2>3. ReceivesAlone'
    BY <2>1, <1>1 DEF ReceivesAlone, Taken, OneGoroutine, KindOf
  <2> QED BY <2>2, <2>3 DEF PlaceInv, ReceiverInv
<1> QED BY <1>2, <1>3

(* A MessageChannel that was announced is in one place: on a link, in the  *)
(* hands of a loop or of RelayMessages, on a server's list, in the pair it *)
(* hands over, or with one handler.  Only http-server's is listed again    *)
(* (httpServer.go:468), by a loop that pairs no callback any more          *)
(* (message.go:70-94, tcpServer.go:189-258).                               *)
THEOREM InOnePlace == ServerSpec => []ReceiverInv
<1> QED BY ReceiverInitially, ReceiverKept, ServerInvHolds, PTL DEF ServerSpec

(* No callback reaches two handlers, and a server that drains the callbacks*)
(* on its list takes no payload from a handler that still receives: not    *)
(* from http-server's either, which listed one that it had handed over     *)
(* (httpServer.go:450-489, tcpServer.go:235-274).                 *)
THEOREM ReceivesOnce == ServerSpec => []SingleReceiver
<1> QED BY OneReceives, ReceiverInitially, ReceiverKept, EndsInitially,
           EndsKept, ServerInvHolds, PTL DEF ServerSpec
=============================================================================
