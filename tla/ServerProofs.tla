---------------------------- MODULE ServerProofs ----------------------------
(***************************************************************************)
(* Theorems about the modules that serve clients, for every command line   *)
(* with any number of servers, any number of clients and of streams.       *)
(***************************************************************************)
EXTENDS TcpServer, PipelineProofs

USE DEF Relay, Modules, Places, Handlers

LEMMA ServerPlace ==
  ASSUME NEW s \in Servers
  PROVE  s \in Modules /\ s \in Places /\ s - 1 \in Places /\ IsServer(s)
BY PipelineAssumption DEF Servers

LEMMA OfServer ==
  ASSUME NEW h \in ServerHandlers
  PROVE  /\ h \in Handlers /\ h[1] \in Servers /\ h[1] \in Modules
BY DEF ServerHandlers, Servers

(* A step that starts no handler and leaves the bookkeeping of the servers *)
(* alone keeps the pairing.                                                *)
LEMMA PairingKept ==
  ASSUME Pairing,
         \A s \in Servers : /\ made'[s] = made[s]
                            /\ pc'[s] = "connected" <=> pc[s] = "connected"
                            /\ pc'[s] = "relay" => pc[s] = "relay",
         UNCHANGED <<mcs, relay, serves>>,
         \A c \in Conns : cpc'[c] \notin {"serving", "leave", "gone"} =>
                            cpc[c] \notin {"serving", "leave", "gone"},
         \A h \in ServerHandlers : hpc[h] = "idle" => hpc'[h] = "idle"
  PROVE  Pairing'
<1>1. \A s \in Servers : Announced(s)' = Announced(s) BY DEF Announced
<1>2. \A h : Taken(h)' <=> Taken(h) BY DEF Taken
<1>3. Waits' BY <1>1, <1>2 DEF Pairing, Waits
<1>4. HandsOver' BY <1>1, <1>2 DEF Pairing, HandsOver
<1>5. Has'
  <2>1. \A c \in Conns : c[1] \in Servers BY DEF Conns
  <2> QED BY <1>1, <2>1 DEF Pairing, Has
<1>6. OneConnPerStream' BY DEF Pairing, OneConnPerStream
<1> QED BY <1>3, <1>4, <1>5, <1>6 DEF Pairing

(* The steps of the other modules and of RelayMessages, Next of Pipeline *)
LEMMA PipelineKeeps ==
  ASSUME ServerInv, Next, UNCHANGED <<serverVars, connVars, dataVars>>
  PROVE  ServerInv'
<1> USE DEF ServerInv
<1>1. TypeOK' /\ HasOutc'
  <2>1. ASSUME NEW m \in Modules, Loop(m) PROVE TypeOK' /\ HasOutc'
    BY <2>1, LoopType, LoopHasOutc DEF Loop
  <2>2. CASE RelayMessages
    BY <2>2, RelayType, RelayFrame DEF HasOutc, streamVars
  <2>3. ASSUME NEW h \in Handlers, Handler(h) PROVE TypeOK' /\ HasOutc'
    BY <2>3, HandlerType, HandlerHasOutc
  <2> QED BY <2>1, <2>2, <2>3 DEF Next
<1>2. ServerTypeOK'
  BY DEF ServerTypeOK, serverVars, connVars, dataVars
<1>3. Pairing'
  <2>1. ASSUME NEW m \in Modules, Loop(m)
        PROVE  /\ \A s \in Servers : pc'[s] = pc[s] /\ made'[s] = made[s]
               /\ \A h \in ServerHandlers : hpc'[h] = hpc[h]
    <3>1. ~IsServer(m) BY <2>1 DEF Loop
    <3>2. \A s \in Servers : s \in Places \ {m} /\ s \in Modules
      BY <3>1, ServerPlace
    <3>3. \A s \in Servers : pc'[s] = pc[s] BY <2>1, <3>2, LoopFrame
    <3>4. made' = made \/ made' = [made EXCEPT ![m] = NextMc(m)]
      BY <2>1 DEF Loop, Announce, RecvTerminate, RecvFirstChannel,
                  RecvNextChannel, AnnounceNext, Cancelled, Join,
                  SendTerminate, Last, CloseOut
    <3>5. \A s \in Servers : made'[s] = made[s] BY <3>2, <3>4 DEF TypeOK
    <3>6. \A h \in ServerHandlers : h[1] # m
      BY <3>1 DEF ServerHandlers
    <3>7. hpc' = hpc \/ hpc' = [hpc EXCEPT ![<<m, made[m]>>] = "start"]
      BY <2>1, LoopFrame
    <3>8. \A h \in ServerHandlers : h # <<m, made[m]>> BY <3>6
    <3>9. \A h \in ServerHandlers : hpc'[h] = hpc[h]
      BY <3>7, <3>8 DEF TypeOK, ServerHandlers
    <3> QED BY <3>3, <3>5, <3>9
  <2>2. ASSUME RelayMessages
        PROVE  /\ \A s \in Servers : pc'[s] = pc[s] /\ made'[s] = made[s]
               /\ \A h \in ServerHandlers : hpc'[h] = hpc[h]
    BY <2>2, RelayFrame, RelayPc, ServerPlace
  <2>3. ASSUME NEW f \in Handlers, Handler(f)
        PROVE  /\ \A s \in Servers : pc'[s] = pc[s] /\ made'[s] = made[s]
               /\ \A h \in ServerHandlers : hpc[h] = "idle" => hpc'[h] = hpc[h]
    BY <2>3, HandlerFrame DEF loopVars, ServerHandlers
  <2> QED BY <2>1, <2>2, <2>3, PairingKept
          DEF Next, serverVars, connVars
<1> QED BY <1>1, <1>2, <1>3

-----------------------------------------------------------------------------
(* The main goroutine of a server *)

LEMMA McType ==
  ASSUME TypeOK, NEW s \in Servers, made[s] # 0
  PROVE  /\ Mc(s) \in Handlers /\ Mc(s)[1] = s
         /\ Channel(Mc(s)) \in Messages
<1>1. made[s] \in 1..MaxStreams BY ServerPlace DEF TypeOK
<1>2. Mc(s) \in Handlers /\ Mc(s)[1] = s BY <1>1, ServerPlace DEF Mc
<1> QED BY <1>2, MessageType

(* case <- ticker.C, case <- in with a Terminate, and what follows the     *)
(* loop, but for the closing of the streams.                               *)
LEMMA LeaveKeeps ==
  ASSUME ServerInv, NEW s \in Servers,
         SelectTick(s) \/ SelectTerminate(s)
  PROVE  ServerInv'
<1> USE DEF ServerInv
<1>0. s \in Modules /\ s \in Places /\ s - 1 \in Places BY ServerPlace
<1>1. link' \in [Places -> Seq(Messages)]
  <2>1. CASE SelectTick(s) BY <2>1 DEF SelectTick, linkVars, TypeOK
  <2>2. CASE SelectTerminate(s)
    BY <2>2, <1>0, ReceiveType DEF SelectTerminate
  <2> QED BY <2>1, <2>2
<1>2. /\ pc[s] = "select" /\ pc' = [pc EXCEPT ![s] = "join"]
      /\ cancel' = cancel \cup {s}
      /\ armed' = [armed EXCEPT ![s] = FALSE]
      /\ tick' = tick \/ tick' = [tick EXCEPT ![s] = FALSE]
      /\ UNCHANGED <<linkClosed, init, made, held, wg, started, closed, hpc,
                     streamVars, mutex, datac, written, panic, cbs, mcs,
                     relay, shutdown, connVars, dataVars>>
  BY DEF SelectTick, SelectTerminate, GoTo, linkVars
<1>3. TypeOK' BY <1>0, <1>1, <1>2 DEF TypeOK, LoopStates, streamVars
<1>4. HasOutc' BY <1>2 DEF HasOutc, streamVars
<1>5. ServerTypeOK' BY <1>2 DEF ServerTypeOK, connVars, dataVars
<1>6. Pairing'
  <2>1. \A r \in Servers : /\ pc'[r] = "connected" <=> pc[r] = "connected"
                           /\ pc'[r] = "relay" => pc[r] = "relay"
    BY <1>0, <1>2, ServerPlace DEF TypeOK
  <2> QED BY <2>1, <1>2, PairingKept DEF connVars
<1> QED BY <1>3, <1>4, <1>5, <1>6

(* The tick itself *)
LEMMA TickKeeps ==
  ASSUME ServerInv, NEW s \in Servers, Tick(s)
  PROVE  ServerInv'
<1> USE DEF ServerInv
<1>1. TypeOK' /\ HasOutc'
  BY DEF Tick, vars, linkVars, loopVars, streamVars, stdinVars, TypeOK, HasOutc
<1>2. ServerTypeOK' BY DEF Tick, ServerTypeOK, connVars, dataVars
<1>3. Pairing' BY PairingKept DEF Tick, vars, loopVars, connVars
<1> QED BY <1>1, <1>2, <1>3

(* A connection asks for a stream: the server creates one. *)
LEMMA SelectConnKeeps ==
  ASSUME ServerInv, NEW s \in Servers, NEW c \in Conns, SelectConn(s, c)
  PROVE  ServerInv'
<1> USE DEF ServerInv
<1>0. /\ s \in Modules /\ s \in Places
      /\ made[s] \in 0..MaxStreams /\ made[s] < MaxStreams /\ MaxStreams \in Nat
  BY ServerPlace, PipelineAssumption DEF TypeOK, SelectConn
<1>1. /\ pc[s] = "select" /\ pc' = [pc EXCEPT ![s] = "connected"]
      /\ made' = [made EXCEPT ![s] = made[s] + 1]
      /\ cpc[c] = "offer" /\ cpc' = [cpc EXCEPT ![c] = "await"]
      /\ UNCHANGED <<linkVars, init, held, wg, started, closed, hpc,
                     streamVars, stdinVars, written, panic, serverVars,
                     serves, dataVars>>
  BY DEF SelectConn, GoTo, GoConn, NewStream
<1>2. TypeOK'
  <2>1. made' \in [Modules -> 0..MaxStreams]
    BY <1>0, <1>1 DEF TypeOK
  <2>2. \A m \in Modules : IsServer(m) \/ made'[m] # 0
    BY <1>1, ServerPlace DEF TypeOK
  <2> QED BY <2>1, <2>2, <1>0, <1>1
          DEF TypeOK, LoopStates, linkVars, streamVars, stdinVars
<1>3. HasOutc' BY <1>1 DEF HasOutc, streamVars
<1>4. ServerTypeOK'
  BY <1>1 DEF ServerTypeOK, ConnStates, serverVars, dataVars
<1>5. Pairing'
  <2>1. \A r \in Servers : /\ Announced(r)' = Announced(r)
                           /\ pc'[r] = "relay" => pc[r] = "relay"
                           /\ pc'[r] = "connected" => made'[r] # 0
    <3>1. ASSUME NEW r \in Servers, r # s
          PROVE  pc'[r] = pc[r] /\ made'[r] = made[r]
      BY <3>1, <1>0, <1>1, ServerPlace DEF TypeOK
    <3>2. /\ pc'[s] = "connected" /\ made'[s] = made[s] + 1
          /\ made'[s] - 1 = made[s] /\ made'[s] # 0
      BY <1>0, <1>1 DEF TypeOK
    <3>3. Announced(s)' = Announced(s) BY <3>2, <1>1 DEF Announced
    <3> QED BY <3>1, <3>2, <3>3 DEF Announced, Pairing, Waits
  <2>2. \A h : Taken(h)' <=> Taken(h) BY <1>1 DEF Taken
  <2>3. Waits' BY <2>1, <2>2, <1>1 DEF Pairing, Waits, serverVars
  <2>4. HandsOver' BY <2>1, <2>2, <1>1 DEF Pairing, HandsOver, serverVars
  <2>5. Has'
    <3>1. \A d \in Conns : d[1] \in Servers BY DEF Conns
    <3>2. \A d \in Conns : cpc'[d] = cpc[d] \/ cpc[d] = "offer"
      BY <1>1 DEF ServerTypeOK
    <3> QED BY <2>1, <3>1, <3>2, <1>1 DEF Pairing, Has
  <2>6. OneConnPerStream' BY <1>1 DEF Pairing, OneConnPerStream
  <2> QED BY <2>3, <2>4, <2>5, <2>6 DEF Pairing
<1> QED BY <1>2, <1>3, <1>4, <1>5

(* It announces the stream and pairs it with a callback, or lets it wait.  *)
LEMMA ConnectedKeeps ==
  ASSUME ServerInv, NEW s \in Servers, Connected(s)
  PROVE  ServerInv'
<1> USE DEF ServerInv
<1>0. /\ s \in Modules /\ s \in Places
      /\ pc[s] = "connected" /\ made[s] # 0
      /\ made[s] \in 0..MaxStreams
      /\ Mc(s) \in Handlers /\ Mc(s)[1] = s /\ Channel(Mc(s)) \in Messages
  <2>1. s \in Modules /\ s \in Places BY ServerPlace
  <2>2. pc[s] = "connected" BY DEF Connected
  <2>3. made[s] # 0 BY <2>2 DEF Pairing, Waits
  <2> QED BY <2>1, <2>2, <2>3, McType DEF TypeOK
<1>1. /\ mcs' = [mcs EXCEPT ![s] = Unpaired(s)]
      /\ cbs' = [cbs EXCEPT ![s] = RestOfCbs(s)]
      /\ UNCHANGED <<linkClosed, init, made, held, started, closed, hpc,
                     streamVars, stdinVars, written, panic, armed, tick,
                     shutdown, connVars, dataVars>>
  BY DEF Connected
<1>2. link' \in [Places -> Seq(Messages)]
  BY <1>0, SendType DEF Connected
<1>3. pc'[s] # "connected"
  BY <1>0 DEF Connected, GoTo, TypeOK
<1>4. /\ Announced(s) \subseteq Announced(s)'
      /\ Mc(s) \in Announced(s)' /\ Mc(s) \notin Announced(s)
  <2>1. /\ Announced(s) = {s} \X (1..(made[s] - 1))
        /\ Announced(s)' = {s} \X (1..made[s])
    BY <1>3, <1>0, <1>1 DEF Announced
  <2>2. made[s] \in 1..made[s] /\ made[s] \notin 1..(made[s] - 1)
        /\ 1..(made[s] - 1) \subseteq 1..made[s]
    BY <1>0
  <2> QED BY <2>1, <2>2 DEF Mc
<1>5. /\ \A h : Taken(h)' <=> Taken(h)
      /\ ~Taken(Mc(s))
  <2>1. \A h : Taken(h)' <=> Taken(h) BY <1>1 DEF Taken, connVars
  <2>2. ASSUME NEW c \in Conns, serves[c] = Mc(s) PROVE FALSE
    <3>1. Mc(s) # NoChannel BY <1>0 DEF NoChannel
    <3>2. serves[c] \in Announced(c[1]) /\ c[1] \in Servers
      BY <2>2, <3>1 DEF Pairing, Has, Conns
    <3>3. c[1] = s BY <2>2, <3>2, <1>0 DEF Announced
    <3> QED BY <2>2, <3>2, <3>3, <1>4
  <2> QED BY <2>1, <2>2 DEF Taken
<1>6. CASE cbs[s] = <<>>
  <2>1. /\ pc' = [pc EXCEPT ![s] = "select"]
        /\ UNCHANGED <<wg, relay>>
    BY <1>6 DEF Connected, GoTo
  <2>2. Unpaired(s) = Append(mcs[s], Mc(s)) /\ RestOfCbs(s) = <<>>
    BY <1>6 DEF Unpaired, RestOfCbs
  <2>3. TypeOK'
    BY <2>1, <1>0, <1>1, <1>2 DEF TypeOK, LoopStates, streamVars, stdinVars
  <2>4. HasOutc' BY <1>1 DEF HasOutc, streamVars
  <2>5. ServerTypeOK'
    <3>1. mcs[s] \in Seq(Handlers) BY DEF ServerTypeOK
    <3>2. Append(mcs[s], Mc(s)) \in Seq(Handlers) BY <3>1, <1>0
    <3>3. mcs' \in [Servers -> Seq(Handlers)]
      BY <3>2, <2>2, <1>1 DEF ServerTypeOK
    <3>4. cbs' \in [Servers -> Seq(Handlers)]
      BY <2>2, <1>1 DEF ServerTypeOK
    <3> QED BY <3>3, <3>4, <2>1, <1>1 DEF ServerTypeOK, connVars, dataVars
  <2>6. ASSUME NEW r \in Servers, r # s
        PROVE  /\ pc'[r] = pc[r] /\ mcs'[r] = mcs[r]
               /\ Announced(r)' = Announced(r)
    <3>1. pc'[r] = pc[r] /\ mcs'[r] = mcs[r] /\ made'[r] = made[r]
      BY <2>1, <2>6, <1>0, <1>1, ServerPlace DEF TypeOK, ServerTypeOK
    <3> QED BY <3>1 DEF Announced
  <2>7. /\ pc'[s] = "select" /\ mcs'[s] = Append(mcs[s], Mc(s))
        /\ mcs[s] \in Seq(Handlers)
    BY <2>1, <2>2, <1>0, <1>1 DEF TypeOK, ServerTypeOK
  <2>10. Waits'
    <3>1. ASSUME NEW i \in 1..Len(mcs'[s])
          PROVE  /\ mcs'[s][i] \in Announced(s)' /\ ~Taken(mcs[s][i])'
                 /\ \A j \in 1..Len(mcs'[s]) : mcs'[s][i] = mcs'[s][j] => i = j
      <4>1. /\ Len(mcs'[s]) = Len(mcs[s]) + 1 /\ Len(mcs[s]) \in Nat
            /\ mcs'[s][Len(mcs[s]) + 1] = Mc(s)
            /\ \A j \in 1..Len(mcs[s]) : mcs'[s][j] = mcs[s][j]
        BY <2>7, <1>0
      <4>2. \A j \in 1..Len(mcs[s]) :
              mcs[s][j] \in Announced(s) /\ ~Taken(mcs[s][j]) /\ mcs[s][j] # Mc(s)
        BY <1>4 DEF Pairing, Waits
      <4>3. \A j \in 1..Len(mcs'[s]) : j \in 1..Len(mcs[s]) \/ j = Len(mcs[s]) + 1
        BY <4>1
      <4>4. \A j, k \in 1..Len(mcs[s]) : mcs[s][j] = mcs[s][k] => j = k
        BY DEF Pairing, Waits
      <4>5. mcs'[s][i] \in Announced(s)' /\ ~Taken(mcs[s][i])'
        BY <4>1, <4>2, <4>3, <1>4, <1>5
      <4>6. ASSUME NEW j \in 1..Len(mcs'[s]), mcs'[s][i] = mcs'[s][j]
            PROVE  i = j
        BY <4>1, <4>2, <4>3, <4>4, <4>6
      <4> QED BY <4>5, <4>6
    <3>2. ASSUME NEW r \in Servers, r # s
          PROVE  /\ pc'[r] = "connected" => made'[r] # 0
                 /\ \A i \in 1..Len(mcs'[r]) :
                      /\ mcs'[r][i] \in Announced(r)' /\ ~Taken(mcs[r][i])'
                      /\ \A j \in 1..Len(mcs'[r]) :
                           mcs'[r][i] = mcs'[r][j] => i = j
      BY <3>2, <2>6, <1>5, <1>1 DEF Pairing, Waits
    <3> QED BY <3>1, <3>2, <2>7 DEF Waits
  <2>11. HandsOver'
    <3>1. \A r \in Servers : pc'[r] = "relay" => r # s BY <2>7
    <3> QED BY <3>1, <2>1, <2>6, <1>5 DEF Pairing, HandsOver
  <2>12. Has'
    <3>1. ASSUME NEW c \in Conns
          PROVE  Announced(c[1]) \subseteq Announced(c[1])'
      <4>1. c[1] \in Servers BY DEF Conns
      <4> QED BY <4>1, <2>6, <1>4
    <3> QED BY <3>1, <1>1 DEF Pairing, Has, connVars
  <2>13. OneConnPerStream' BY <1>1 DEF Pairing, OneConnPerStream, connVars
  <2> QED BY <2>3, <2>4, <2>5, <2>10, <2>11, <2>12, <2>13 DEF Pairing
<1>7. CASE cbs[s] # <<>>
  <2>1. /\ pc' = [pc EXCEPT ![s] = "relay"]
        /\ wg' = [wg EXCEPT ![s] = @ \cup {Mc(s)}]
        /\ relay' = [relay EXCEPT ![s] = [cb |-> Head(cbs[s]), mc |-> Mc(s)]]
    BY <1>7 DEF Connected, GoTo
  <2>2. Unpaired(s) = mcs[s] /\ RestOfCbs(s) = Tail(cbs[s])
    BY <1>7 DEF Unpaired, RestOfCbs
  <2>3. TypeOK'
    <3>1. wg' \in [Modules -> SUBSET Handlers] BY <2>1, <1>0 DEF TypeOK
    <3> QED BY <3>1, <2>1, <1>0, <1>1, <1>2
            DEF TypeOK, LoopStates, streamVars, stdinVars
  <2>4. HasOutc' BY <1>1 DEF HasOutc, streamVars
  <2>5. ServerTypeOK'
    <3>1. cbs[s] \in Seq(Handlers) BY DEF ServerTypeOK
    <3>2. Head(cbs[s]) \in Handlers /\ Tail(cbs[s]) \in Seq(Handlers)
      BY <3>1, <1>7
    <3>3. cbs' \in [Servers -> Seq(Handlers)]
      BY <3>2, <2>2, <1>1 DEF ServerTypeOK
    <3>4. relay' \in [Servers -> [cb : Handlers \cup {NoChannel},
                                  mc : Handlers \cup {NoChannel}]]
      BY <3>2, <2>1, <1>0 DEF ServerTypeOK
    <3>5. mcs' = mcs BY <2>2, <1>1 DEF ServerTypeOK
    <3> QED BY <3>3, <3>4, <3>5, <1>1 DEF ServerTypeOK, connVars, dataVars
  <2>6. ASSUME NEW r \in Servers, r # s
        PROVE  /\ pc'[r] = pc[r] /\ relay'[r] = relay[r]
               /\ Announced(r)' = Announced(r)
    <3>1. pc'[r] = pc[r] /\ relay'[r] = relay[r] /\ made'[r] = made[r]
      BY <2>1, <2>6, <1>0, <1>1, ServerPlace DEF TypeOK, ServerTypeOK
    <3> QED BY <3>1 DEF Announced
  <2>7. /\ pc'[s] = "relay" /\ relay'[s].mc = Mc(s)
        /\ mcs' = mcs
    BY <2>1, <2>2, <1>0, <1>1 DEF TypeOK, ServerTypeOK
  <2>10. Waits'
    <3>1. \A r \in Servers : Announced(r) \subseteq Announced(r)'
      BY <2>6, <1>4
    <3>2. \A r \in Servers : pc'[r] = "connected" => made'[r] # 0
      BY <2>6, <2>7, <1>1 DEF Pairing, Waits
    <3> QED BY <3>1, <3>2, <2>7, <1>5 DEF Pairing, Waits
  <2>11. HandsOver'
    <3>1. \A i \in 1..Len(mcs[s]) : mcs[s][i] # Mc(s)
      BY <1>4 DEF Pairing, Waits
    <3> QED BY <3>1, <2>6, <2>7, <1>4, <1>5 DEF Pairing, HandsOver
  <2>12. Has'
    <3>1. ASSUME NEW c \in Conns
          PROVE  Announced(c[1]) \subseteq Announced(c[1])'
      <4>1. c[1] \in Servers BY DEF Conns
      <4> QED BY <4>1, <2>6, <1>4
    <3> QED BY <3>1, <1>1 DEF Pairing, Has, connVars
  <2>13. OneConnPerStream' BY <1>1 DEF Pairing, OneConnPerStream, connVars
  <2> QED BY <2>3, <2>4, <2>5, <2>10, <2>11, <2>12, <2>13 DEF Pairing
<1> QED BY <1>6, <1>7

(* A connection takes the pair, and with it the stream. *)
LEMMA RelayedKeeps ==
  ASSUME ServerInv, NEW s \in Servers, NEW c \in Conns, c[1] = s, Relayed(s, c)
  PROVE  ServerInv'
<1> USE DEF ServerInv
<1> DEFINE h == relay[s].mc
<1>0. /\ s \in Modules /\ s \in Places
      /\ pc[s] = "relay" /\ cpc[c] \in {"try", "await"}
      /\ h \in Announced(s) /\ ~Taken(h)
      /\ \A i \in 1..Len(mcs[s]) : mcs[s][i] # h
  BY ServerPlace DEF Relayed, Pairing, HandsOver
<1>1. /\ cpc' = [cpc EXCEPT ![c] = "serving"]
      /\ serves' = [serves EXCEPT ![c] = h]
      /\ hpc' = [hpc EXCEPT ![h] = "start"]
      /\ hin' = [hin EXCEPT ![h] = relay[s].cb]
      /\ relay' = [relay EXCEPT ![s] = NoRelay]
      /\ \/ pc' = [pc EXCEPT ![s] = "join"] /\ cancel' = cancel \cup {s}
         \/ pc' = [pc EXCEPT ![s] = "select"] /\ cancel' = cancel
      /\ UNCHANGED <<linkVars, init, made, held, wg, started, closed, outc,
                     buf, draining, mutex, datac, written, panic, cbs, mcs,
                     armed, tick, shutdown, dataVars>>
  BY DEF Relayed, GoTo, GoConn
<1>2. h \in Handlers /\ h[1] = s
  <2>1. made[s] \in 0..MaxStreams BY <1>0 DEF TypeOK
  <2>2. Announced(s) = {s} \X (1..made[s]) BY <1>0 DEF Announced
  <2> QED BY <2>1, <2>2, <1>0, PipelineAssumption
<1>3. relay[s].cb \in Handlers \cup {NoChannel} BY DEF ServerTypeOK
<1> HIDE DEF h
<1>4. TypeOK'
  <2>1. hpc' \in [Handlers -> HandlerStates]
    BY <1>1 DEF TypeOK, HandlerStates
  <2>2. hin' \in [Handlers -> Handlers \cup {NoChannel}]
    BY <1>1, <1>3 DEF TypeOK
  <2>3. pc' \in [Places -> LoopStates] /\ cancel' \subseteq Modules
    BY <1>0, <1>1 DEF TypeOK, LoopStates
  <2> QED BY <2>1, <2>2, <2>3, <1>1 DEF TypeOK, linkVars
<1>5. HasOutc' BY <1>1 DEF HasOutc, TypeOK
<1>6. ServerTypeOK'
  <2>1. relay' \in [Servers -> [cb : Handlers \cup {NoChannel},
                                mc : Handlers \cup {NoChannel}]]
    BY <1>1 DEF ServerTypeOK, NoRelay
  <2>2. cpc' \in [Conns -> ConnStates] BY <1>1 DEF ServerTypeOK, ConnStates
  <2>3. serves' \in [Conns -> Handlers \cup {NoChannel}]
    BY <1>1, <1>2 DEF ServerTypeOK
  <2> QED BY <2>1, <2>2, <2>3, <1>1 DEF ServerTypeOK, dataVars
<1>7. Pairing'
  <2>1. /\ pc'[s] \notin {"connected", "relay"}
        /\ \A r \in Servers : r # s => pc'[r] = pc[r] /\ relay'[r] = relay[r]
        /\ \A r \in Servers : Announced(r)' = Announced(r)
    <3>1. pc'[s] \notin {"connected", "relay"} BY <1>0, <1>1 DEF TypeOK
    <3>2. \A r \in Servers : r # s => pc'[r] = pc[r] /\ relay'[r] = relay[r]
      BY <1>0, <1>1, ServerPlace DEF TypeOK, ServerTypeOK
    <3>3. \A r \in Servers : Announced(r)' = Announced(r)
      BY <3>1, <3>2, <1>0, <1>1 DEF Announced
    <3> QED BY <3>1, <3>2, <3>3
  <2>2. /\ serves'[c] = h /\ serves[c] = NoChannel
        /\ \A d \in Conns : d # c => serves'[d] = serves[d] /\ cpc'[d] = cpc[d]
        /\ cpc'[c] = "serving" /\ h # NoChannel
    <3>1. h # NoChannel BY <1>2 DEF NoChannel
    <3>2. serves[c] = NoChannel BY <1>0 DEF Pairing, Has
    <3> QED BY <3>1, <3>2, <1>1 DEF ServerTypeOK
  <2>3. \A g : Taken(g)' => Taken(g) \/ g = h
    BY <2>2 DEF Taken
  <2>4. Waits'
    <3>1. ASSUME NEW r \in Servers, NEW i \in 1..Len(mcs[r])
          PROVE  /\ mcs[r][i] \in Announced(r)' /\ ~Taken(mcs[r][i])'
                 /\ \A j \in 1..Len(mcs[r]) : mcs[r][i] = mcs[r][j] => i = j
      <4>1. /\ mcs[r][i] \in Announced(r) /\ ~Taken(mcs[r][i])
            /\ \A j \in 1..Len(mcs[r]) : mcs[r][i] = mcs[r][j] => i = j
        BY DEF Pairing, Waits
      <4>2. mcs[r][i] # h
        <5>1. CASE r = s BY <5>1, <1>0
        <5>2. CASE r # s
          <6>1. mcs[r][i][1] = r BY <4>1 DEF Announced
          <6> QED BY <6>1, <5>2, <1>2
        <5> QED BY <5>1, <5>2
      <4>3. ~Taken(mcs[r][i])' BY <4>1, <4>2, <2>3, <1>1
      <4> QED BY <4>1, <4>3, <2>1
    <3>2. \A r \in Servers : pc'[r] = "connected" => made'[r] # 0
      BY <2>1, <1>1 DEF Pairing, Waits
    <3> QED BY <3>1, <3>2, <1>1 DEF Waits
  <2>5. HandsOver'
    <3>1. ASSUME NEW r \in Servers, pc'[r] = "relay"
          PROVE  /\ relay'[r].mc \in Announced(r)' /\ ~Taken(relay[r].mc)'
                 /\ r # s /\ relay'[r] = relay[r]
                 /\ \A i \in 1..Len(mcs[r]) : mcs[r][i] # relay[r].mc
      <4>1. r # s /\ relay'[r] = relay[r] /\ pc[r] = "relay"
        BY <3>1, <2>1
      <4>2. /\ relay[r].mc \in Announced(r) /\ ~Taken(relay[r].mc)
            /\ \A i \in 1..Len(mcs[r]) : mcs[r][i] # relay[r].mc
        BY <4>1 DEF Pairing, HandsOver
      <4>3. relay[r].mc[1] = r BY <4>2 DEF Announced
      <4>4. relay[r].mc # h BY <4>1, <4>3, <1>2
      <4>5. ~Taken(relay[r].mc)' BY <4>1, <4>2, <4>4, <2>3
      <4> QED BY <4>1, <4>2, <4>5, <2>1
    <3> QED BY <3>1, <1>1 DEF HandsOver
  <2>6. Has'
    <3>1. h \in Announced(c[1])' BY <1>0, <2>1
    <3>2. \A d \in Conns : Announced(d[1])' = Announced(d[1])
      BY <2>1 DEF Conns
    <3> QED BY <3>1, <3>2, <2>2 DEF Pairing, Has
  <2>7. OneConnPerStream'
    <3>1. \A d, e \in Conns :
            serves'[d] = serves'[e] /\ serves'[d] # NoChannel => d = e
      <4>1. \A d \in Conns : serves[d] # h BY <1>0 DEF Taken
      <4> QED BY <4>1, <2>2 DEF Pairing, OneConnPerStream
    <3>2. ASSUME NEW g \in ServerHandlers, hpc'[g] # "idle"
          PROVE  \E d \in Conns : serves'[d] = g
      <4>1. CASE g = h BY <4>1, <2>2
      <4>2. CASE g # h
        <5>1. hpc[g] # "idle"
          BY <4>2, <3>2, <1>1 DEF TypeOK, ServerHandlers
        <5>2. PICK d \in Conns : serves[d] = g
          BY <5>1 DEF Pairing, OneConnPerStream
        <5>3. g # NoChannel BY DEF ServerHandlers, NoChannel
        <5> QED BY <5>2, <5>3, <2>2
      <4> QED BY <4>1, <4>2
    <3> QED BY <3>1, <3>2 DEF OneConnPerStream, ServerHandlers
  <2> QED BY <2>4, <2>5, <2>6, <2>7 DEF Pairing
<1> QED BY <1>4, <1>5, <1>6, <1>7

(* A callback comes, and is paired with a stream that waits or waits. *)
LEMMA SelectCallbackKeeps ==
  ASSUME ServerInv, NEW s \in Servers, SelectCallback(s)
  PROVE  ServerInv'
<1> USE DEF ServerInv
<1> DEFINE cb == Head(link[s - 1]).mc
<1>0. s \in Modules /\ s \in Places /\ s - 1 \in Places /\ pc[s] = "select"
  BY ServerPlace DEF SelectCallback
<1>1. /\ armed' = [armed EXCEPT ![s] = FALSE]
      /\ UNCHANGED <<linkClosed, init, made, held, started, closed, hpc,
                     streamVars, stdinVars, written, panic, tick, shutdown,
                     connVars, dataVars>>
  BY DEF SelectCallback
<1>2. /\ link' \in [Places -> Seq(Messages)]
      /\ cb \in Handlers
  <2>1. /\ link' \in [Places -> Seq(Messages)]
        /\ Head(link[s - 1]) \in Messages
    BY <1>0, ReceiveType DEF SelectCallback
  <2>2. Head(link[s - 1]) # Terminate BY DEF SelectCallback, IsCallback
  <2>3. PICK c \in Handlers : Head(link[s - 1]) = Channel(c)
    BY <2>1, <2>2 DEF Messages
  <2>4. cb = c BY <2>3 DEF Channel
  <2> QED BY <2>1, <2>4
<1>3. mcs[s] \in Seq(Handlers) /\ cbs[s] \in Seq(Handlers)
  BY DEF ServerTypeOK
<1>4. HasOutc' BY <1>1 DEF HasOutc, streamVars
<1>5. \A h : Taken(h)' <=> Taken(h) BY <1>1 DEF Taken, connVars
<1>6. OneConnPerStream' BY <1>1 DEF Pairing, OneConnPerStream, connVars
<1> HIDE DEF cb
<1>7. CASE mcs[s] = <<>>
  <2>1. /\ cbs' = [cbs EXCEPT ![s] = Append(@, cb)]
        /\ UNCHANGED <<pc, wg, mcs, relay>>
    BY <1>7 DEF SelectCallback, cb
  <2>2. TypeOK' BY <2>1, <1>1, <1>2 DEF TypeOK, streamVars, stdinVars
  <2>3. ServerTypeOK'
    <3>1. Append(cbs[s], cb) \in Seq(Handlers) BY <1>2, <1>3
    <3>2. cbs' \in [Servers -> Seq(Handlers)]
      BY <3>1, <2>1 DEF ServerTypeOK
    <3> QED BY <3>2, <2>1, <1>1 DEF ServerTypeOK, connVars, dataVars
  <2>4. Pairing' BY <2>1, <1>1, PairingKept DEF connVars
  <2> QED BY <2>2, <2>3, <2>4, <1>4
<1>8. CASE mcs[s] # <<>>
  <2> DEFINE mc == Head(mcs[s])
  <2>1. /\ wg' = [wg EXCEPT ![s] = @ \cup {mc}]
        /\ relay' = [relay EXCEPT ![s] = [cb |-> cb, mc |-> mc]]
        /\ mcs' = [mcs EXCEPT ![s] = Tail(@)]
        /\ cbs' = [cbs EXCEPT ![s] = HandedOver(s, cb)]
        /\ pc' = [pc EXCEPT ![s] = "relay"]
    BY <1>8 DEF SelectCallback, GoTo, cb
  <2>2. /\ mc \in Handlers /\ Tail(mcs[s]) \in Seq(Handlers)
        /\ Len(mcs[s]) \in Nat /\ 1 \in 1..Len(mcs[s]) /\ mc = mcs[s][1]
        /\ Len(Tail(mcs[s])) = Len(mcs[s]) - 1
        /\ \A i \in 1..Len(Tail(mcs[s])) :
             i + 1 \in 1..Len(mcs[s]) /\ Tail(mcs[s])[i] = mcs[s][i + 1]
    <3>1. /\ Len(mcs[s]) \in Nat /\ 1 \in 1..Len(mcs[s])
      BY <1>3, <1>8
    <3>2. /\ Tail(mcs[s]) \in Seq(Handlers)
          /\ Len(Tail(mcs[s])) = Len(mcs[s]) - 1
          /\ mc = mcs[s][1]
      BY <1>3, <1>8
    <3>3. mc \in Handlers BY <3>1, <3>2, <1>3
    <3>4. ASSUME NEW i \in 1..Len(Tail(mcs[s]))
          PROVE  i + 1 \in 1..Len(mcs[s]) /\ Tail(mcs[s])[i] = mcs[s][i + 1]
      BY <3>1, <3>2, <1>3
    <3> QED BY <3>1, <3>2, <3>3, <3>4
  <2> HIDE DEF mc
  <2>3. TypeOK'
    <3>1. wg' \in [Modules -> SUBSET Handlers] BY <2>1, <2>2, <1>0 DEF TypeOK
    <3>2. pc' \in [Places -> LoopStates] BY <2>1 DEF TypeOK, LoopStates
    <3> QED BY <3>1, <3>2, <1>1, <1>2 DEF TypeOK, streamVars, stdinVars
  <2>4. ServerTypeOK'
    <3>1. HandedOver(s, cb) \in Seq(Handlers)
      <4>1. Append(cbs[s], cb) \in Seq(Handlers) BY <1>2, <1>3
      <4> QED BY <4>1, <1>3 DEF HandedOver
    <3>2. cbs' \in [Servers -> Seq(Handlers)] BY <3>1, <2>1 DEF ServerTypeOK
    <3>3. mcs' \in [Servers -> Seq(Handlers)] BY <2>1, <2>2 DEF ServerTypeOK
    <3>4. relay' \in [Servers -> [cb : Handlers \cup {NoChannel},
                                  mc : Handlers \cup {NoChannel}]]
      BY <2>1, <2>2, <1>2 DEF ServerTypeOK
    <3> QED BY <3>2, <3>3, <3>4, <1>1 DEF ServerTypeOK, connVars, dataVars
  <2>5. /\ \A r \in Servers : r # s => /\ pc'[r] = pc[r] /\ mcs'[r] = mcs[r]
                                       /\ relay'[r] = relay[r]
        /\ pc'[s] = "relay" /\ mcs'[s] = Tail(mcs[s]) /\ relay'[s].mc = mc
    BY <2>1, <1>0, ServerPlace DEF TypeOK, ServerTypeOK
  <2>6. \A r \in Servers : Announced(r)' = Announced(r)
    BY <2>5, <1>0, <1>1 DEF Announced
  <2>7. Waits'
    <3>1. \A r \in Servers : pc'[r] = "connected" => made'[r] # 0
      BY <2>5, <1>1 DEF Pairing, Waits
    <3>2. ASSUME NEW i \in 1..Len(mcs'[s])
          PROVE  /\ mcs'[s][i] \in Announced(s)' /\ ~Taken(mcs[s][i])'
                 /\ \A j \in 1..Len(mcs'[s]) : mcs'[s][i] = mcs'[s][j] => i = j
      <4>1. i + 1 \in 1..Len(mcs[s]) /\ mcs'[s][i] = mcs[s][i + 1]
        BY <2>2, <2>5
      <4>2. mcs'[s][i] \in Announced(s)' /\ ~Taken(mcs[s][i])'
        BY <4>1, <2>6, <1>5 DEF Pairing, Waits
      <4>3. ASSUME NEW j \in 1..Len(mcs'[s]), mcs'[s][i] = mcs'[s][j]
            PROVE  i = j
        <5>1. j + 1 \in 1..Len(mcs[s]) /\ mcs'[s][j] = mcs[s][j + 1]
          BY <2>2, <2>5
        <5>2. i + 1 = j + 1 BY <4>1, <4>3, <5>1 DEF Pairing, Waits
        <5>3. i \in Nat /\ j \in Nat BY <2>2, <2>5
        <5> QED BY <5>2, <5>3
      <4> QED BY <4>2, <4>3
    <3>3. ASSUME NEW r \in Servers, r # s
          PROVE  \A i \in 1..Len(mcs'[r]) :
                   /\ mcs'[r][i] \in Announced(r)' /\ ~Taken(mcs[r][i])'
                   /\ \A j \in 1..Len(mcs'[r]) : mcs'[r][i] = mcs'[r][j] => i = j
      BY <3>3, <2>5, <2>6, <1>5 DEF Pairing, Waits
    <3> QED BY <3>1, <3>2, <3>3 DEF Waits
  <2>8. HandsOver'
    <3>1. mc \in Announced(s)' /\ ~Taken(relay[s].mc)'
      BY <2>2, <2>5, <2>6, <1>5 DEF Pairing, Waits
    <3>2. \A i \in 1..Len(mcs'[s]) : mcs'[s][i] # relay'[s].mc
      <4>1. ASSUME NEW i \in 1..Len(mcs'[s]), mcs'[s][i] = relay'[s].mc
            PROVE  FALSE
        <5>1. i + 1 \in 1..Len(mcs[s]) /\ mcs[s][i + 1] = mcs[s][1]
          BY <4>1, <2>2, <2>5
        <5>2. i + 1 = 1 BY <5>1, <2>2 DEF Pairing, Waits
        <5>3. i \in 1..Len(mcs[s]) BY <2>2, <2>5
        <5> QED BY <5>2, <5>3, <2>2
      <4> QED BY <4>1
    <3>3. ASSUME NEW r \in Servers, r # s, pc'[r] = "relay"
          PROVE  /\ relay'[r].mc \in Announced(r)' /\ ~Taken(relay[r].mc)'
                 /\ \A i \in 1..Len(mcs'[r]) : mcs'[r][i] # relay'[r].mc
      BY <3>3, <2>5, <2>6, <1>5 DEF Pairing, HandsOver
    <3> QED BY <3>1, <3>2, <3>3, <2>5 DEF HandsOver
  <2>9. Has'
    <3>1. \A c \in Conns : c[1] \in Servers BY DEF Conns
    <3> QED BY <3>1, <2>6, <1>1 DEF Pairing, Has, connVars
  <2> QED BY <2>3, <2>4, <2>7, <2>8, <2>9, <1>4, <1>6 DEF Pairing
<1> QED BY <1>7, <1>8

-----------------------------------------------------------------------------
(* The end of the loop, and what follows it *)

LEMMA EndsKeeps ==
  ASSUME ServerInv, NEW s \in Servers, UNCHANGED <<serverVars, connVars, dataVars>>,
         \/ Join(s, "join", "terminate") \/ SendTerminate(s, "shut")
         \/ Last(s, s - 1) \/ CloseOut(s, "done")
  PROVE  ServerInv'
<1> USE DEF ServerInv
<1>0. s \in Modules /\ s \in Places /\ s - 1 \in Places BY ServerPlace
<1>1. /\ link' \in [Places -> Seq(Messages)]
      /\ linkClosed' \subseteq Places
  <2>1. CASE Join(s, "join", "terminate")
    BY <2>1 DEF Join, linkVars, TypeOK
  <2>2. CASE SendTerminate(s, "shut")
    BY <2>2, <1>0, SendType, MessageType DEF SendTerminate, TypeOK
  <2>3. CASE Last(s, s - 1)
    BY <2>3, <1>0, ReceiveType DEF Last, TypeOK
  <2>4. CASE CloseOut(s, "done")
    BY <2>4, <1>0 DEF CloseOut, TypeOK
  <2> QED BY <2>1, <2>2, <2>3, <2>4
<1>2. /\ pc[s] \in {"join", "terminate", "last", "close"}
      /\ \E state \in {"terminate", "shut", "close", "done"} :
           pc' = [pc EXCEPT ![s] = state]
      /\ UNCHANGED <<init, made, held, wg, started, closed, hpc, streamVars,
                     stdinVars, written, panic>>
  BY DEF Join, SendTerminate, Last, CloseOut, GoTo
<1>3. TypeOK'
  BY <1>0, <1>1, <1>2 DEF TypeOK, LoopStates, streamVars, stdinVars
<1>4. HasOutc' BY <1>2 DEF HasOutc, streamVars
<1>5. ServerTypeOK' BY DEF ServerTypeOK, serverVars, connVars, dataVars
<1>6. Pairing'
  <2>1. \A r \in Servers : /\ pc'[r] = "connected" <=> pc[r] = "connected"
                           /\ pc'[r] = "relay" => pc[r] = "relay"
    BY <1>0, <1>2, ServerPlace DEF TypeOK
  <2> QED BY <2>1, <1>2, PairingKept DEF serverVars, connVars
<1> QED BY <1>3, <1>4, <1>5, <1>6

(* The streams nobody came for are closed, the callbacks nobody used are   *)
(* drained.                                                                *)
LEMMA WindDownKeeps ==
  ASSUME ServerInv, NEW s \in Servers,
         \/ Shut(s) \/ DrainedCallback(s) \/ ShutChannels(s)
         \/ \E g \in Handlers : DrainPayload(s, g)
  PROVE  ServerInv'
<1> USE DEF ServerInv
<1>0. s \in Modules /\ s \in Places BY ServerPlace
<1>1. CASE Shut(s)
  <2>1. Left(s) \subseteq Handlers
    <3>1. mcs[s] \in Seq(Handlers) BY DEF ServerTypeOK
    <3>2. \A i \in 1..Len(mcs[s]) : mcs[s][i] \in Handlers BY <3>1
    <3> QED BY <3>2 DEF Left
  <2>2. TypeOK'
    <3>1. closed' \subseteq Handlers BY <2>1, <1>1 DEF Shut, TypeOK
    <3>2. panic' \in {"none", "stream", "cancel", "server"}
      BY <1>1 DEF Shut, TypeOK
    <3>3. pc' \in [Places -> LoopStates] BY <1>1 DEF Shut, TypeOK, GoTo, LoopStates
    <3> QED BY <3>1, <3>2, <3>3, <1>1
            DEF Shut, TypeOK, linkVars, streamVars, stdinVars
  <2>3. HasOutc' BY <1>1 DEF Shut, HasOutc, streamVars
  <2>4. ServerTypeOK' BY <1>1 DEF Shut, ServerTypeOK, connVars, dataVars
  <2>5. \A r \in Servers : /\ pc'[r] = "connected" <=> pc[r] = "connected"
                           /\ pc'[r] = "relay" => pc[r] = "relay"
    BY <1>0, <1>1, ServerPlace DEF Shut, GoTo, TypeOK
  <2>6. Pairing' BY <2>5, <1>1, PairingKept DEF Shut, connVars
  <2> QED BY <2>2, <2>3, <2>4, <2>6
<1>2. CASE DrainedCallback(s)
  <2>1. TypeOK' /\ HasOutc'
    BY <1>2 DEF DrainedCallback, vars, linkVars, loopVars, streamVars,
                stdinVars, TypeOK, HasOutc
  <2>2. ServerTypeOK'
    <3>1. cbs[s] \in Seq(Handlers) /\ cbs[s] # <<>>
      BY <1>2 DEF DrainedCallback, ServerTypeOK
    <3>2. Tail(cbs[s]) \in Seq(Handlers) BY <3>1
    <3>3. cbs' \in [Servers -> Seq(Handlers)]
      BY <3>2, <1>2 DEF DrainedCallback, ServerTypeOK
    <3> QED BY <3>3, <1>2 DEF DrainedCallback, ServerTypeOK, connVars, dataVars
  <2>3. Pairing'
    BY <1>2, PairingKept DEF DrainedCallback, vars, loopVars, connVars
  <2> QED BY <2>1, <2>2, <2>3
<1>3. CASE ShutChannels(s)
  <2>1. TypeOK'
    BY <1>0, <1>3 DEF ShutChannels, TypeOK, GoTo, LoopStates, linkVars,
                      streamVars, stdinVars
  <2>2. HasOutc' BY <1>3 DEF ShutChannels, HasOutc, streamVars
  <2>3. ServerTypeOK'
    <3>1. shutdown' \in [Servers -> SUBSET {"listener", "connc", "relayer", "donec"}]
      BY <1>3 DEF ShutChannels, ServerTypeOK
    <3> QED BY <3>1, <1>3 DEF ShutChannels, ServerTypeOK, connVars, dataVars
  <2>4. \A r \in Servers : /\ pc'[r] = "connected" <=> pc[r] = "connected"
                           /\ pc'[r] = "relay" => pc[r] = "relay"
    BY <1>0, <1>3, ServerPlace DEF ShutChannels, GoTo, TypeOK
  <2>5. Pairing' BY <2>4, <1>3, PairingKept DEF ShutChannels, connVars
  <2> QED BY <2>1, <2>2, <2>3, <2>5
<1>4. ASSUME NEW g \in Handlers, DrainPayload(s, g) PROVE ServerInv'
  <2>0. PICK back \in KindOf(g).sent :
          Step(g, back) /\ buf' = [buf EXCEPT ![g] = Sent(g, back)]
    BY <1>4 DEF DrainPayload, Sends
  <2>1. /\ hpc[g] = "send" /\ hpc' = [hpc EXCEPT ![g] = back]
        /\ buf' = [buf EXCEPT ![g] = Sent(g, back)]
        /\ UNCHANGED <<linkVars, loopVars, wg, started, closed, hin, outc,
                       draining, stdinVars, written, panic, serverVars,
                       connVars, dataVars>>
    BY <1>4, <2>0 DEF DrainPayload, Step
  <2>2. back \in HandlerStates /\ Sent(g, back) \in 0..Own
    <3>1. Sent(g, back) \in 0..Own
      <4>1. Sent(g, back) = buf[g] \/ Sent(g, back) = NoPayload BY DEF Sent
      <4>2. NoPayload \in 0..Own BY PipelineAssumption DEF NoPayload, Own
      <4>3. buf[g] \in 0..Own BY DEF TypeOK
      <4> QED BY <4>1, <4>2, <4>3
    <3> QED BY <3>1, KindsType, KindOfType DEF KindStates, HandlerStates
  <2>3. TypeOK'
    BY <2>1, <2>2 DEF TypeOK, linkVars, loopVars, stdinVars
  <2>4. \A f \in Handlers : hpc[f] \in {"idle", "start", "cb"} => hpc'[f] = hpc[f]
    BY <2>1 DEF TypeOK
  <2>5. HasOutc'
    <3>1. \A f \in Handlers : hpc[f] \notin {"idle", "start", "cb"} => outc[f] # NoChannel
      BY DEF HasOutc
    <3>2. \A f \in Handlers : hpc'[f] # hpc[f] => f = g BY <2>1 DEF TypeOK
    <3> QED BY <3>1, <3>2, <2>1 DEF HasOutc
  <2>6. ServerTypeOK' BY <2>1 DEF ServerTypeOK, serverVars, connVars, dataVars
  <2>7. Pairing'
    BY <2>1, <2>4, PairingKept DEF loopVars, serverVars, connVars, ServerHandlers
  <2> QED BY <2>3, <2>5, <2>6, <2>7
<1> QED BY <1>1, <1>2, <1>3, <1>4

-----------------------------------------------------------------------------
(* The goroutine of a connection moves on, and never back to before it had *)
(* a stream.                                                               *)
LEMMA ConnKeeps ==
  ASSUME ServerInv, NEW c \in Conns, Accept(c) \/ Conn(c)
  PROVE  ServerInv'
<1> USE DEF ServerInv
<1> DEFINE Had == {"serving", "leave", "gone"}
<1>1. /\ UNCHANGED <<linkVars, loopVars, wg, started, closed, hpc, streamVars,
                     stdinVars, written, serverVars, serves, dataVars>>
      /\ panic' \in {panic, "server"}
      /\ \/ cpc' = cpc
         \/ \E state \in ConnStates :
              /\ cpc' = [cpc EXCEPT ![c] = state]
              /\ state \notin Had => cpc[c] \notin Had
  <2>1. CASE Accept(c)
    BY <2>1 DEF Accept, GoConn, ConnStates, vars
  <2>2. CASE Reserve(c)
    BY <2>2 DEF Reserve, Panics, GoConn, ConnStates
  <2>3. CASE Refused(c)
    BY <2>3 DEF Refused, GoConn, ConnStates, vars
  <2>4. CASE TryDefault(c)
    BY <2>4 DEF TryDefault, GoConn, ConnStates, vars
  <2>5. CASE GiveUp(c)
    BY <2>5 DEF GiveUp, GoConn, ConnStates, vars
  <2>6. CASE OfferClosed(c)
    BY <2>6 DEF OfferClosed, Panics, GoConn, ConnStates
  <2>7. CASE Served(c)
    BY <2>7 DEF Served, GoConn, ConnStates, vars
  <2>8. CASE Leave(c)
    BY <2>8 DEF Leave, GoConn, ConnStates, vars
  <2> QED BY <2>1, <2>2, <2>3, <2>4, <2>5, <2>6, <2>7, <2>8 DEF Conn
<1>2. TypeOK'
  BY <1>1 DEF TypeOK, linkVars, loopVars, streamVars, stdinVars
<1>3. HasOutc' BY <1>1 DEF HasOutc, streamVars
<1>4. ServerTypeOK'
  <2>1. cpc' \in [Conns -> ConnStates] BY <1>1 DEF ServerTypeOK
  <2> QED BY <2>1, <1>1 DEF ServerTypeOK, serverVars, dataVars
<1>5. Pairing'
  <2>1. \A d \in Conns : cpc'[d] \notin Had => cpc[d] \notin Had
    BY <1>1 DEF ServerTypeOK
  <2> QED BY <2>1, <1>1, PairingKept DEF loopVars, serverVars
<1> QED BY <1>2, <1>3, <1>4, <1>5

-----------------------------------------------------------------------------
(* The handler of a stream *)

WriterStates == {"idle", "recv", "write", "drain", "done"}

(* A handler runs for a connection for good: no step of one goes back to   *)
(* "idle", whatever else it does to its own state.                         *)
LEMMA HandlerStepKeeps ==
  ASSUME ServerInv, TypeOK', HasOutc',
         UNCHANGED <<linkVars, loopVars, hin, serverVars, connVars>>,
         \A h \in ServerHandlers : hpc[h] = "idle" => hpc'[h] = "idle",
         wpc' \in [Handlers -> WriterStates],
         said' \in [Handlers -> 0..Payloads]
  PROVE  ServerInv'
<1> USE DEF ServerInv
<1>1. ServerTypeOK'
  BY DEF ServerTypeOK, serverVars, connVars, WriterStates
<1>2. Pairing' BY PairingKept DEF loopVars, serverVars, connVars
<1> QED BY <1>1, <1>2

LEMMA ServerKind ==
  ASSUME NEW h \in ServerHandlers
  PROVE  /\ h \in Handlers /\ h[1] \in Modules /\ h # NoChannel
         /\ McSeen(h) = h /\ ~KindOf(h).early
         /\ KindOf(h).enter \subseteq {"read", "send", "close"}
         /\ KindOf(h).take \subseteq HandlerStates
         /\ KindOf(h).sent \subseteq HandlerStates \ {"idle", "start", "cb"}
<1>1. /\ h \in Handlers /\ h[1] \in Modules /\ h # NoChannel
      /\ KindOf(h).role = "server"
  BY DEF ServerHandlers, IsServer, KindOf, NoChannel
<1>2. KindStates(KindOf(h)) BY <1>1, KindsType, KindOfType
<1> QED BY <1>1, <1>2 DEF KindStates, McSeen, HandlerStates

(* What a handler of any module does: Start, Transfer and so on *)
LEMMA SharedKeeps ==
  ASSUME ServerInv, NEW h \in ServerHandlers, Shared(h),
         UNCHANGED <<serverVars, connVars, dataVars>>
  PROVE  ServerInv'
<1> USE DEF ServerInv
<1>0. h \in Handlers /\ McSeen(h) = h BY ServerKind
<1>1. TypeOK' BY <1>0, SharedType
<1>2. /\ UNCHANGED <<linkVars, loopVars, hin, outc>>
      /\ \A f \in Handlers : /\ hpc[f] \in {"idle", "start", "cb"} =>
                                  hpc'[f] \in {"idle", "start", "cb"}
                             /\ hpc[f] = "idle" => hpc'[f] = "idle"
  <2>1. ASSUME NEW g \in Handlers, Transfer(g, h)
        PROVE  /\ UNCHANGED <<linkVars, loopVars, hin, outc>>
               /\ \A f \in Handlers :
                    hpc[f] \in {"idle", "start", "cb"} => hpc'[f] = hpc[f]
    BY <2>1, <1>0, TransferFrame
  <2>2. CASE Start(h)
    BY <2>2, <1>0, ServerKind DEF Start, Step, TypeOK
  <2>3. CASE \/ SendClosed(h) \/ InputClosed(h) \/ CloseOutc(h) \/ Done(h)
    <3>1. UNCHANGED <<linkVars, loopVars, hin, outc>>
      BY <2>3 DEF SendClosed, InputClosed, CloseOutc, Done, streamVars
    <3>2. /\ hpc[h] \notin {"idle", "start", "cb"}
          /\ hpc' = hpc \/ \E state : hpc' = [hpc EXCEPT ![h] = state]
      BY <2>3 DEF SendClosed, InputClosed, CloseOutc, Done, Step
    <3> QED BY <3>1, <3>2 DEF TypeOK
  <2> QED BY <2>1, <2>2, <2>3 DEF Shared
<1>3. HasOutc' BY <1>2 DEF HasOutc, TypeOK
<1>4. \A f \in ServerHandlers : hpc[f] = "idle" => hpc'[f] = "idle"
  BY <1>2 DEF ServerHandlers
<1>5. wpc' = wpc /\ said' = said BY DEF dataVars
<1> QED BY <1>1, <1>2, <1>3, <1>4, <1>5, HandlerStepKeeps
        DEF ServerTypeOK, WriterStates

(* A handler at work moves to another state that is not the beginning.     *)
LEMMA MovesKeeps ==
  ASSUME ServerInv, NEW h \in ServerHandlers, NEW state \in HandlerStates,
         Step(h, state), state \notin {"idle", "start", "cb"},
         hpc[h] # "idle",
         \/ outc' = outc /\ hpc[h] \notin {"start", "cb"}
         \/ outc' = [outc EXCEPT ![h] = h],
         buf' \in [Handlers -> 0..Own],
         UNCHANGED <<linkVars, loopVars, wg, started, closed, hin, draining,
                     stdinVars, written, panic, serverVars, connVars>>,
         wpc' \in [Handlers -> WriterStates],
         said' \in [Handlers -> 0..Payloads]
  PROVE  ServerInv'
<1> USE DEF ServerInv
<1>0. h \in Handlers /\ h # NoChannel BY ServerKind
<1>1. hpc' = [hpc EXCEPT ![h] = state] BY DEF Step
<1>2. TypeOK'
  <2>1. hpc' \in [Handlers -> HandlerStates] BY <1>1 DEF TypeOK
  <2>2. outc' \in [Handlers -> Handlers \cup {NoChannel}]
    <3>1. outc \in [Handlers -> Handlers \cup {NoChannel}]
          /\ h \in Handlers \cup {NoChannel}
      BY <1>0 DEF TypeOK
    <3>2. CASE outc' = outc BY <3>1, <3>2
    <3>3. CASE outc' = [outc EXCEPT ![h] = h] BY <3>1, <3>3
    <3> QED BY <3>2, <3>3
  <2> QED BY <2>1, <2>2 DEF TypeOK, linkVars, loopVars, stdinVars
<1>3. HasOutc'
  <2>1. \A f \in Handlers : f # h => hpc'[f] = hpc[f] /\ outc'[f] = outc[f]
    BY <1>1 DEF TypeOK
  <2>2. outc'[h] # NoChannel
    <3>1. CASE outc' = outc /\ hpc[h] \notin {"start", "cb"}
      BY <3>1, <1>0 DEF HasOutc
    <3>2. CASE outc' = [outc EXCEPT ![h] = h] BY <3>2, <1>0 DEF TypeOK
    <3> QED BY <3>1, <3>2
  <2> QED BY <2>1, <2>2 DEF HasOutc
<1>4. \A f \in ServerHandlers : hpc[f] = "idle" => hpc'[f] = "idle"
  BY <1>1 DEF TypeOK, ServerHandlers
<1> QED BY <1>2, <1>3, <1>4, HandlerStepKeeps

(* The writer alone *)
LEMMA WriterKeeps ==
  ASSUME ServerInv, NEW h \in ServerHandlers, NEW state \in WriterStates,
         wpc' = [wpc EXCEPT ![h] = state],
         UNCHANGED <<vars, serverVars, connVars, said>>
  PROVE  ServerInv'
<1> USE DEF ServerInv
<1>1. TypeOK' /\ HasOutc'
  BY DEF vars, linkVars, loopVars, streamVars, stdinVars, TypeOK, HasOutc
<1>2. wpc' \in [Handlers -> WriterStates] BY DEF ServerTypeOK, WriterStates
<1>3. said' \in [Handlers -> 0..Payloads] BY DEF ServerTypeOK
<1>4. /\ UNCHANGED <<linkVars, loopVars, hin, serverVars, connVars>>
      /\ \A f \in ServerHandlers : hpc[f] = "idle" => hpc'[f] = "idle"
  BY DEF vars, streamVars
<1> QED BY <1>1, <1>2, <1>3, <1>4, HandlerStepKeeps

(* The steps that are a server's own *)
LEMMA OwnKeeps ==
  ASSUME ServerInv, NEW h \in ServerHandlers,
         \/ ServerCallback(h) \/ HandshakeFails(h)
         \/ ReadConn(h) \/ ReadConnEnd(h) \/ ClientGone(h)
         \/ \E g \in Handlers : WriterRecv(g, h)
  PROVE  ServerInv'
<1> USE DEF ServerInv
<1>0. h \in Handlers BY ServerKind
<1>1. /\ buf \in [Handlers -> 0..Own] /\ Own \in 0..Own /\ 0 \in 0..Own
      /\ wpc \in [Handlers -> WriterStates]
      /\ said \in [Handlers -> 0..Payloads]
  <2>1. buf \in [Handlers -> 0..Own] BY DEF TypeOK
  <2>2. Own \in 0..Own /\ 0 \in 0..Own BY PipelineAssumption DEF Own
  <2>3. wpc \in [Handlers -> WriterStates] /\ said \in [Handlers -> 0..Payloads]
    BY DEF ServerTypeOK, WriterStates
  <2> QED BY <2>1, <2>2, <2>3
<1>2. CASE ServerCallback(h)
  <2>1. PICK next \in KindOf(h).enter :
          /\ Step(h, next)
          /\ buf' = [buf EXCEPT ![h] = IF next = "send" THEN Own ELSE @]
          /\ wpc' = [wpc EXCEPT ![h] = WriterAfter(h, next)]
    BY <1>2 DEF ServerCallback
  <2>2. next \in {"read", "send", "close"} BY ServerKind
  <2>3. WriterAfter(h, next) \in WriterStates
    BY <2>2 DEF WriterAfter, WriterStates
  <2>4. buf' \in [Handlers -> 0..Own] /\ wpc' \in [Handlers -> WriterStates]
    BY <2>1, <2>3, <1>1
  <2>5. next \in HandlerStates /\ next \notin {"idle", "start", "cb"}
    BY <2>2 DEF HandlerStates
  <2>6. /\ hpc[h] # "idle" /\ outc' = [outc EXCEPT ![h] = h] /\ said' = said
        /\ UNCHANGED <<linkVars, loopVars, wg, started, closed, hin, draining,
                       stdinVars, written, panic, serverVars, connVars>>
    BY <1>2 DEF ServerCallback
  <2> QED BY <2>1, <2>4, <2>5, <2>6, <1>1, MovesKeeps
<1>3. CASE HandshakeFails(h)
  <2>1. /\ hpc[h] # "idle" /\ outc' = [outc EXCEPT ![h] = h]
        /\ Step(h, "close") /\ buf' = buf /\ said' = said /\ wpc' = wpc
        /\ UNCHANGED <<linkVars, loopVars, wg, started, closed, hin, draining,
                       stdinVars, written, panic, serverVars, connVars>>
    BY <1>3 DEF HandshakeFails, dataVars
  <2> QED BY <2>1, <1>1, MovesKeeps DEF HandlerStates
<1>4. CASE ReadConn(h)
  <2>1. /\ said' = [said EXCEPT ![h] = said[h] + 1]
        /\ buf' = [buf EXCEPT ![h] = said[h] + 1]
        /\ said[h] < Payloads /\ said[h] \in 0..Payloads
    BY <1>0, <1>1, <1>4 DEF ReadConn
  <2>2. said[h] + 1 \in 0..Payloads /\ said[h] + 1 \in 0..Own
    BY <2>1, PipelineAssumption DEF Own
  <2>3. buf' \in [Handlers -> 0..Own] /\ said' \in [Handlers -> 0..Payloads]
    BY <2>1, <2>2, <1>1
  <2>4. /\ hpc[h] = "read" /\ outc' = outc /\ Step(h, "send") /\ wpc' = wpc
        /\ UNCHANGED <<linkVars, loopVars, wg, started, closed, hin, draining,
                       stdinVars, written, panic, serverVars, connVars>>
    BY <1>4 DEF ReadConn, Reading
  <2> QED BY <2>3, <2>4, <1>1, MovesKeeps DEF HandlerStates
<1>5. CASE ReadConnEnd(h) \/ ClientGone(h)
  <2>1. /\ hpc[h] \in {"read", "recv"}
        /\ \E state \in {"close", "recv"} : Step(h, state)
        /\ outc' = outc /\ buf' = buf /\ wpc' = wpc /\ said' = said
        /\ UNCHANGED <<linkVars, loopVars, wg, started, closed, hin, draining,
                       stdinVars, written, panic, serverVars, connVars>>
    BY <1>5 DEF ReadConnEnd, ClientGone, Reading, streamVars, dataVars
  <2> QED BY <2>1, <1>1, MovesKeeps DEF HandlerStates
<1>6. ASSUME NEW g \in Handlers, WriterRecv(g, h) PROVE ServerInv'
  <2>0. PICK back \in KindOf(g).sent :
          Step(g, back) /\ buf' = [buf EXCEPT ![g] = Sent(g, back)]
    BY <1>6 DEF WriterRecv, Sends
  <2>1. /\ hpc[g] = "send" /\ hpc' = [hpc EXCEPT ![g] = back]
        /\ buf' = [buf EXCEPT ![g] = Sent(g, back)]
        /\ wpc' = wpc \/ wpc' = [wpc EXCEPT ![h] = "write"]
        /\ said' = said /\ outc' = outc
        /\ UNCHANGED <<linkVars, loopVars, wg, started, closed, hin, draining,
                       stdinVars, written, panic, serverVars, connVars>>
    <3>1. wpc' = [wpc EXCEPT ![h] = IF wpc[h] = "recv" THEN "write" ELSE wpc[h]]
      BY <1>6 DEF WriterRecv
    <3>2. wpc' = wpc \/ wpc' = [wpc EXCEPT ![h] = "write"]
      BY <3>1, <1>0, <1>1
    <3> QED BY <3>2, <1>6, <2>0 DEF WriterRecv, Step
  <2>2. back \in HandlerStates \ {"idle", "start", "cb"}
    BY KindsType, KindOfType DEF KindStates, HandlerStates
  <2>3. buf' \in [Handlers -> 0..Own]
    <3>1. Sent(g, back) \in 0..Own BY <1>1 DEF Sent, NoPayload
    <3> QED BY <3>1, <2>1, <1>1
  <2>4. wpc' \in [Handlers -> WriterStates] BY <2>1, <1>1 DEF WriterStates
  <2>5. TypeOK'
    BY <2>1, <2>2, <2>3 DEF TypeOK, linkVars, loopVars, stdinVars
  <2>6. HasOutc'
    <3>1. outc[g] # NoChannel BY <2>1 DEF HasOutc
    <3>2. \A f \in Handlers : hpc'[f] # hpc[f] => f = g BY <2>1 DEF TypeOK
    <3> QED BY <3>1, <3>2, <2>1 DEF HasOutc
  <2>7. \A f \in ServerHandlers : hpc[f] = "idle" => hpc'[f] = "idle"
    BY <2>1 DEF TypeOK, ServerHandlers
  <2> QED BY <2>1, <2>4, <2>5, <2>6, <2>7, <1>1, HandlerStepKeeps
<1> QED BY <1>2, <1>3, <1>4, <1>5, <1>6

(* All steps of a handler *)
LEMMA ServerHandlerKeeps ==
  ASSUME ServerInv, NEW h \in ServerHandlers,
         ReadLoop(h) \/ WriteLoop(h) \/ ClientStep(h)
  PROVE  ServerInv'
<1>1. CASE Shared(h) /\ UNCHANGED <<serverVars, connVars, dataVars>>
  BY <1>1, SharedKeeps
<1>2. CASE \/ ServerCallback(h) \/ HandshakeFails(h)
           \/ ReadConn(h) \/ ReadConnEnd(h) \/ ClientGone(h)
           \/ \E g \in Handlers : WriterRecv(g, h)
  BY <1>2, OwnKeeps
<1>3. CASE StartWriter(h) \/ WriteConn(h) \/ WriterEnd(h)
  <2>1. /\ \E state \in WriterStates : wpc' = [wpc EXCEPT ![h] = state]
        /\ UNCHANGED <<vars, serverVars, connVars, said>>
    BY <1>3 DEF StartWriter, WriteConn, WriterEnd, WriterStates
  <2> QED BY <2>1, WriterKeeps
<1> QED BY <1>1, <1>2, <1>3
        DEF ReadLoop, WriteLoop, ClientStep, Shared

-----------------------------------------------------------------------------
LEMMA ServerKeeps ==
  ASSUME ServerInv, NEW s \in Servers, Server(s)
  PROVE  ServerInv'
<1>1. CASE SelectTick(s) \/ SelectTerminate(s) BY <1>1, LeaveKeeps
<1>2. ASSUME NEW c \in Conns, c[1] = s, SelectConn(s, c) \/ Relayed(s, c)
      PROVE  ServerInv'
  BY <1>2, SelectConnKeeps, RelayedKeeps
<1>3. CASE Connected(s) BY <1>3, ConnectedKeeps
<1>4. CASE SelectCallback(s) BY <1>4, SelectCallbackKeeps
<1>5. CASE /\ \/ Join(s, "join", "terminate") \/ SendTerminate(s, "shut")
              \/ Last(s, s - 1) \/ CloseOut(s, "done")
           /\ UNCHANGED <<serverVars, connVars, dataVars>>
  BY <1>5, EndsKeeps
<1>6. CASE \/ Shut(s) \/ DrainedCallback(s) \/ ShutChannels(s)
           \/ \E g \in Handlers : DrainPayload(s, g)
  BY <1>6, WindDownKeeps
<1> QED BY <1>1, <1>2, <1>3, <1>4, <1>5, <1>6 DEF Server, Select, WindDown

LEMMA ServerInitially == ASSUME ServerInit PROVE ServerInv
<1>1. TypeOK /\ HasOutc BY InitType DEF ServerInit, Init, HasOutc
<1>2. ServerTypeOK
  <2>1. 0 \in 0..Payloads BY PipelineAssumption
  <2>2. <<>> \in Seq(Handlers) OBVIOUS
  <2> QED BY <2>1, <2>2 DEF ServerInit, ServerTypeOK, NoRelay, ConnStates
<1>3. Pairing
  <2>1. \A s \in Servers : mcs[s] = <<>> /\ pc[s] = "select"
    BY ServerPlace DEF ServerInit, Init
  <2>2. Waits BY <2>1 DEF Waits
  <2>3. HandsOver BY <2>1 DEF HandsOver
  <2>4. \A c \in Conns : serves[c] = NoChannel BY DEF ServerInit
  <2>5. Has BY <2>4 DEF Has
  <2>6. OneConnPerStream
    BY <2>4 DEF OneConnPerStream, ServerInit, Init, ServerHandlers
  <2> QED BY <2>2, <2>3, <2>5, <2>6 DEF Pairing
<1> QED BY <1>1, <1>2, <1>3 DEF ServerInv

(* Every state of a pipeline with servers is well typed, and an announced  *)
(* stream is in one place: on the list of those that wait, in the pair the *)
(* loop hands over, or with one connection (tcpServer.go:154-258 and the   *)
(* same loops of tls.go, websocketServer.go and httpServer.go).            *)
THEOREM ServerInvHolds == ServerSpec => []ServerInv
<1>1. ServerInit => ServerInv BY ServerInitially
<1>2. ServerInv /\ [ServerNext \/ ServerStopped]_allVars => ServerInv'
  <2> SUFFICES ASSUME ServerInv, ServerNext \/ UNCHANGED allVars
               PROVE  ServerInv'
    BY DEF ServerStopped
  <2>1. CASE Next /\ UNCHANGED <<serverVars, connVars, dataVars>>
    BY <2>1, PipelineKeeps
  <2>2. ASSUME NEW s \in Servers, Tick(s) \/ Server(s) PROVE ServerInv'
    BY <2>2, TickKeeps, ServerKeeps
  <2>3. ASSUME NEW c \in Conns, Accept(c) \/ Conn(c) PROVE ServerInv'
    BY <2>3, ConnKeeps
  <2>4. ASSUME NEW h \in ServerHandlers,
               ReadLoop(h) \/ WriteLoop(h) \/ ClientStep(h)
        PROVE  ServerInv'
    BY <2>4, ServerHandlerKeeps
  <2>5. CASE UNCHANGED allVars
    <3>1. UNCHANGED vars /\ UNCHANGED <<serverVars, connVars, dataVars>>
      BY <2>5 DEF allVars
    <3>2. TypeOK' /\ HasOutc'
      BY <3>1 DEF ServerInv, vars, linkVars, loopVars, streamVars, stdinVars,
                  TypeOK, HasOutc
    <3>3. ServerTypeOK'
      BY <3>1 DEF ServerInv, ServerTypeOK, serverVars, connVars, dataVars
    <3>4. Pairing'
      BY <3>1, PairingKept DEF ServerInv, vars, loopVars, serverVars, connVars
    <3> QED BY <3>2, <3>3, <3>4 DEF ServerInv
  <2> QED BY <2>1, <2>2, <2>3, <2>4, <2>5 DEF ServerNext
<1> QED BY <1>1, <1>2, PTL DEF ServerSpec

(* Two connections never share a stream, and no handler runs for a client  *)
(* that is not there, however many servers, clients and streams there are: *)
(* the pair sent on `relayer' reaches one connection and is never sent     *)
(* again (tcpServer.go:76-111, 189-258).                                   *)
THEOREM OwnStreams == ServerSpec => []OneConnPerStream
<1>1. ServerInv => OneConnPerStream BY DEF ServerInv, Pairing
<1> QED BY <1>1, ServerInvHolds, PTL
=============================================================================
