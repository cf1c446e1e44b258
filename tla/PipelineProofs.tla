--------------------------- MODULE PipelineProofs ---------------------------
(***************************************************************************)
(* Theorems about Pipeline for every command line: any number of modules   *)
(* of any kinds, any size of the links, any number of payloads.            *)
(***************************************************************************)
EXTENDS Pipeline, TLAPS

USE DEF Relay, Modules, Places, Handlers,
        Counting, NextMc, Unlocked

(* Where a handler of any kind may stand after each of its steps. *)
KindStates(k) ==
  /\ k.enter \subseteq {"recv", "close", "lock", "send", "source",
                        "fail", "read"}
  /\ k.take \subseteq {"recv", "send", "close"}
  /\ k.sent \subseteq {"recv", "send", "select", "close", "source", "read"}
  /\ k.end \subseteq {"send", "close", "source"}
  /\ k.after \in {"drain", "finish"}
  /\ k.role = "server" => /\ ~k.byRef /\ ~k.early
                          /\ k.enter \subseteq {"read", "send", "close"}
  /\ k.byRef => k.single

LEMMA KindsType == \A k \in Kinds : KindStates(k)
<1>1. KindStates(Upper) BY DEF KindStates, Upper
<1>2. KindStates(Lower) BY DEF KindStates, Upper, Lower
<1>3. KindStates(HexDecode) BY DEF KindStates, Upper, HexDecode
<1>4. KindStates(Dgst) BY DEF KindStates, Upper, Dgst
<1>5. KindStates(Gzip) BY DEF KindStates, Upper, Gzip
<1>6. KindStates(Null) BY DEF KindStates, Upper, Null
<1>7. KindStates(Env) BY DEF KindStates, Upper, Env
<1>8. KindStates(ReadFile) BY DEF KindStates, Upper, ReadFile
<1>9. KindStates(WriteFile) BY DEF KindStates, Upper, WriteFile
<1>10. KindStates(Stdin) BY DEF KindStates, Upper, Stdin
<1>11. KindStates(Stdout) BY DEF KindStates, Upper, Stdout
<1>12. KindStates(ServerSide) BY DEF KindStates, Upper, ServerSide
<1>13. KindStates(Byte) BY DEF KindStates, Upper, HexDecode, Byte
<1>14. KindStates(AesEncrypt) BY DEF KindStates, Upper, HexDecode, AesEncrypt
<1>15. KindStates(Unzip) BY DEF KindStates, Upper, Unzip
<1>16. KindStates(Tcp) BY DEF KindStates, Upper, ReadFile, Tcp
<1>17. KindStates(Gunzip) BY DEF KindStates, Upper, ReadFile, Gunzip
<1>18. KindStates(TlsSide) BY DEF KindStates, Upper, ServerSide, TlsSide
<1>19. KindStates(WebsocketSide)
  BY DEF KindStates, Upper, ServerSide, WebsocketSide
<1>20. KindStates(HttpSide) BY DEF KindStates, Upper, ServerSide, HttpSide
<1>21. KindStates(QueryElasticsearch)
  BY DEF KindStates, Upper, ReadFile, Gunzip, QueryElasticsearch
<1> QED BY <1>1, <1>2, <1>3, <1>4, <1>5, <1>6, <1>7, <1>8, <1>9, <1>10,
           <1>11, <1>12, <1>13, <1>14, <1>15, <1>16, <1>17, <1>18, <1>19,
           <1>20, <1>21
        DEF Kinds, HexEncode, ReadS3, WriteS3, Http, Websocket, Fork,
            WriteElasticsearch

LEMMA KindOfType ==
  ASSUME NEW h \in Handlers
  PROVE  h[1] \in Modules /\ KindOf(h) \in Kinds
BY PipelineAssumption DEF KindOf

(* What the actions do to a link keeps it a sequence of messages. *)
LEMMA MessageType ==
  /\ Terminate \in Messages
  /\ \A c \in Handlers : Channel(c) \in Messages
BY DEF Messages

LEMMA HeldType ==
  ASSUME NEW msg \in Messages
  PROVE  msg.mc \in Handlers \cup {NoChannel}
BY DEF Messages, Terminate, Channel

LEMMA SendType ==
  ASSUME TypeOK, NEW l \in Places, NEW msg \in Messages, Send(l, msg)
  PROVE  link' \in [Places -> Seq(Messages)]
<1>1. link[l] \in Seq(Messages) BY DEF TypeOK
<1>2. Append(link[l], msg) \in Seq(Messages) BY <1>1
<1> QED BY <1>2 DEF Send, TypeOK

LEMMA ReceiveType ==
  ASSUME TypeOK, NEW l \in Places, Receive(l)
  PROVE  /\ link' \in [Places -> Seq(Messages)]
         /\ Head(link[l]) \in Messages
<1>1. link[l] \in Seq(Messages) /\ link[l] # <<>>
  BY DEF TypeOK, Receive, Pending
<1>2. Head(link[l]) \in Messages /\ Tail(link[l]) \in Seq(Messages)
  BY <1>1
<1> QED BY <1>2 DEF Receive, TypeOK

(* The initial state is well typed. *)
LEMMA InitType == ASSUME Init PROVE TypeOK
<1> USE PipelineAssumption
<1>1. Terminate \in Messages BY MessageType
<1>2. pc \in [Places -> LoopStates] BY DEF Init, LoopStates
<1>3. made \in [Modules -> 0..MaxStreams]
  BY DEF Init
<1> QED BY <1>1, <1>2, <1>3
        DEF Init, TypeOK, HandlerStates, Own, NoPayload, NoChannel

(* Every step of a module's loop keeps the types. *)
LEMMA LoopType ==
  ASSUME TypeOK, NEW m \in Modules, ~IsServer(m), Loop(m)
  PROVE  TypeOK'
<1> USE PipelineAssumption
<1>0. /\ m \in Places /\ m - 1 \in Places /\ Mc(m) \in Handlers
      /\ Channel(Mc(m)) \in Messages /\ Terminate \in Messages
  <2>1. m \in Places /\ m - 1 \in Places OBVIOUS
  <2>2. made[m] \in 1..MaxStreams BY DEF TypeOK
  <2>3. Mc(m) \in Handlers BY <2>2 DEF Mc
  <2> QED BY <2>1, <2>3, MessageType
<1>1. CASE Announce(m)
  <2>1. link' \in [Places -> Seq(Messages)] BY <1>0, <1>1, SendType DEF Announce
  <2> QED BY <2>1, <1>0, <1>1 DEF Announce, TypeOK, GoTo, LoopStates, streamVars, stdinVars
<1>2. CASE RecvTerminate(m)
  <2>1. link' \in [Places -> Seq(Messages)]
    BY <1>0, <1>2, ReceiveType DEF RecvTerminate
  <2>2. closed' \subseteq Handlers /\ panic' \in {"none", "stream", "cancel", "server"}
    <3>1. \/ UNCHANGED <<closed, panic>>
          \/ panic' = "stream" /\ closed' = closed
          \/ panic' = panic /\ closed' = closed \cup {Mc(m)}
      BY <1>2 DEF RecvTerminate, CloseChannel
    <3>2. closed \subseteq Handlers /\ panic \in {"none", "stream", "cancel", "server"}
      BY DEF TypeOK
    <3> QED BY <3>1, <3>2, <1>0
  <2>3. pc' \in [Places -> LoopStates]
    BY <1>0, <1>2 DEF RecvTerminate, GoTo, TypeOK, LoopStates
  <2> QED BY <2>1, <2>2, <2>3, <1>2 DEF RecvTerminate, TypeOK, streamVars, stdinVars
<1>3. CASE RecvFirstChannel(m)
  <2>1. link' \in [Places -> Seq(Messages)] /\ Head(link[m - 1]) \in Messages
    BY <1>0, <1>3, ReceiveType DEF RecvFirstChannel
  <2>2. Head(link[m - 1]).mc \in Handlers \cup {NoChannel} BY <2>1, HeldType
  <2> QED BY <2>1, <2>2, <1>0, <1>3
          DEF RecvFirstChannel, Spawn, AfterSpawn, TypeOK, GoTo, LoopStates,
              HandlerStates, stdinVars
<1>4. CASE RecvNextChannel(m)
  <2>1. link' \in [Places -> Seq(Messages)] /\ Head(link[m - 1]) \in Messages
    BY <1>0, <1>4, ReceiveType DEF RecvNextChannel
  <2>2. /\ made' \in [Modules -> 0..MaxStreams]
        /\ \A i \in Modules : IsServer(i) \/ made'[i] # 0
    <3>1. made[m] + 1 \in 1..MaxStreams BY <1>4 DEF RecvNextChannel, TypeOK
    <3>2. made' = [made EXCEPT ![m] = made[m] + 1]
      BY <1>4 DEF RecvNextChannel, NextMc
    <3>3. made' \in [Modules -> 0..MaxStreams] BY <3>1, <3>2 DEF TypeOK
    <3>4. ASSUME NEW i \in Modules PROVE IsServer(i) \/ made'[i] # 0
      <4>1. CASE i = m BY <3>1, <3>2, <4>1 DEF TypeOK
      <4>2. CASE i # m BY <3>2, <4>2 DEF TypeOK
      <4> QED BY <4>1, <4>2
    <3> QED BY <3>3, <3>4
  <2>3. pc' \in [Places -> LoopStates] /\ held' \in [Places -> Messages]
    BY <2>1, <1>0, <1>4 DEF RecvNextChannel, GoTo, TypeOK, LoopStates
  <2> QED BY <2>1, <2>2, <2>3, <1>4
          DEF RecvNextChannel, TypeOK, streamVars, stdinVars
<1>5. CASE AnnounceNext(m)
  <2>1. link' \in [Places -> Seq(Messages)] BY <1>0, <1>5, SendType DEF AnnounceNext
  <2>2. held[m].mc \in Handlers \cup {NoChannel} BY <1>0, HeldType DEF TypeOK
  <2> QED BY <2>1, <2>2, <1>0, <1>5
          DEF AnnounceNext, Spawn, AfterSpawn, TypeOK, GoTo, LoopStates,
              HandlerStates, stdinVars
<1>6. CASE Cancelled(m)
  BY <1>0, <1>6 DEF Cancelled, TypeOK, GoTo, LoopStates, linkVars, streamVars, stdinVars
<1>7. CASE Join(m, "join", "terminate") \/ Join(m, "drain", "last")
  BY <1>0, <1>7 DEF Join, TypeOK, GoTo, LoopStates, linkVars, streamVars, stdinVars
<1>8. CASE SendTerminate(m, "drain")
  <2>1. link' \in [Places -> Seq(Messages)] BY <1>0, <1>8, SendType DEF SendTerminate
  <2> QED BY <2>1, <1>0, <1>8
          DEF SendTerminate, TypeOK, GoTo, LoopStates, streamVars, stdinVars
<1>9. CASE Last(m, m - 1)
  <2>1. link' \in [Places -> Seq(Messages)]
    BY <1>0, <1>9, ReceiveType DEF Last, TypeOK
  <2> QED BY <2>1, <1>0, <1>9 DEF Last, TypeOK, GoTo, LoopStates, streamVars, stdinVars
<1>10. CASE CloseOut(m, "done")
  BY <1>0, <1>10 DEF CloseOut, TypeOK, GoTo, LoopStates, streamVars, stdinVars
<1> QED BY <1>1, <1>2, <1>3, <1>4, <1>5, <1>6, <1>7, <1>8, <1>9, <1>10 DEF Loop

(* So does every step of RelayMessages. *)
LEMMA RelayType ==
  ASSUME TypeOK, RelayMessages
  PROVE  TypeOK'
<1> USE PipelineAssumption
<1>0. Relay \in Places /\ N \in Places BY DEF Places
<1>1. CASE RelayRecv
  <2>1. link' \in [Places -> Seq(Messages)] /\ Head(link[N]) \in Messages
    BY <1>0, <1>1, ReceiveType DEF RelayRecv
  <2> QED BY <2>1, <1>0, <1>1
          DEF RelayRecv, TypeOK, GoTo, LoopStates, streamVars, stdinVars
<1>2. CASE RelayForward
  <2>1. link' \in [Places -> Seq(Messages)]
    BY <1>0, <1>2, SendType DEF RelayForward, TypeOK
  <2> QED BY <2>1, <1>0, <1>2
          DEF RelayForward, TypeOK, GoTo, LoopStates, streamVars, stdinVars
<1>3. CASE Last(Relay, N)
  <2>1. link' \in [Places -> Seq(Messages)]
    BY <1>0, <1>3, ReceiveType DEF Last, TypeOK
  <2> QED BY <2>1, <1>0, <1>3 DEF Last, TypeOK, GoTo, LoopStates, streamVars, stdinVars
<1>4. CASE CloseOut(Relay, "exited")
  BY <1>0, <1>4 DEF CloseOut, TypeOK, GoTo, LoopStates, streamVars, stdinVars
<1> QED BY <1>1, <1>2, <1>3, <1>4 DEF RelayMessages

(* A payload that changes hands moves its sender, and the handler that     *)
(* took it in its range over `inc'.                                        *)
LEMMA TransferFrame ==
  ASSUME TypeOK, NEW g \in Handlers, NEW h \in Handlers, Transfer(g, h)
  PROVE  /\ hpc[g] = "send" /\ hpc'[g] \in KindOf(g).sent
         /\ g # h => \/ hpc'[h] = hpc[h]
                     \/ hpc[h] = "recv" /\ hpc'[h] \in KindOf(h).take
         /\ \A f \in Handlers \ {g, h} : hpc'[f] = hpc[f]
         /\ UNCHANGED <<linkVars, loopVars, wg, closed, hin, outc, draining,
                        stdinVars, panic>>
<1>1. PICK next \in AfterRecv(h), back \in KindOf(g).sent :
        hpc' = [hpc EXCEPT ![h] = next, ![g] = back]
  BY DEF Transfer
<1>2. /\ hpc'[g] \in KindOf(g).sent
      /\ g # h => hpc'[h] = next
      /\ \A f \in Handlers \ {g, h} : hpc'[f] = hpc[f]
  BY <1>1 DEF TypeOK
<1>3. next = hpc[h] \/ (hpc[h] = "recv" /\ next \in KindOf(h).take)
  BY <1>1 DEF AfterRecv
<1>4. /\ hpc[g] = "send"
      /\ UNCHANGED <<linkVars, loopVars, wg, closed, hin, outc, draining,
                     stdinVars, panic>>
  BY DEF Transfer
<1>5. g # h => \/ hpc'[h] = hpc[h]
               \/ hpc[h] = "recv" /\ hpc'[h] \in KindOf(h).take
  BY <1>2, <1>3
<1> QED BY <1>2, <1>4, <1>5

(* The steps that the handlers of servers take as well *)
Shared(h) ==
  \/ Start(h)
  \/ \E g \in Handlers : Transfer(g, h)
  \/ SendClosed(h)
  \/ InputClosed(h)
  \/ CloseOutc(h)
  \/ Done(h)

LEMMA SharedType ==
  ASSUME TypeOK, HasOutc, NEW h \in Handlers, McSeen(h) \in Handlers, Shared(h)
  PROVE  TypeOK'
<1> USE PipelineAssumption DEF linkVars, loopVars, streamVars, stdinVars
<1>0. h[1] \in Modules OBVIOUS
<1>1. CASE Start(h)
  <2>1. outc' = outc \/ outc' = [outc EXCEPT ![h] = McSeen(h)]
    BY <1>1 DEF Start, Bound
  <2>2. outc' \in [Handlers -> Handlers \cup {NoChannel}]
    BY <2>1 DEF TypeOK
  <2>3. hpc' = hpc \/ hpc' = [hpc EXCEPT ![h] = "cb"]
    BY <1>1 DEF Start, Step
  <2>4. hpc' \in [Handlers -> HandlerStates]
    BY <2>3 DEF TypeOK, HandlerStates
  <2>5. started' \subseteq Handlers
    <3>1. started' = started \/ started' = Unlocked(h) BY <1>1 DEF Start
    <3>2. Unlocked(h) = started \cup {McSeen(h)} BY DEF Unlocked
    <3> QED BY <3>1, <3>2 DEF TypeOK
  <2> QED BY <2>2, <2>4, <2>5, <1>1 DEF Start, TypeOK
<1>3. ASSUME NEW g \in Handlers, Transfer(g, h) PROVE TypeOK'
  <2>1. PICK next \in AfterRecv(h), back \in KindOf(g).sent :
          /\ hpc' = [hpc EXCEPT ![h] = next, ![g] = back]
          /\ buf' = [buf EXCEPT ![h] = IF hpc[h] = "recv" /\ next = "send"
                                         THEN buf[g] ELSE @,
                                ![g] = Sent(g, back)]
    BY <1>3 DEF Transfer
  <2>2. back \in HandlerStates
    BY <2>1, KindsType, KindOfType DEF KindStates, HandlerStates
  <2>3. next \in HandlerStates
    <3>1. KindOf(h).take \subseteq HandlerStates
      BY KindsType, KindOfType DEF KindStates, HandlerStates
    <3> QED BY <2>1, <3>1 DEF AfterRecv, TypeOK
  <2>4. hpc' \in [Handlers -> HandlerStates]
    BY <2>1, <2>2, <2>3 DEF TypeOK
  <2>5. buf' \in [Handlers -> 0..Own]
    <3>1. buf[g] \in 0..Own /\ 0 \in 0..Own BY DEF Own, TypeOK
    <3>2. Sent(g, back) \in 0..Own BY <3>1 DEF Sent, NoPayload
    <3> QED BY <3>2, <2>1 DEF TypeOK
  <2>6. written' \in Seq(0..Own)
    <3>1. buf[g] \in 0..Own BY DEF TypeOK
    <3>2. written \in Seq(0..Own) BY DEF TypeOK
    <3>3. Append(written, buf[g]) \in Seq(0..Own) BY <3>1, <3>2
    <3> QED BY <3>2, <3>3, <1>3 DEF Transfer
  <2> QED BY <1>3, <2>4, <2>5, <2>6 DEF Transfer, TypeOK
<1>4. CASE SendClosed(h)
  BY <1>4 DEF SendClosed, TypeOK
<1>5. CASE InputClosed(h)
  <2>0. PICK next \in AfterInput(h) :
          /\ hpc' = [hpc EXCEPT ![h] = next]
          /\ buf' = [buf EXCEPT ![h] = IF next = "send" THEN Own ELSE @]
    BY <1>5 DEF InputClosed, Step
  <2>1. AfterInput(h) \subseteq HandlerStates
    BY KindsType, KindOfType DEF KindStates, AfterInput, HandlerStates
  <2>2. hpc' \in [Handlers -> HandlerStates]
    BY <2>0, <2>1 DEF TypeOK
  <2>3. buf' \in [Handlers -> 0..Own]
    <3>1. Own \in 0..Own BY DEF Own
    <3> QED BY <3>1, <2>0 DEF TypeOK
  <2> QED BY <2>2, <2>3, <1>5 DEF InputClosed, TypeOK
<1>6. CASE CloseOutc(h)
  <2>1. hpc' \in [Handlers -> HandlerStates]
    <3>1. AfterClose(h) \in HandlerStates
      BY KindsType, KindOfType DEF KindStates, AfterClose, HandlerStates
    <3> QED BY <3>1, <1>6 DEF CloseOutc, Step, TypeOK
  <2>2. Out(h) \in Handlers
    BY <1>0, <1>6 DEF Out, CloseOutc, TypeOK, HasOutc
  <2>3. closed' \subseteq Handlers /\ panic' \in {"none", "stream", "cancel", "server"}
    <3>1. \/ panic' = "stream" /\ closed' = closed
          \/ closed' = closed \cup {Out(h)} /\ panic' = panic
      BY <1>6 DEF CloseOutc, CloseChannel
    <3> QED BY <3>1, <2>2 DEF TypeOK
  <2> QED BY <2>1, <2>3, <1>6 DEF CloseOutc, TypeOK
<1>7. CASE Done(h)
  BY <1>0, <1>7 DEF Done, Step, TypeOK, HandlerStates
<1> QED BY <1>1, <1>3, <1>4, <1>5, <1>6, <1>7 DEF Shared

(* And every step of a handler. *)
LEMMA HandlerType ==
  ASSUME TypeOK, HasOutc, NEW h \in Handlers, Handler(h)
  PROVE  TypeOK'
<1> USE PipelineAssumption DEF linkVars, loopVars, streamVars, stdinVars
<1>0. h[1] \in Modules /\ McSeen(h) \in Handlers
  BY DEF Handler, McSeen, Mc, TypeOK
<1>1. CASE Shared(h) BY <1>0, <1>1, SharedType
<1>2. CASE Callback(h)
  <2>1. PICK next \in KindOf(h).enter :
          /\ hpc' = [hpc EXCEPT ![h] = next]
          /\ buf' = [buf EXCEPT ![h] = IF next = "send" THEN Own ELSE @]
          /\ draining' = Aside(h, next)
    BY <1>2 DEF Callback, Step
  <2>2. next \in HandlerStates
    BY <2>1, KindsType, KindOfType DEF KindStates, HandlerStates
  <2>3. hpc' \in [Handlers -> HandlerStates] BY <2>1, <2>2 DEF TypeOK
  <2>4. buf' \in [Handlers -> 0..Own]
    <3>1. Own \in 0..Own BY DEF Own
    <3> QED BY <3>1, <2>1 DEF TypeOK
  <2>5. draining' \subseteq Handlers BY <2>1 DEF Aside, TypeOK
  <2> QED BY <2>3, <2>4, <2>5, <1>0, <1>2 DEF Callback, Bound, TypeOK
<1>8. CASE Lock(h)
  BY <1>0, <1>8 DEF Lock, Step, TypeOK, HandlerStates
<1>9. CASE ReadDatac(h)
  <2>1. hpc' \in [Handlers -> HandlerStates]
    BY <1>9 DEF ReadDatac, Step, TypeOK, HandlerStates
  <2>2. datac + 1 \in 0..Payloads /\ datac + 1 \in 0..Own
    BY <1>9 DEF ReadDatac, TypeOK, Own
  <2> QED BY <2>1, <2>2, <1>9 DEF ReadDatac, TypeOK
<1>10. CASE DatacClosed(h)
  <2>1. hpc' = hpc \/ hpc' = [hpc EXCEPT ![h] = "close"]
    BY <1>10 DEF DatacClosed, Step
  <2>3. hpc' \in [Handlers -> HandlerStates]
    BY <2>1 DEF TypeOK, HandlerStates
  <2>2. cancel' \subseteq Modules /\ panic' \in {"none", "stream", "cancel", "server"}
    <3>1. \/ panic' = "cancel" /\ cancel' = cancel
          \/ panic' = panic /\ cancel' = cancel \cup {h[1]}
      BY <1>10 DEF DatacClosed
    <3>2. cancel \subseteq Modules /\ panic \in {"none", "stream", "cancel", "server"}
      BY DEF TypeOK
    <3> QED BY <3>1, <3>2, <1>0
  <2> QED BY <2>3, <2>2, <1>10 DEF DatacClosed, TypeOK
<1>11. CASE ReadFrom(h)
  <2>1. hpc' \in [Handlers -> HandlerStates]
    BY <1>11 DEF ReadFrom, Step, TypeOK, HandlerStates
  <2>2. buf' \in [Handlers -> 0..Own]
    <3>1. buf[h] + 1 \in 0..Own BY <1>11 DEF ReadFrom, TypeOK, Own
    <3> QED BY <3>1, <1>11 DEF ReadFrom, TypeOK
  <2> QED BY <2>1, <2>2, <1>11 DEF ReadFrom, TypeOK
<1>12. CASE ReadFromEnd(h)
  BY <1>12 DEF ReadFromEnd, Step, TypeOK, HandlerStates
<1>13. CASE Drained(h)
  BY <1>13 DEF Drained, TypeOK
<1> QED BY <1>1, <1>2, <1>8, <1>9, <1>10, <1>11, <1>12, <1>13
        DEF Handler, Shared

(* A handler learns its channel before it can send or close. *)
LEMMA LoopHasOutc ==
  ASSUME TypeOK, HasOutc, NEW m \in Modules, Loop(m)
  PROVE  HasOutc'
<1>1. outc' = outc
  BY DEF Loop, Announce, RecvTerminate, RecvFirstChannel, RecvNextChannel,
         AnnounceNext, Cancelled, Join, SendTerminate, Last, CloseOut, streamVars
<1>2. hpc' = hpc \/ hpc' = [hpc EXCEPT ![Mc(m)] = "start"]
  BY DEF Loop, Announce, RecvTerminate, RecvFirstChannel, RecvNextChannel,
         AnnounceNext, Cancelled, Join, SendTerminate, Last, CloseOut, Spawn
<1> QED BY <1>1, <1>2 DEF HasOutc, TypeOK

LEMMA RelayFrame ==
  ASSUME RelayMessages
  PROVE  UNCHANGED <<init, made, wg, started, closed, hpc, streamVars,
                     stdinVars, written, panic>>
BY DEF RelayMessages, RelayRecv, RelayForward, Last, CloseOut

LEMMA RelayPc ==
  ASSUME TypeOK, RelayMessages
  PROVE  \A m \in Modules : pc'[m] = pc[m]
<1>1. \E state : pc' = [pc EXCEPT ![0] = state]
  BY DEF RelayMessages, RelayRecv, RelayForward, Last, CloseOut, GoTo
<1>2. \A m \in Modules : m # 0 /\ m \in Places OBVIOUS
<1> QED BY <1>1, <1>2 DEF TypeOK

LEMMA HandlerHasOutc ==
  ASSUME TypeOK, HasOutc, NEW h \in Handlers, Handler(h)
  PROVE  HasOutc'
<1>1. CASE Callback(h)
  <2>1. McSeen(h) # NoChannel
    BY DEF Handler, McSeen, Mc, TypeOK, NoChannel
  <2>2. outc' = Bound(h) /\ \A g \in Handlers \ {h} : hpc'[g] = hpc[g]
    BY <1>1 DEF Callback, Step, TypeOK
  <2> QED BY <2>1, <2>2 DEF HasOutc, Bound, TypeOK
<1>2. CASE ~Callback(h)
  <2>1. outc' = outc \/ outc' = [outc EXCEPT ![h] = McSeen(h)]
    BY <1>2, TransferFrame DEF Bound, Handler, Start, SendClosed, InputClosed, CloseOutc,
                Done, Lock, ReadDatac, DatacClosed, ReadFrom, ReadFromEnd, Drained, streamVars
  <2>2. \A g \in Handlers : hpc[g] \in {"idle", "start", "cb"}
                           => hpc'[g] \in {"idle", "start", "cb"}
    <3>1. ASSUME NEW g \in Handlers, Transfer(g, h)
          PROVE  \A f \in Handlers : hpc[f] \in {"idle", "start", "cb"} => hpc'[f] = hpc[f]
      BY <3>1, TransferFrame
    <3> QED BY <1>2, <3>1
            DEF Handler, Start, SendClosed, InputClosed, CloseOutc, Done, Lock,
                ReadDatac, DatacClosed, ReadFrom, ReadFromEnd, Drained, Step, TypeOK
  <2>3. ASSUME NEW f \in Handlers, hpc'[f] \notin {"idle", "start", "cb"}
        PROVE  hpc[f] \notin {"idle", "start", "cb"}
    BY <2>2, <2>3
  <2>4. McSeen(h) # NoChannel
    BY DEF Handler, McSeen, Mc, TypeOK, NoChannel
  <2> QED BY <2>1, <2>3, <2>4 DEF HasOutc, TypeOK
<1> QED BY <1>1, <1>2

(* Every state of every command line is well typed. *)
THEOREM TypeCorrect == Spec => []TypeOK
<1>1. Init => TypeOK /\ HasOutc BY InitType DEF Init, HasOutc
<1>2. TypeOK /\ HasOutc /\ [Next \/ Stopped]_vars => (TypeOK /\ HasOutc)'
  <2> SUFFICES ASSUME TypeOK, HasOutc, Next \/ UNCHANGED vars
               PROVE  TypeOK' /\ HasOutc'
    BY DEF Stopped
  <2>1. CASE UNCHANGED vars
    BY <2>1 DEF vars, linkVars, loopVars, streamVars, stdinVars, TypeOK, HasOutc
  <2>2. ASSUME NEW m \in Modules, Loop(m) PROVE TypeOK' /\ HasOutc'
    BY <2>2, LoopType, LoopHasOutc DEF Loop
  <2>3. CASE RelayMessages
    BY <2>3, RelayType, RelayFrame DEF HasOutc, streamVars
  <2>4. ASSUME NEW h \in Handlers, Handler(h) PROVE TypeOK' /\ HasOutc'
    BY <2>4, HandlerType, HandlerHasOutc
  <2> QED BY <2>1, <2>2, <2>3, <2>4 DEF Next
<1> QED BY <1>1, <1>2, PTL DEF Spec

-----------------------------------------------------------------------------
(* Silence: a module that sent Terminate has no handler at work. *)

(* A step of a loop moves its own pc, starts at most the handler of its    *)
(* current stream, and only while the loop still takes messages.           *)
LEMMA LoopFrame ==
  ASSUME TypeOK, NEW m \in Modules, Loop(m)
  PROVE  /\ \A p \in Places \ {m} : pc'[p] = pc[p]
         /\ UNCHANGED <<outc, buf, draining, stdinVars, written, started>>
         /\ \/ UNCHANGED <<hpc, wg>>
            \/ /\ hpc' = [hpc EXCEPT ![<<m, made[m]>>] = "start"]
               /\ wg' = [wg EXCEPT ![m] = @ \cup {<<m, made[m]>>}]
               /\ pc[m] \in {"loop", "newChannel"}
<1> USE DEF TypeOK, GoTo, streamVars, stdinVars
<1>1. CASE Announce(m) \/ RecvTerminate(m) \/ RecvNextChannel(m) \/ Cancelled(m)
  BY <1>1 DEF Announce, RecvTerminate, RecvNextChannel, Cancelled
<1>2. CASE RecvFirstChannel(m)
  BY <1>2 DEF RecvFirstChannel, Spawn, Mc
<1>3. CASE AnnounceNext(m)
  BY <1>3 DEF AnnounceNext, Spawn, Mc
<1>4. CASE \/ Join(m, "join", "terminate") \/ Join(m, "drain", "last")
           \/ SendTerminate(m, "drain") \/ Last(m, m - 1) \/ CloseOut(m, "done")
  BY <1>4 DEF Join, SendTerminate, Last, CloseOut
<1> QED BY <1>1, <1>2, <1>3, <1>4 DEF Loop

(* A handler that has not started, or is done, stays so.                   *)
LEMMA HandlerFrame ==
  ASSUME TypeOK, NEW h \in Handlers, Handler(h)
  PROVE  /\ UNCHANGED <<linkVars, loopVars, hin>>
         /\ \A f \in Handlers : hpc[f] \in {"idle", "done"} => hpc'[f] = hpc[f]
<1>1. ASSUME NEW g \in Handlers, Transfer(g, h)
      PROVE  /\ UNCHANGED <<linkVars, loopVars, hin>>
             /\ \A f \in Handlers : hpc[f] \in {"idle", "done"} => hpc'[f] = hpc[f]
  BY <1>1, TransferFrame
<1>2. CASE \/ Start(h) \/ Callback(h) \/ SendClosed(h) \/ InputClosed(h)
           \/ CloseOutc(h) \/ Done(h) \/ Lock(h) \/ ReadDatac(h) \/ DatacClosed(h)
           \/ ReadFrom(h) \/ ReadFromEnd(h) \/ Drained(h)
  <2>1. UNCHANGED <<linkVars, loopVars, hin>>
    BY <1>2 DEF Start, Callback, SendClosed, InputClosed, CloseOutc, Done, Lock,
                ReadDatac, DatacClosed, ReadFrom, ReadFromEnd, Drained, streamVars
  <2>2. /\ hpc[h] \notin {"idle", "done"} \/ hpc'[h] = hpc[h]
        /\ \A f \in Handlers \ {h} : hpc'[f] = hpc[f]
    BY <1>2 DEF Start, Callback, SendClosed, InputClosed, CloseOutc, Done, Lock,
                ReadDatac, DatacClosed, ReadFrom, ReadFromEnd, Drained, Step, TypeOK
  <2> QED BY <2>1, <2>2
<1> QED BY <1>1, <1>2 DEF Handler

LEMMA LoopCounted ==
  ASSUME TypeOK, Counted, NEW m \in Modules, Loop(m)
  PROVE  Counted'
<1>1. ASSUME NEW h \in Handlers, hpc'[h] \notin {"idle", "done"}
      PROVE  h \in wg'[h[1]]
  <2>1. CASE UNCHANGED <<hpc, wg>> BY <2>1, <1>1 DEF Counted
  <2>2. CASE /\ hpc' = [hpc EXCEPT ![<<m, made[m]>>] = "start"]
             /\ wg' = [wg EXCEPT ![m] = @ \cup {<<m, made[m]>>}]
    <3>1. CASE h = <<m, made[m]>> BY <3>1, <2>2 DEF TypeOK
    <3>2. CASE h # <<m, made[m]>>
      <4>1. hpc'[h] = hpc[h] BY <3>2, <2>2 DEF TypeOK
      <4>2. wg[h[1]] \subseteq wg'[h[1]] BY <2>2 DEF TypeOK
      <4> QED BY <4>1, <4>2, <1>1 DEF Counted
    <3> QED BY <3>1, <3>2
  <2> QED BY <2>1, <2>2, LoopFrame
<1>2. ASSUME NEW i \in Modules, pc'[i] = "terminate" \/ Silent(i)'
      PROVE  HandlersDone(i)'
  <2>1. CASE i # m
    <3>1. pc'[i] = pc[i] /\ wg'[i] = wg[i] /\ draining' = draining
      <4>1. i \in Places \ {m} BY <2>1
      <4> QED BY <4>1, <2>1, LoopFrame DEF TypeOK
    <3> QED BY <3>1, <1>2 DEF Counted, Silent, HandlersDone
  <2>2. CASE i = m
    <3>1. CASE \/ Announce(m) \/ RecvTerminate(m) \/ RecvNextChannel(m)
               \/ Cancelled(m) \/ RecvFirstChannel(m) \/ AnnounceNext(m)
      <4>1. \E state \in {"loop", "join", "newChannel"} : pc' = [pc EXCEPT ![m] = state]
        BY <3>1 DEF Announce, RecvTerminate, RecvNextChannel, Cancelled,
                    RecvFirstChannel, AnnounceNext, Spawn, AfterSpawn, GoTo
      <4>2. pc'[m] \in {"loop", "join", "newChannel"}
        <5>1. m \in Places OBVIOUS
        <5> QED BY <4>1, <5>1 DEF TypeOK
      <4> QED BY <4>2, <2>2, <1>2 DEF Silent
    <3>2. CASE Join(m, "join", "terminate") \/ Join(m, "drain", "last")
      BY <3>2, <2>2 DEF Join, streamVars, HandlersDone
    <3>3. CASE SendTerminate(m, "drain") \/ Last(m, m - 1) \/ CloseOut(m, "done")
      BY <3>3, <2>2 DEF SendTerminate, Last, CloseOut, Silent, Counted,
                        streamVars, HandlersDone
    <3> QED BY <3>1, <3>2, <3>3 DEF Loop
  <2> QED BY <2>1, <2>2
<1> QED BY <1>1, <1>2 DEF Counted

LEMMA HandlerCounted ==
  ASSUME TypeOK, Counted, NEW h \in Handlers, Handler(h)
  PROVE  Counted'
<1>1. pc' = pc BY HandlerFrame DEF loopVars
<1>2. CASE Done(h)
  BY <1>1, <1>2
     DEF Done, Step, Counted, Silent, TypeOK, HandlersDone, streamVars
<1>3. CASE ~Done(h)
  <2>1. wg' = wg
    BY <1>3, TransferFrame
       DEF Handler, Start, Callback, SendClosed, InputClosed, CloseOutc, Lock,
           ReadDatac, DatacClosed, ReadFrom, ReadFromEnd, Drained
  <2>2. CASE Callback(h)
    <3>1. hpc[h] = "cb" /\ draining' \subseteq draining \cup {h}
      BY <2>2 DEF Callback, Aside
    <3>2. wg[h[1]] # {} BY <3>1 DEF Counted
    <3>3. ASSUME NEW i \in Modules, pc[i] = "terminate" \/ Silent(i)
          PROVE  HandlersDone(i)'
      <4>1. HandlersDone(i) /\ i # h[1] BY <3>2, <3>3 DEF Counted, HandlersDone
      <4> QED BY <4>1, <3>1, <2>1 DEF HandlersDone
    <3> QED BY <3>3, <2>1, <1>1, HandlerFrame DEF Counted, Silent
  <2>3. CASE ~Callback(h)
    <3>1. draining' \subseteq draining
      BY <1>3, <2>3, TransferFrame
         DEF Handler, Start, SendClosed, InputClosed, CloseOutc, Lock, ReadDatac,
             DatacClosed, ReadFrom, ReadFromEnd, Drained, streamVars
    <3>2. \A i \in Modules : HandlersDone(i) => HandlersDone(i)'
      BY <3>1, <2>1 DEF HandlersDone
    <3> QED BY <3>2, <2>1, <1>1, HandlerFrame DEF Counted, Silent
  <2> QED BY <2>2, <2>3
<1> QED BY <1>2, <1>3

LEMMA AlwaysCounted == Spec => []Counted
<1>1. Init => Counted
  BY DEF Init, Counted, Silent, HandlersDone
<1>2. TypeOK /\ Counted /\ [Next \/ Stopped]_vars => Counted'
  <2> SUFFICES ASSUME TypeOK, Counted, Next \/ UNCHANGED vars PROVE Counted'
    BY DEF Stopped
  <2>1. CASE UNCHANGED vars
    BY <2>1 DEF vars, loopVars, streamVars, Counted, Silent, HandlersDone
  <2>2. CASE RelayMessages
    BY <2>2, RelayFrame, RelayPc DEF Counted, Silent, HandlersDone, streamVars
  <2> QED BY <2>1, <2>2, LoopCounted, HandlerCounted DEF Next
<1> QED BY <1>1, <1>2, TypeCorrect, PTL DEF Spec

(* No module that sent Terminate has a handler at work, on any line.       *)
THEOREM Silence == Spec => SilentAfterTerminate
<1>1. TypeOK /\ Counted /\ [Next \/ Stopped]_vars =>
        [\A h \in Handlers :
           Silent(h[1]) => /\ hpc[h] \in {"idle", "done"} /\ h \notin draining
                           /\ hpc'[h] = hpc[h]]_vars
  <2> SUFFICES ASSUME TypeOK, Counted, Next \/ UNCHANGED vars,
                      NEW h \in Handlers, Silent(h[1])
               PROVE  /\ hpc[h] \in {"idle", "done"} /\ h \notin draining
                      /\ hpc'[h] = hpc[h]
    BY DEF Stopped
  <2>1. hpc[h] \in {"idle", "done"} /\ h \notin draining
    BY DEF Counted, HandlersDone
  <2>2. CASE UNCHANGED vars BY <2>1, <2>2 DEF vars
  <2>3. ASSUME NEW m \in Modules, Loop(m) PROVE hpc'[h] = hpc[h]
    <3>1. CASE hpc' = hpc BY <3>1
    <3>2. CASE /\ hpc' = [hpc EXCEPT ![<<m, made[m]>>] = "start"]
               /\ pc[m] \in {"loop", "newChannel"}
      <4>1. h[1] # m BY <3>2 DEF Silent
      <4> QED BY <4>1, <3>2 DEF TypeOK
    <3> QED BY <3>1, <3>2, <2>3, LoopFrame
  <2>4. CASE RelayMessages BY <2>1, <2>4, RelayFrame
  <2>5. ASSUME NEW f \in Handlers, Handler(f) PROVE hpc'[h] = hpc[h]
    BY <2>1, <2>5, HandlerFrame
  <2> QED BY <2>1, <2>2, <2>3, <2>4, <2>5 DEF Next
<1> QED BY <1>1, TypeCorrect, AlwaysCounted, PTL DEF Spec, SilentAfterTerminate

-----------------------------------------------------------------------------
(* Termination of the loops: no range over `in' meets the end of its link. *)

LEMMA TailKeeps ==
  ASSUME NEW q \in Seq(Messages), q # <<>>, Head(q) # Terminate,
         NEW i \in 1..Len(q), q[i] = Terminate
  PROVE  \E j \in 1..Len(Tail(q)) : Tail(q)[j] = Terminate
<1>1. i # 1 OBVIOUS
<1>2. i - 1 \in 1..Len(Tail(q)) /\ Tail(q)[i - 1] = q[i] BY <1>1
<1> QED BY <1>2

LEMMA AppendHas ==
  ASSUME NEW q \in Seq(Messages)
  PROVE  \E j \in 1..Len(Append(q, Terminate)) : Append(q, Terminate)[j] = Terminate
<1>1. /\ Len(q) + 1 \in 1..Len(Append(q, Terminate))
      /\ Append(q, Terminate)[Len(q) + 1] = Terminate
  BY MessageType
<1> QED BY <1>1

(* In the ring every place reads one link and no place reads its own.      *)
LEMMA Ring ==
  ASSUME NEW l \in Places
  PROVE  /\ Reader(l) \in Places /\ Reader(l) # l
         /\ \A m \in Modules : m - 1 \in Places /\ m \in Places /\ m # 0
                             /\ (Reader(l) = m <=> l = m - 1)
         /\ Reader(l) = 0 <=> l = N
         /\ N \in Places /\ 0 \in Places
BY PipelineAssumption DEF Reader

(* A loop reads the link before it and writes the link behind it.         *)
LEMMA LoopTerminateAhead ==
  ASSUME TypeOK, TerminateAhead, NEW m \in Modules, Loop(m)
  PROVE  TerminateAhead'
<1> DEFINE Has(l) == \E i \in 1..Len(link[l]) : link[l][i] = Terminate
<1>0. /\ m \in Places /\ m - 1 \in Places /\ m # m - 1 /\ m # 0
      /\ link[m] \in Seq(Messages) /\ link[m - 1] \in Seq(Messages)
      /\ \A p \in Places \ {m} : pc'[p] = pc[p] /\ held'[p] = held[p]
  <2>1. m \in Places /\ m - 1 \in Places /\ m # m - 1 /\ m # 0
    BY PipelineAssumption
  <2>2. \A p \in Places \ {m} : held'[p] = held[p]
    BY DEF TypeOK, Loop, Announce, RecvTerminate, RecvFirstChannel, RecvNextChannel,
           AnnounceNext, Cancelled, Join, SendTerminate, Last, CloseOut
  <2> QED BY <2>1, <2>2, LoopFrame DEF TypeOK
<1>1. ASSUME NEW l \in linkClosed'
      PROVE  pc'[l] = IF l = 0 THEN "exited" ELSE "done"
  <2>1. CASE CloseOut(m, "done")
    BY <2>1, <1>0, <1>1 DEF CloseOut, GoTo, TerminateAhead, TypeOK
  <2>2. CASE ~CloseOut(m, "done")
    <3>1. linkClosed' = linkClosed
      BY <2>2 DEF Loop, Announce, RecvTerminate, RecvFirstChannel, RecvNextChannel,
                  AnnounceNext, Cancelled, Join, SendTerminate, Last, linkVars
    <3>2. pc[m] \notin {"done", "exited"}
      BY DEF Loop, Announce, RecvTerminate, RecvFirstChannel, RecvNextChannel,
             AnnounceNext, Cancelled, Join, SendTerminate, Last, CloseOut
    <3> QED BY <3>1, <3>2, <1>0, <1>1 DEF TerminateAhead, TypeOK
  <2> QED BY <2>1, <2>2
<1>2. ASSUME NEW l \in Places, Finished(l)', Waiting(Reader(l))'
      PROVE  Has(l)'
  <2>1. CASE l = m
    <3>0. Reader(m) \in Places \ {m} BY <1>0, Ring
    <3>1. Waiting(Reader(m)) BY <3>0, <1>0, <1>2, <2>1 DEF Waiting, Reader
    <3>2. CASE SendTerminate(m, "drain")
      <4>1. link'[m] = Append(link[m], Terminate)
        BY <3>2, <1>0 DEF SendTerminate, Send, TypeOK
      <4> QED BY <4>1, <1>0, <2>1, AppendHas
    <3>3. CASE Join(m, "drain", "last") \/ Last(m, m - 1) \/ CloseOut(m, "done")
      <4>1. Finished(m) BY <3>3 DEF Join, Last, CloseOut, Finished
      <4>2. link'[m] = link[m]
        BY <3>3, <1>0 DEF Join, Last, CloseOut, Receive, linkVars, TypeOK
      <4> QED BY <4>1, <4>2, <3>1, <1>0, <2>1 DEF TerminateAhead
    <3>4. CASE \/ Announce(m) \/ RecvTerminate(m) \/ RecvFirstChannel(m)
               \/ RecvNextChannel(m) \/ AnnounceNext(m) \/ Cancelled(m)
               \/ Join(m, "join", "terminate")
      <4>1. pc'[m] \in {"loop", "join", "newChannel", "terminate"}
        BY <3>4, <1>0 DEF Announce, RecvTerminate, RecvFirstChannel, RecvNextChannel,
                          AnnounceNext, Cancelled, Join, Spawn, AfterSpawn, GoTo, TypeOK
      <4> QED BY <4>1, <1>2, <2>1 DEF Finished
    <3> QED BY <3>2, <3>3, <3>4 DEF Loop
  <2>2. CASE l = m - 1
    <3>0. Reader(l) = m /\ Finished(l)
      BY <2>2, <1>0, <1>2, Ring DEF Finished
    <3>1. CASE Announce(m) \/ AnnounceNext(m)
      <4>1. Waiting(m) BY <3>1 DEF Announce, AnnounceNext, Waiting
      <4>2. link'[l] = link[l]
        BY <3>1, <2>2, <1>0 DEF Announce, AnnounceNext, Send, TypeOK
      <4> QED BY <4>1, <4>2, <3>0 DEF TerminateAhead
    <3>2. CASE RecvFirstChannel(m) \/ RecvNextChannel(m)
      <4>1. Waiting(m) BY <3>2 DEF RecvFirstChannel, RecvNextChannel, Waiting
      <4>2. /\ link[l] # <<>> /\ Head(link[l]) # Terminate
            /\ link'[l] = Tail(link[l])
        BY <3>2, <2>2, <1>0
           DEF RecvFirstChannel, RecvNextChannel, Receive, Pending, TypeOK
      <4>3. PICK i \in 1..Len(link[l]) : link[l][i] = Terminate
        BY <4>1, <3>0 DEF TerminateAhead
      <4> QED BY <4>2, <4>3, <2>2, <1>0, TailKeeps
    <3>3. CASE \/ RecvTerminate(m) \/ Cancelled(m)
               \/ Join(m, "join", "terminate") \/ SendTerminate(m, "drain")
               \/ Join(m, "drain", "last") \/ Last(m, m - 1) \/ CloseOut(m, "done")
      <4>1. pc'[m] \in {"join", "terminate", "drain", "last", "close", "done"}
        BY <3>3, <1>0 DEF RecvTerminate, Cancelled, Join, SendTerminate, Last,
                          CloseOut, GoTo, TypeOK
      <4>2. Waiting(m)'
        BY <1>2, <3>0 DEF Reader
      <4> QED BY <4>1, <4>2 DEF Waiting
    <3> QED BY <3>1, <3>2, <3>3 DEF Loop
  <2>3. CASE l # m /\ l # m - 1
    <3>1. Reader(l) \in Places \ {m} /\ l \in Places \ {m} BY <2>3, Ring
    <3>2. Finished(l) /\ Waiting(Reader(l))
      BY <3>1, <1>0, <1>2 DEF Finished, Waiting, Reader
    <3>3. link'[l] = link[l]
      BY <2>3, <1>0
         DEF Loop, Announce, RecvTerminate, RecvFirstChannel, RecvNextChannel,
             AnnounceNext, Cancelled, Join, SendTerminate, Last, CloseOut,
             linkVars, Send, Receive, TypeOK
    <3> QED BY <3>2, <3>3 DEF TerminateAhead
  <2> QED BY <2>1, <2>2, <2>3
<1> QED BY <1>1, <1>2 DEF TerminateAhead, Reader

LEMMA RelayTerminateAhead ==
  ASSUME TypeOK, TerminateAhead, RelayMessages
  PROVE  TerminateAhead'
<1> DEFINE Has(l) == \E i \in 1..Len(link[l]) : link[l][i] = Terminate
<1>0. /\ 0 \in Places /\ N \in Places /\ N # 0
      /\ link[0] \in Seq(Messages) /\ link[N] \in Seq(Messages)
      /\ \A p \in Places \ {0} : pc'[p] = pc[p] /\ held'[p] = held[p]
  <2>1. 0 \in Places /\ N \in Places /\ N # 0
    BY PipelineAssumption
  <2>2. \A p \in Places \ {0} : held'[p] = held[p]
    BY DEF TypeOK, RelayMessages, RelayRecv, RelayForward, Last, CloseOut
  <2>3. \A p \in Places \ {0} : p \in Modules
    BY PipelineAssumption
  <2> QED BY <2>1, <2>2, <2>3, RelayPc DEF TypeOK
<1>1. ASSUME NEW l \in linkClosed'
      PROVE  pc'[l] = IF l = 0 THEN "exited" ELSE "done"
  <2>1. CASE CloseOut(0, "exited")
    BY <2>1, <1>0, <1>1 DEF CloseOut, GoTo, TerminateAhead, TypeOK
  <2>2. CASE RelayRecv \/ RelayForward \/ Last(0, N)
    <3>1. linkClosed' = linkClosed /\ pc[0] \notin {"done", "exited"}
      BY <2>2 DEF RelayRecv, RelayForward, Last
    <3> QED BY <3>1, <1>0, <1>1 DEF TerminateAhead, TypeOK
  <2> QED BY <2>1, <2>2 DEF RelayMessages
<1>2. ASSUME NEW l \in Places, Finished(l)', Waiting(Reader(l))'
      PROVE  Has(l)'
  <2>1. CASE l = 0
    <3>0. Reader(0) \in Places \ {0} BY <1>0, Ring
    <3>1. Waiting(Reader(0)) BY <3>0, <1>0, <1>2, <2>1 DEF Waiting, Reader
    <3>2. CASE RelayForward /\ held[0] = Terminate
      <4>1. link'[0] = Append(link[0], Terminate)
        BY <3>2, <1>0 DEF RelayForward, Send, TypeOK
      <4> QED BY <4>1, <1>0, <2>1, AppendHas
    <3>3. CASE Last(0, N) \/ CloseOut(0, "exited")
      <4>1. Finished(0) BY <3>3 DEF Last, CloseOut, Finished
      <4>2. link'[0] = link[0]
        BY <3>3, <1>0 DEF Last, CloseOut, Receive, TypeOK
      <4> QED BY <4>1, <4>2, <3>1, <1>0, <2>1 DEF TerminateAhead
    <3>4. CASE RelayRecv \/ (RelayForward /\ held[0] # Terminate)
      <4>1. pc'[0] \in {"loop", "forward"}
        BY <3>4, <1>0 DEF RelayRecv, RelayForward, GoTo, TypeOK
      <4> QED BY <4>1, <1>2, <2>1 DEF Finished
    <3>5. RelayRecv \/ RelayForward \/ Last(0, N) \/ CloseOut(0, "exited")
      BY DEF RelayMessages, Relay
    <3> QED BY <3>2, <3>3, <3>4, <3>5
  <2>2. CASE l = N
    <3>0. Reader(l) = 0 /\ Finished(l)
      BY <2>2, <1>0, <1>2, Ring DEF Finished
    <3>w. Waiting(0)' BY <1>2, <3>0 DEF Reader
    <3>1. CASE RelayRecv
      <4>1. Waiting(0) BY <3>1 DEF RelayRecv, Waiting
      <4>2. link[l] # <<>> /\ link'[l] = Tail(link[l])
        BY <3>1, <2>2, <1>0 DEF RelayRecv, Receive, Pending, TypeOK
      <4>3. pc'[0] = "forward" /\ held'[0] = Head(link[l])
        BY <3>1, <2>2, <1>0 DEF RelayRecv, GoTo, TypeOK
      <4>4. Head(link[l]) # Terminate BY <4>3, <3>w DEF Waiting
      <4>5. PICK i \in 1..Len(link[l]) : link[l][i] = Terminate
        BY <4>1, <3>0 DEF TerminateAhead
      <4> QED BY <4>2, <4>4, <4>5, <2>2, <1>0, TailKeeps
    <3>2. CASE RelayForward
      <4>1. pc'[0] \in {"loop", "last"} /\ (pc'[0] = "loop" => held[0] # Terminate)
        BY <3>2, <1>0 DEF RelayForward, GoTo, TypeOK
      <4>2. Waiting(0) BY <4>1, <3>w, <3>2 DEF RelayForward, Waiting
      <4>3. link'[l] = link[l]
        BY <3>2, <2>2, <1>0 DEF RelayForward, Send, TypeOK
      <4> QED BY <4>2, <4>3, <3>0 DEF TerminateAhead
    <3>3. CASE Last(0, N) \/ CloseOut(0, "exited")
      <4>1. pc'[0] \in {"close", "exited"}
        BY <3>3, <1>0 DEF Last, CloseOut, GoTo, TypeOK
      <4> QED BY <4>1, <3>w DEF Waiting
    <3> QED BY <3>1, <3>2, <3>3 DEF RelayMessages
  <2>3. CASE l # 0 /\ l # N
    <3>1. Reader(l) \in Places \ {0} /\ l \in Places \ {0} BY <2>3, Ring
    <3>2. Finished(l) /\ Waiting(Reader(l))
      BY <3>1, <1>0, <1>2 DEF Finished, Waiting, Reader
    <3>3. link'[l] = link[l]
      BY <2>3, <1>0 DEF RelayMessages, RelayRecv, RelayForward, Last, CloseOut,
                        Send, Receive, TypeOK
    <3> QED BY <3>2, <3>3 DEF TerminateAhead
  <2> QED BY <2>1, <2>2, <2>3
<1> QED BY <1>1, <1>2 DEF TerminateAhead, Reader

LEMMA AlwaysAhead == Spec => []TerminateAhead
<1>1. Init => TerminateAhead
  BY PipelineAssumption DEF Init, TerminateAhead, Finished
<1>2. TypeOK /\ TerminateAhead /\ [Next \/ Stopped]_vars => TerminateAhead'
  <2> SUFFICES ASSUME TypeOK, TerminateAhead, Next \/ UNCHANGED vars
               PROVE  TerminateAhead'
    BY DEF Stopped
  <2>1. CASE UNCHANGED vars
    BY <2>1 DEF vars, linkVars, loopVars, TerminateAhead, Finished, Waiting, Reader
  <2>2. ASSUME NEW h \in Handlers, Handler(h) PROVE TerminateAhead'
    BY <2>2, HandlerFrame
       DEF linkVars, loopVars, TerminateAhead, Finished, Waiting, Reader
  <2> QED BY <2>1, <2>2, LoopTerminateAhead, RelayTerminateAhead DEF Next
<1> QED BY <1>1, <1>2, TypeCorrect, PTL DEF Spec

(* On any line every loop, and RelayMessages, meets a Terminate before the *)
(* end of its link.                                                        *)
THEOREM LoopsEndByTerminate == Spec => []EndsByTerminate
<1>1. TypeOK /\ TerminateAhead => EndsByTerminate
  <2> SUFFICES ASSUME TypeOK, TerminateAhead, NEW l \in Places, AtEnd(l),
                      pc[Reader(l)] \in {"loop", "select"}
               PROVE  FALSE
    BY DEF EndsByTerminate
  <2>1. Finished(l) BY DEF AtEnd, TerminateAhead, Finished
  <2>2. \E i \in 1..Len(link[l]) : link[l][i] = Terminate
    BY <2>1 DEF TerminateAhead, Waiting
  <2> QED BY <2>2 DEF AtEnd
<1> QED BY <1>1, TypeCorrect, AlwaysAhead, PTL

-----------------------------------------------------------------------------
(* Terminate is the last message on every link. *)

(* A step on a link: nothing, a receive, or a send of its sender before it *)
(* has finished.                                                           *)
LEMMA LinkStep ==
  ASSUME TypeOK, NEW l \in Places, NothingBehind(l),
         Finished(l) => Finished(l)',
         \/ link'[l] = link[l]
         \/ link[l] # <<>> /\ link'[l] = Tail(link[l])
         \/ /\ ~Finished(l)
            /\ \E msg \in Messages : /\ link'[l] = Append(link[l], msg)
                                     /\ msg = Terminate => Finished(l)'
  PROVE  NothingBehind(l)'
<1>0. link[l] \in Seq(Messages) BY DEF TypeOK
<1>1. CASE link'[l] = link[l] BY <1>1 DEF NothingBehind
<1>2. CASE link[l] # <<>> /\ link'[l] = Tail(link[l])
  <2>1. /\ Len(link'[l]) = Len(link[l]) - 1
        /\ \A i \in 1..Len(link'[l]) : /\ i + 1 \in 1..Len(link[l])
                                       /\ link'[l][i] = link[l][i + 1]
    BY <1>0, <1>2
  <2>2. ASSUME NEW i \in 1..Len(link'[l]), link'[l][i] = Terminate
        PROVE  Finished(l)' /\ i = Len(link'[l])
    <3>1. Finished(l) /\ i + 1 = Len(link[l]) BY <2>1, <2>2 DEF NothingBehind
    <3> QED BY <3>1, <2>1, <1>0
  <2> QED BY <2>2 DEF NothingBehind
<1>3. ASSUME ~Finished(l), NEW msg \in Messages,
             link'[l] = Append(link[l], msg), msg = Terminate => Finished(l)'
      PROVE  NothingBehind(l)'
  <2>1. /\ Len(link'[l]) = Len(link[l]) + 1
        /\ link'[l][Len(link[l]) + 1] = msg
        /\ \A i \in 1..Len(link[l]) : link'[l][i] = link[l][i]
    BY <1>0, <1>3
  <2>2. ASSUME NEW i \in 1..Len(link'[l]), link'[l][i] = Terminate
        PROVE  Finished(l)' /\ i = Len(link'[l])
    <3>1. CASE i \in 1..Len(link[l])
      BY <3>1, <2>1, <2>2, <1>3 DEF NothingBehind
    <3>2. CASE i = Len(link[l]) + 1 BY <3>2, <2>1, <2>2, <1>3
    <3> QED BY <3>1, <3>2, <2>1, <1>0
  <2> QED BY <2>2 DEF NothingBehind
<1> QED BY <1>1, <1>2, <1>3

(* The sender of link p is the only one to append to it. *)
LEMMA LoopNothingBehind ==
  ASSUME TypeOK, TerminateLast, NEW m \in Modules, Loop(m)
  PROVE  TerminateLast'
<1>0. /\ m \in Places /\ m - 1 \in Places /\ m # m - 1 /\ m # 0
      /\ \A p \in Places \ {m} : Finished(p) => Finished(p)'
  <2>1. m \in Places /\ m - 1 \in Places /\ m # m - 1 /\ m # 0
    BY PipelineAssumption
  <2> QED BY <2>1, LoopFrame DEF Finished
<1>1. CASE Announce(m) \/ AnnounceNext(m)
  <2>1. Mc(m) \in Handlers
    <3>1. ~IsServer(m) BY DEF Loop
    <3>2. made[m] \in 1..MaxStreams BY <3>1, PipelineAssumption DEF TypeOK
    <3> QED BY <3>2 DEF Mc
  <2>2. Channel(Mc(m)) \in Messages /\ Channel(Mc(m)) # Terminate
    BY <2>1, MessageType DEF Channel, Terminate, NoChannel
  <2>3. link' = [link EXCEPT ![m] = Append(@, Channel(Mc(m)))]
    BY <1>1 DEF Announce, AnnounceNext, Send
  <2>4. ~Finished(m) BY <1>1 DEF Announce, AnnounceNext, Finished
  <2>5. ASSUME NEW l \in Places PROVE NothingBehind(l)'
    <3>1. CASE l = m
      BY <3>1, <2>2, <2>3, <2>4, <1>0, LinkStep DEF TypeOK, TerminateLast
    <3>2. CASE l # m
      BY <3>2, <2>3, <1>0, LinkStep DEF TypeOK, TerminateLast
    <3> QED BY <3>1, <3>2
  <2> QED BY <2>5 DEF TerminateLast
<1>2. CASE SendTerminate(m, "drain")
  <2>1. /\ link' = [link EXCEPT ![m] = Append(@, Terminate)]
        /\ ~Finished(m) /\ Finished(m)'
    BY <1>2, <1>0 DEF SendTerminate, Send, Finished, GoTo, TypeOK
  <2>2. ASSUME NEW l \in Places PROVE NothingBehind(l)'
    <3>1. CASE l = m
      BY <3>1, <2>1, <1>0, LinkStep, MessageType DEF TypeOK, TerminateLast
    <3>2. CASE l # m
      BY <3>2, <2>1, <1>0, LinkStep DEF TypeOK, TerminateLast
    <3> QED BY <3>1, <3>2
  <2> QED BY <2>2 DEF TerminateLast
<1>3. CASE RecvTerminate(m) \/ RecvFirstChannel(m) \/ RecvNextChannel(m)
           \/ Last(m, m - 1)
  <2>1. \/ link' = link
        \/ link[m - 1] # <<>> /\ link' = [link EXCEPT ![m - 1] = Tail(@)]
    BY <1>3 DEF RecvTerminate, RecvFirstChannel, RecvNextChannel, Last,
                Receive, Pending
  <2>2. Finished(m) => Finished(m)'
    BY <1>3, <1>0 DEF RecvTerminate, RecvFirstChannel, RecvNextChannel, Last,
                      Finished, GoTo, TypeOK
  <2>3. ASSUME NEW l \in Places PROVE NothingBehind(l)'
    <3>1. Finished(l) => Finished(l)' BY <2>2, <1>0
    <3>2. \/ link'[l] = link[l]
          \/ link[l] # <<>> /\ link'[l] = Tail(link[l])
      BY <2>1, <1>0 DEF TypeOK
    <3> QED BY <3>1, <3>2, LinkStep DEF TerminateLast
  <2> QED BY <2>3 DEF TerminateLast
<1>4. CASE \/ Cancelled(m) \/ Join(m, "join", "terminate")
           \/ Join(m, "drain", "last") \/ CloseOut(m, "done")
  <2>1. link' = link BY <1>4 DEF Cancelled, Join, CloseOut, linkVars
  <2>2. Finished(m) => Finished(m)'
    BY <1>4, <1>0 DEF Cancelled, Join, CloseOut, Finished, GoTo, TypeOK
  <2>3. ASSUME NEW l \in Places PROVE NothingBehind(l)'
    BY <2>1, <2>2, <1>0, LinkStep DEF TerminateLast
  <2> QED BY <2>3 DEF TerminateLast
<1> QED BY <1>1, <1>2, <1>3, <1>4 DEF Loop

(* RelayMessages sends what it holds, and stops behind a Terminate. *)
LEMMA RelayNothingBehind ==
  ASSUME TypeOK, TerminateLast, RelayMessages
  PROVE  TerminateLast'
<1>0. /\ 0 \in Places /\ N \in Places
      /\ \A p \in Places \ {0} : Finished(p) => Finished(p)'
  <2>1. \A p \in Places \ {0} : p \in Modules BY PipelineAssumption
  <2> QED BY <2>1, PipelineAssumption, RelayPc DEF Finished
<1>1. CASE RelayForward
  <2>1. /\ link' = [link EXCEPT ![0] = Append(@, held[0])]
        /\ held[0] \in Messages
        /\ ~Finished(0) /\ (held[0] = Terminate => Finished(0)')
    BY <1>1, <1>0 DEF RelayForward, Send, Finished, GoTo, TypeOK
  <2>2. ASSUME NEW l \in Places PROVE NothingBehind(l)'
    <3>1. CASE l = 0 BY <3>1, <2>1, <1>0, LinkStep DEF TypeOK, TerminateLast
    <3>2. CASE l # 0 BY <3>2, <2>1, <1>0, LinkStep DEF TypeOK, TerminateLast
    <3> QED BY <3>1, <3>2
  <2> QED BY <2>2 DEF TerminateLast
<1>2. CASE RelayRecv \/ Last(0, N) \/ CloseOut(0, "exited")
  <2>1. \/ link' = link
        \/ link[N] # <<>> /\ link' = [link EXCEPT ![N] = Tail(@)]
    BY <1>2 DEF RelayRecv, Last, CloseOut, Receive, Pending
  <2>2. Finished(0) => Finished(0)'
    BY <1>2, <1>0 DEF RelayRecv, Last, CloseOut, Finished, GoTo, TypeOK
  <2>3. ASSUME NEW l \in Places PROVE NothingBehind(l)'
    <3>1. Finished(l) => Finished(l)' BY <2>2, <1>0
    <3>2. \/ link'[l] = link[l]
          \/ link[l] # <<>> /\ link'[l] = Tail(link[l])
      BY <2>1, <1>0 DEF TypeOK
    <3> QED BY <3>1, <3>2, LinkStep DEF TerminateLast
  <2> QED BY <2>3 DEF TerminateLast
<1> QED BY <1>1, <1>2 DEF RelayMessages

LEMMA AlwaysLast == Spec => []TerminateLast
<1>1. Init => TerminateLast
  BY DEF Init, TerminateLast, NothingBehind
<1>2. TypeOK /\ TerminateLast /\ [Next \/ Stopped]_vars => TerminateLast'
  <2> SUFFICES ASSUME TypeOK, TerminateLast, Next \/ UNCHANGED vars
               PROVE  TerminateLast'
    BY DEF Stopped
  <2>1. CASE UNCHANGED vars
    BY <2>1 DEF vars, linkVars, loopVars, TerminateLast, NothingBehind, Finished
  <2>2. ASSUME NEW h \in Handlers, Handler(h) PROVE TerminateLast'
    BY <2>2, HandlerFrame
       DEF linkVars, loopVars, TerminateLast, NothingBehind, Finished
  <2> QED BY <2>1, <2>2, LoopNothingBehind, RelayNothingBehind DEF Next
<1> QED BY <1>1, <1>2, TypeCorrect, PTL DEF Spec

(* On any line no message follows a Terminate: whoever receives it has     *)
(* only the end of the link to wait for (upper.go:66-79, message.go:78-91).*)
THEOREM NothingAfterTerminate == Spec => []TerminateIsLast
<1>1. TerminateLast => TerminateIsLast
  BY DEF TerminateLast, NothingBehind, TerminateIsLast
<1> QED BY <1>1, AlwaysLast, PTL
=============================================================================
