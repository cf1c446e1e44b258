---------------------------- MODULE NestedProofs ----------------------------
(***************************************************************************)
(* Theorems about pipelines inside the program: the types for every line   *)
(* and every driver; and what ReadAllPipeline returns of a file, through   *)
(* any number of copying modules.                                          *)
(***************************************************************************)
EXTENDS NestedPipeline, StreamProofs

USE DEF Relay, Modules, Places, Handlers, Counting, NextMc, Unlocked

-----------------------------------------------------------------------------
(* Types *)

LEMMA StreamsType ==
  /\ D \in Streams /\ Handlers \subseteq Streams
  /\ NoChannel \notin Streams
  /\ Terminate \in Told /\ Terminate \in Messages
  /\ Messages \subseteq Told
  /\ \A c \in Streams : Channel(c) \in Told
  /\ \A c \in Handlers : Channel(c) \in Messages
  /\ \A msg \in Told : msg.mc \in Streams \cup {NoChannel}
  /\ \A msg \in Messages : msg.mc \in Handlers \cup {NoChannel}
<1>1. D \in Streams /\ Handlers \subseteq Streams BY DEF Streams
<1>2. NoChannel \notin Streams
  BY PipelineAssumption DEF Streams, D, NoChannel
<1>3. Terminate \in Told /\ Terminate \in Messages BY DEF Told, Messages
<1>4. Messages \subseteq Told BY <1>1 DEF Told, Messages
<1>5. \A c \in Streams : Channel(c) \in Told BY DEF Told
<1>6. \A c \in Handlers : Channel(c) \in Messages BY DEF Messages
<1>7. Terminate.mc = NoChannel /\ \A c : Channel(c).mc = c
  BY DEF Terminate, Channel
<1>8. \A msg \in Told : msg.mc \in Streams \cup {NoChannel}
  BY <1>7 DEF Told
<1>9. \A msg \in Messages : msg.mc \in Handlers \cup {NoChannel}
  BY <1>7 DEF Messages
<1> QED BY <1>1, <1>2, <1>3, <1>4, <1>5, <1>6, <1>8, <1>9

LEMMA LinksType ==
  ASSUME LineTypeOK
  PROVE  /\ link \in [Places -> Seq(Told)]
         /\ \A m \in Modules : link[m] \in Seq(Messages)
BY DEF LineTypeOK

LEMMA NestedSend ==
  ASSUME LineTypeOK, NEW l \in Places, NEW msg \in Told,
         l # Relay => msg \in Messages, Send(l, msg)
  PROVE  /\ link' \in [Places -> Seq(Told)]
         /\ \A m \in Modules : link'[m] \in Seq(Messages)
<1>1. link[l] \in Seq(Told) BY LinksType
<1>2. Append(link[l], msg) \in Seq(Told) BY <1>1
<1>3. link' = [link EXCEPT ![l] = Append(link[l], msg)] BY DEF Send
<1>4. ASSUME NEW m \in Modules PROVE link'[m] \in Seq(Messages)
  <2>1. m # Relay /\ m \in Places BY PipelineAssumption
  <2>2. link[m] \in Seq(Messages) BY LinksType
  <2>3. CASE m = l
    <3>1. Append(link[m], msg) \in Seq(Messages) BY <2>1, <2>2, <2>3
    <3>2. link'[m] = Append(link[m], msg) BY <1>3, <2>1, <2>3, LinksType
    <3> QED BY <3>1, <3>2
  <2>4. CASE m # l
    <3>1. link'[m] = link[m] BY <1>3, <2>1, <2>4, LinksType
    <3> QED BY <2>2, <3>1
  <2> QED BY <2>3, <2>4
<1> QED BY <1>2, <1>3, <1>4, LinksType

LEMMA NestedReceive ==
  ASSUME LineTypeOK, NEW l \in Places, Receive(l)
  PROVE  /\ link' \in [Places -> Seq(Told)]
         /\ \A m \in Modules : link'[m] \in Seq(Messages)
         /\ Head(link[l]) \in Told
         /\ l # Relay => Head(link[l]) \in Messages
<1>1. link[l] \in Seq(Told) /\ link[l] # <<>>
  BY LinksType DEF Receive, Pending
<1>2. Head(link[l]) \in Told /\ Tail(link[l]) \in Seq(Told) BY <1>1
<1>3. link' = [link EXCEPT ![l] = Tail(link[l])] BY DEF Receive
<1>4. ASSUME NEW m \in Modules PROVE link'[m] \in Seq(Messages)
  <2>1. m # Relay /\ m \in Places BY PipelineAssumption
  <2>2. link[m] \in Seq(Messages) BY LinksType
  <2>3. CASE m = l
    <3>1. Tail(link[m]) \in Seq(Messages) BY <1>1, <2>2, <2>3
    <3>2. link'[m] = Tail(link[m]) BY <1>3, <2>1, <2>3, LinksType
    <3> QED BY <3>1, <3>2
  <2>4. CASE m # l
    <3>1. link'[m] = link[m] BY <1>3, <2>1, <2>4, LinksType
    <3> QED BY <2>2, <3>1
  <2> QED BY <2>3, <2>4
<1>5. ASSUME l # Relay PROVE Head(link[l]) \in Messages
  <2>1. l \in Modules BY <1>5, PipelineAssumption
  <2>2. link[l] \in Seq(Messages) BY <2>1, LinksType
  <2> QED BY <1>1, <2>2
<1> QED BY <1>2, <1>3, <1>4, <1>5, LinksType

LEMMA NestedInitType == ASSUME NestedInit PROVE NestedTypeOK /\ HasOutc
<1> USE PipelineAssumption, NestedAssumption
<1>1. Terminate \in Told BY StreamsType
<1>2. pc \in [Places -> LoopStates] BY DEF NestedInit, Init, LoopStates
<1>3. made \in [Modules -> 1..MaxStreams] BY DEF NestedInit, Init
<1>4. link \in [Places -> Seq(Told)] /\ \A m \in Modules : link[m] \in Seq(Messages)
  BY DEF NestedInit, Init
<1>5. LineTypeOK
  BY <1>1, <1>2, <1>3, <1>4
     DEF NestedInit, Init, LineTypeOK, HandlerStates, Own, NoPayload, NoChannel
<1>6. HasOutc BY DEF NestedInit, Init, HasOutc
<1> QED BY <1>5, <1>6 DEF NestedInit, NestedTypeOK, Own

LEMMA ClosesType ==
  ASSUME closed \subseteq Streams, panic \in {"none", "stream", "cancel"},
         NEW c \in Streams, CloseChannel(c) \/ UNCHANGED <<closed, panic>>
  PROVE  closed' \subseteq Streams /\ panic' \in {"none", "stream", "cancel"}
BY DEF CloseChannel

LEMMA SpawnType ==
  ASSUME LineTypeOK, NEW m \in Modules, Mc(m) \in Handlers,
         NEW cb \in Streams \cup {NoChannel}, Spawn(m, cb)
  PROVE  /\ wg' \in [Modules -> SUBSET Handlers]
         /\ hpc' \in [Handlers -> HandlerStates]
         /\ hin' \in [Handlers -> Streams \cup {NoChannel}]
         /\ pc' \in [Places -> LoopStates]
<1>1. wg' \in [Modules -> SUBSET Handlers]
  <2>1. wg[m] \cup {Mc(m)} \in SUBSET Handlers BY DEF LineTypeOK
  <2> QED BY <2>1 DEF Spawn, LineTypeOK
<1>2. hpc' \in [Handlers -> HandlerStates]
  <2>1. "start" \in HandlerStates BY DEF HandlerStates
  <2> QED BY <2>1 DEF Spawn, LineTypeOK
<1>3. hin' \in [Handlers -> Streams \cup {NoChannel}]
  BY DEF Spawn, LineTypeOK
<1>4. pc' \in [Places -> LoopStates]
  <2>1. AfterSpawn(m) \in LoopStates BY DEF AfterSpawn, LoopStates
  <2> QED BY <2>1 DEF Spawn, GoTo, LineTypeOK
<1> QED BY <1>1, <1>2, <1>3, <1>4

(* Every step of a module's loop keeps the types. *)
LEMMA NestedLoopType ==
  ASSUME LineTypeOK, NEW m \in Modules, Loop(m)
  PROVE  LineTypeOK'
<1> USE PipelineAssumption DEF linkVars, streamVars, stdinVars
<1>0. /\ m \in Places /\ m # Relay /\ m - 1 \in Places /\ Mc(m) \in Handlers
      /\ Channel(Mc(m)) \in Messages /\ Terminate \in Messages
      /\ Channel(Mc(m)) \in Told /\ Terminate \in Told
  <2>1. m \in Places /\ m - 1 \in Places /\ m # Relay OBVIOUS
  <2>2. made[m] \in 1..MaxStreams BY DEF LineTypeOK
  <2>3. Mc(m) \in Handlers BY <2>2 DEF Mc
  <2> QED BY <2>1, <2>3, StreamsType
<1>1. CASE Announce(m)
  <2>1. /\ link' \in [Places -> Seq(Told)]
        /\ \A n \in Modules : link'[n] \in Seq(Messages)
    BY <1>0, <1>1, NestedSend DEF Announce
  <2> QED BY <2>1, <1>0, <1>1 DEF Announce, LineTypeOK, GoTo, LoopStates
<1>2. CASE RecvTerminate(m)
  <2>1. /\ link' \in [Places -> Seq(Told)]
        /\ \A n \in Modules : link'[n] \in Seq(Messages)
    BY <1>0, <1>2, NestedReceive DEF RecvTerminate
  <2>2. closed' \subseteq Streams /\ panic' \in {"none", "stream", "cancel"}
    <3>1. Mc(m) \in Streams BY <1>0, StreamsType
    <3>2. CloseChannel(Mc(m)) \/ UNCHANGED <<closed, panic>>
      BY <1>2 DEF RecvTerminate
    <3> QED BY <3>1, <3>2, ClosesType DEF LineTypeOK
  <2>3. pc' \in [Places -> LoopStates]
    BY <1>0, <1>2 DEF RecvTerminate, GoTo, LineTypeOK, LoopStates
  <2> QED BY <2>1, <2>2, <2>3, <1>2 DEF RecvTerminate, LineTypeOK
<1>3. CASE RecvFirstChannel(m)
  <2>1. /\ link' \in [Places -> Seq(Told)]
        /\ \A n \in Modules : link'[n] \in Seq(Messages)
        /\ Head(link[m - 1]) \in Told
    BY <1>0, <1>3, NestedReceive DEF RecvFirstChannel
  <2>2. Head(link[m - 1]).mc \in Streams \cup {NoChannel} BY <2>1, StreamsType
  <2>3. Spawn(m, Head(link[m - 1]).mc) BY <1>3 DEF RecvFirstChannel
  <2>4. init' \in [Modules -> BOOLEAN] BY <1>3 DEF RecvFirstChannel, LineTypeOK
  <2> QED BY <2>1, <2>2, <2>3, <2>4, <1>0, <1>3, SpawnType
          DEF RecvFirstChannel, LineTypeOK
<1>4. CASE RecvNextChannel(m)
  <2>1. /\ link' \in [Places -> Seq(Told)]
        /\ \A n \in Modules : link'[n] \in Seq(Messages)
        /\ Head(link[m - 1]) \in Told
    BY <1>0, <1>4, NestedReceive DEF RecvNextChannel
  <2>2. made' \in [Modules -> 1..MaxStreams]
    <3>1. made[m] + 1 \in 1..MaxStreams BY <1>4 DEF RecvNextChannel, LineTypeOK
    <3> QED BY <3>1, <1>4 DEF RecvNextChannel, LineTypeOK
  <2>3. pc' \in [Places -> LoopStates] /\ held' \in [Places -> Told]
    BY <2>1, <1>0, <1>4 DEF RecvNextChannel, GoTo, LineTypeOK, LoopStates
  <2> QED BY <2>1, <2>2, <2>3, <1>4 DEF RecvNextChannel, LineTypeOK
<1>5. CASE AnnounceNext(m)
  <2>1. /\ link' \in [Places -> Seq(Told)]
        /\ \A n \in Modules : link'[n] \in Seq(Messages)
    BY <1>0, <1>5, NestedSend DEF AnnounceNext
  <2>2. held[m].mc \in Streams \cup {NoChannel}
    BY <1>0, StreamsType DEF LineTypeOK
  <2>3. Spawn(m, held[m].mc) BY <1>5 DEF AnnounceNext
  <2> QED BY <2>1, <2>2, <2>3, <1>0, <1>5, SpawnType DEF AnnounceNext, LineTypeOK
<1>6. CASE Cancelled(m)
  BY <1>0, <1>6 DEF Cancelled, LineTypeOK, GoTo, LoopStates
<1>7. CASE Join(m, "join", "terminate") \/ Join(m, "drain", "last")
  BY <1>0, <1>7 DEF Join, LineTypeOK, GoTo, LoopStates
<1>8. CASE SendTerminate(m, "drain")
  <2>1. /\ link' \in [Places -> Seq(Told)]
        /\ \A n \in Modules : link'[n] \in Seq(Messages)
    BY <1>0, <1>8, NestedSend DEF SendTerminate
  <2> QED BY <2>1, <1>0, <1>8 DEF SendTerminate, LineTypeOK, GoTo, LoopStates
<1>9. CASE Last(m, m - 1)
  <2>1. /\ link' \in [Places -> Seq(Told)]
        /\ \A n \in Modules : link'[n] \in Seq(Messages)
    BY <1>0, <1>9, NestedReceive, LinksType DEF Last
  <2> QED BY <2>1, <1>0, <1>9 DEF Last, LineTypeOK, GoTo, LoopStates
<1>10. CASE CloseOut(m, "done")
  BY <1>0, <1>10 DEF CloseOut, LineTypeOK, GoTo, LoopStates
<1> QED BY <1>1, <1>2, <1>3, <1>4, <1>5, <1>6, <1>7, <1>8, <1>9, <1>10 DEF Loop

LEMMA NestedLoopHasOutc ==
  ASSUME LineTypeOK, HasOutc, NEW m \in Modules, Loop(m)
  PROVE  HasOutc'
<1>1. outc' = outc
  BY DEF Loop, Announce, RecvTerminate, RecvFirstChannel, RecvNextChannel,
         AnnounceNext, Cancelled, Join, SendTerminate, Last, CloseOut, streamVars
<1>2. hpc' = hpc \/ hpc' = [hpc EXCEPT ![Mc(m)] = "start"]
  BY DEF Loop, Announce, RecvTerminate, RecvFirstChannel, RecvNextChannel,
         AnnounceNext, Cancelled, Join, SendTerminate, Last, CloseOut, Spawn
<1> QED BY <1>1, <1>2 DEF HasOutc, LineTypeOK

(* And every step of a handler. *)
LEMMA NestedTransfer ==
  ASSUME LineTypeOK, NEW g \in Handlers, NEW h \in Handlers, Transfer(g, h)
  PROVE  LineTypeOK'
<1> USE PipelineAssumption DEF linkVars, loopVars, streamVars, stdinVars
<1>1. PICK next \in AfterRecv(h), back \in KindOf(g).sent :
        /\ hpc' = [hpc EXCEPT ![h] = next, ![g] = back]
        /\ buf' = [buf EXCEPT ![h] = IF hpc[h] = "recv" /\ next = "send"
                                       THEN buf[g] ELSE @,
                              ![g] = Sent(g, back)]
  BY DEF Transfer
<1>2. back \in HandlerStates
  BY KindsType, KindOfType DEF KindStates, HandlerStates
<1>3. next \in HandlerStates
  <2>1. KindOf(h).take \subseteq HandlerStates
    BY KindsType, KindOfType DEF KindStates, HandlerStates
  <2> QED BY <1>1, <2>1 DEF AfterRecv, LineTypeOK
<1>4. hpc' \in [Handlers -> HandlerStates] BY <1>1, <1>2, <1>3 DEF LineTypeOK
<1>5. buf' \in [Handlers -> 0..Own]
  <2>1. buf[g] \in 0..Own /\ 0 \in 0..Own BY DEF Own, LineTypeOK
  <2>2. Sent(g, back) \in 0..Own BY <2>1 DEF Sent, NoPayload
  <2> QED BY <1>1, <2>2 DEF LineTypeOK
<1>6. written' \in Seq(0..Own)
  <2>1. buf[g] \in 0..Own /\ written \in Seq(0..Own) BY DEF LineTypeOK
  <2>2. Append(written, buf[g]) \in Seq(0..Own) BY <2>1
  <2> QED BY <2>1, <2>2 DEF Transfer
<1> QED BY <1>4, <1>5, <1>6 DEF Transfer, LineTypeOK

LEMMA NestedHandlerType ==
  ASSUME LineTypeOK, HasOutc, NEW h \in Handlers, Handler(h)
  PROVE  LineTypeOK'
<1> USE PipelineAssumption DEF linkVars, loopVars, streamVars, stdinVars
<1>0. h[1] \in Modules /\ McSeen(h) \in Handlers /\ Handlers \subseteq Streams
  BY StreamsType DEF McSeen, Mc, LineTypeOK
<1>1. CASE Start(h)
  <2>1. /\ hpc' = hpc \/ hpc' = [hpc EXCEPT ![h] = "cb"]
        /\ outc' = outc \/ outc' = [outc EXCEPT ![h] = McSeen(h)]
        /\ started' = started \/ started' = started \cup {McSeen(h)}
    BY <1>1 DEF Start, Bound, Step, Unlocked
  <2>2. hpc' \in [Handlers -> HandlerStates]
    BY <2>1 DEF LineTypeOK, HandlerStates
  <2>3. outc' \in [Handlers -> Handlers \cup {NoChannel}]
    <3>1. outc \in [Handlers -> Handlers \cup {NoChannel}] BY DEF LineTypeOK
    <3> QED BY <1>0, <2>1, <3>1
  <2>4. started' \subseteq Streams
    <3>1. started \subseteq Streams BY DEF LineTypeOK
    <3> QED BY <1>0, <2>1, <3>1
  <2> QED BY <1>1, <2>2, <2>3, <2>4 DEF Start, LineTypeOK
<1>2. CASE Callback(h)
  <2>1. PICK next \in KindOf(h).enter :
          /\ hpc' = [hpc EXCEPT ![h] = next]
          /\ buf' = [buf EXCEPT ![h] = IF next = "send" THEN Own ELSE @]
          /\ draining' = Aside(h, next)
    BY <1>2 DEF Callback, Step
  <2>2. next \in HandlerStates
    BY <2>1, KindsType, KindOfType DEF KindStates, HandlerStates
  <2>3. hpc' \in [Handlers -> HandlerStates] BY <2>1, <2>2 DEF LineTypeOK
  <2>4. buf' \in [Handlers -> 0..Own]
    <3>1. Own \in 0..Own BY DEF Own
    <3> QED BY <3>1, <2>1 DEF LineTypeOK
  <2>5. draining' \subseteq Handlers BY <2>1 DEF Aside, LineTypeOK
  <2>6. outc' \in [Handlers -> Handlers \cup {NoChannel}]
    BY <1>0, <1>2 DEF Callback, Bound, LineTypeOK
  <2> QED BY <2>3, <2>4, <2>5, <2>6, <1>0, <1>2 DEF Callback, LineTypeOK
<1>3. ASSUME NEW g \in Handlers, Transfer(g, h) PROVE LineTypeOK'
  BY <1>3, NestedTransfer
<1>4. CASE SendClosed(h)
  BY <1>4 DEF SendClosed, LineTypeOK
<1>5. CASE InputClosed(h)
  <2>1. AfterInput(h) \subseteq HandlerStates
    BY KindsType, KindOfType DEF KindStates, AfterInput, HandlerStates
  <2>2. hpc' \in [Handlers -> HandlerStates]
    BY <1>5, <2>1 DEF InputClosed, Step, LineTypeOK
  <2>3. buf' \in [Handlers -> 0..Own]
    <3>1. Own \in 0..Own BY DEF Own
    <3> QED BY <3>1, <1>5 DEF InputClosed, LineTypeOK
  <2> QED BY <2>2, <2>3, <1>5 DEF InputClosed, LineTypeOK
<1>6. CASE CloseOutc(h)
  <2>1. hpc' \in [Handlers -> HandlerStates]
    <3>1. AfterClose(h) \in HandlerStates
      BY KindsType, KindOfType DEF KindStates, AfterClose, HandlerStates
    <3> QED BY <3>1, <1>6 DEF CloseOutc, Step, LineTypeOK
  <2>2. Out(h) \in Streams
    BY <1>0, <1>6 DEF Out, CloseOutc, LineTypeOK, HasOutc
  <2>3. closed' \subseteq Streams /\ panic' \in {"none", "stream", "cancel"}
    <3>1. \/ panic' = "stream" /\ closed' = closed
          \/ closed' = closed \cup {Out(h)} /\ panic' = panic
      BY <1>6 DEF CloseOutc, CloseChannel
    <3> QED BY <3>1, <2>2 DEF LineTypeOK
  <2> QED BY <2>1, <2>3, <1>6 DEF CloseOutc, LineTypeOK
<1>7. CASE Done(h)
  BY <1>0, <1>7 DEF Done, Step, LineTypeOK, HandlerStates
<1>8. CASE Lock(h)
  BY <1>0, <1>8 DEF Lock, Step, LineTypeOK, HandlerStates
<1>9. CASE ReadDatac(h)
  <2>1. hpc' \in [Handlers -> HandlerStates]
    BY <1>9 DEF ReadDatac, Step, LineTypeOK, HandlerStates
  <2>2. datac + 1 \in 0..Payloads /\ datac + 1 \in 0..Own
    BY <1>9 DEF ReadDatac, LineTypeOK, Own
  <2> QED BY <2>1, <2>2, <1>9 DEF ReadDatac, LineTypeOK
<1>10. CASE DatacClosed(h)
  <2>1. hpc' = hpc \/ hpc' = [hpc EXCEPT ![h] = "close"]
    BY <1>10 DEF DatacClosed, Step
  <2>2. hpc' \in [Handlers -> HandlerStates]
    BY <2>1 DEF LineTypeOK, HandlerStates
  <2>3. cancel' \subseteq Modules /\ panic' \in {"none", "stream", "cancel"}
    BY <1>0, <1>10 DEF DatacClosed, LineTypeOK
  <2> QED BY <2>2, <2>3, <1>10 DEF DatacClosed, LineTypeOK
<1>11. CASE ReadFrom(h)
  <2>1. hpc' \in [Handlers -> HandlerStates]
    BY <1>11 DEF ReadFrom, Step, LineTypeOK, HandlerStates
  <2>2. buf' \in [Handlers -> 0..Own]
    <3>1. buf[h] + 1 \in 0..Own BY <1>11 DEF ReadFrom, LineTypeOK, Own
    <3> QED BY <3>1, <1>11 DEF ReadFrom, LineTypeOK
  <2> QED BY <2>1, <2>2, <1>11 DEF ReadFrom, LineTypeOK
<1>12. CASE ReadFromEnd(h)
  BY <1>12 DEF ReadFromEnd, Step, LineTypeOK, HandlerStates
<1>13. CASE Drained(h)
  BY <1>13 DEF Drained, LineTypeOK
<1> QED BY <1>1, <1>2, <1>3, <1>4, <1>5, <1>6, <1>7, <1>8, <1>9, <1>10, <1>11,
           <1>12, <1>13
        DEF Handler

LEMMA NestedHandlerHasOutc ==
  ASSUME LineTypeOK, HasOutc, NEW h \in Handlers, Handler(h)
  PROVE  HasOutc'
<1>1. CASE Callback(h)
  <2>1. McSeen(h) # NoChannel
    BY PipelineAssumption DEF McSeen, Mc, LineTypeOK, NoChannel
  <2>2. /\ outc'[h] # NoChannel
        /\ \A g \in Handlers \ {h} : outc'[g] = outc[g] /\ hpc'[g] = hpc[g]
    BY <1>1, <2>1 DEF Callback, Bound, Step, LineTypeOK
  <2> QED BY <2>2 DEF HasOutc, LineTypeOK
<1>2. CASE ~Callback(h)
  <2>1. \A g \in Handlers : outc[g] # NoChannel => outc'[g] # NoChannel
    <3>1. CASE Start(h) BY <3>1 DEF Start, Bound, LineTypeOK
    <3>2. CASE ~Start(h)
      BY <1>2, <3>2
         DEF Handler, Transfer, SendClosed, InputClosed, CloseOutc, Done, Lock,
             ReadDatac, DatacClosed, ReadFrom, ReadFromEnd, Drained, streamVars
    <3> QED BY <3>1, <3>2
  <2>2. \A f \in Handlers : hpc[f] \in {"idle", "start", "cb"}
                              => hpc'[f] \in {"idle", "start", "cb"}
    <3>1. ASSUME NEW g \in Handlers, Transfer(g, h), NEW f \in Handlers,
                 hpc[f] \in {"idle", "start", "cb"}
          PROVE  hpc'[f] \in {"idle", "start", "cb"}
      <4>1. PICK next \in AfterRecv(h), back \in KindOf(g).sent :
              hpc' = [hpc EXCEPT ![h] = next, ![g] = back]
        BY <3>1 DEF Transfer
      <4>2. f # g BY <3>1 DEF Transfer
      <4>3. CASE f # h BY <3>1, <4>1, <4>2, <4>3 DEF LineTypeOK
      <4>4. CASE f = h
        <5>1. next = hpc[h] BY <3>1, <4>1, <4>4 DEF AfterRecv
        <5> QED BY <3>1, <4>1, <4>2, <4>4, <5>1 DEF LineTypeOK
      <4> QED BY <4>3, <4>4
    <3> QED BY <1>2, <3>1
            DEF Handler, Start, SendClosed, InputClosed, CloseOutc, Done, Lock,
                ReadDatac, DatacClosed, ReadFrom, ReadFromEnd, Drained, Step,
                LineTypeOK
  <2>3. ASSUME NEW f \in Handlers, hpc'[f] \notin {"idle", "start", "cb"}
        PROVE  hpc[f] \notin {"idle", "start", "cb"}
    BY <2>2, <2>3
  <2> QED BY <2>1, <2>3 DEF HasOutc
<1> QED BY <1>1, <1>2

(* A payload that one handler and the driver hand each other *)
LEMMA HandoverType ==
  ASSUME LineTypeOK, NEW h \in Handlers, NEW next \in HandlerStates,
         NEW p \in 0..Own, Step(h, next),
         buf' = [buf EXCEPT ![h] = p] \/ buf' = buf,
         UNCHANGED <<linkVars, loopVars, wg, started, closed, hin, outc,
                     draining, stdinVars, written, panic>>
  PROVE  LineTypeOK'
<1>1. hpc' \in [Handlers -> HandlerStates] BY DEF Step, LineTypeOK
<1>2. buf' \in [Handlers -> 0..Own] BY DEF LineTypeOK
<1> QED BY <1>1, <1>2 DEF LineTypeOK, linkVars, loopVars, stdinVars

LEMMA DriverType ==
  ASSUME NestedTypeOK, HasOutc, Sink \/ Giver \/ Hearer \/ Driver
  PROVE  NestedTypeOK' /\ HasOutc'
<1> USE PipelineAssumption DEF NestedTypeOK
<1>0. /\ Relay \in Places /\ N \in Places /\ N # Relay
      /\ Own \in Nat /\ 0 \in 0..Own /\ 1 \in 0..Own
  BY DEF Own
<1>1. /\ \A f \in Handlers : hpc[f] \in {"idle", "start", "cb"} =>
           hpc'[f] \in {"idle", "start", "cb"}
      /\ outc' = outc
      => HasOutc'
  BY DEF HasOutc, LineTypeOK
<1>2. UNCHANGED vars => LineTypeOK' /\ HasOutc'
  BY DEF vars, linkVars, loopVars, streamVars, stdinVars, LineTypeOK, HasOutc
<1>3. CASE SinkCallback BY <1>2, <1>3 DEF SinkCallback
<1>4. CASE SinkEnds BY <1>2, <1>4 DEF SinkEnds
<1>5. ASSUME NEW g \in Handlers, SinkReceives(g)
      PROVE  NestedTypeOK' /\ HasOutc'
  <2>0. PICK back \in KindOf(g).sent :
          Step(g, back) /\ buf' = [buf EXCEPT ![g] = Sent(g, back)]
    BY <1>5 DEF SinkReceives, Sends
  <2>1. back \in HandlerStates
    BY KindsType, KindOfType DEF KindStates, HandlerStates
  <2>2. buf[g] \in 0..Own /\ Sent(g, back) \in 0..Own
    BY <1>0 DEF LineTypeOK, Sent, NoPayload
  <2>3. LineTypeOK'
    BY <1>5, <2>0, <2>1, <2>2, HandoverType DEF SinkReceives
  <2>4. \A f \in Handlers : hpc[f] \in {"idle", "start", "cb"} =>
          hpc'[f] \in {"idle", "start", "cb"}
    BY <1>5, <2>0 DEF SinkReceives, Step, LineTypeOK
  <2>5. HasOutc' BY <1>1, <1>5, <2>4 DEF SinkReceives
  <2>6. Append(data, buf[g]) \in Seq(0..Own) BY <2>2
  <2> QED BY <1>5, <2>3, <2>5, <2>6 DEF SinkReceives
<1>6. CASE GiveStart
  <2>1. D \in Streams BY StreamsType
  <2>2. LineTypeOK' /\ HasOutc'
    BY <1>6, <2>1 DEF GiveStart, LineTypeOK, HasOutc, linkVars, loopVars,
                      streamVars, stdinVars
  <2> QED BY <1>6, <2>2 DEF GiveStart
<1>7. ASSUME NEW h \in Handlers, Give(h)
      PROVE  NestedTypeOK' /\ HasOutc'
  <2>1. PICK next \in AfterRecv(h) :
          /\ Step(h, next)
          /\ buf' = [buf EXCEPT ![h] = IF hpc[h] = "recv" /\ next = "send"
                                         THEN given + 1 ELSE @]
    BY <1>7 DEF Give
  <2>2. next \in HandlerStates
    <3>1. KindOf(h).take \subseteq HandlerStates
      BY KindsType, KindOfType DEF KindStates, HandlerStates
    <3> QED BY <2>1, <3>1 DEF AfterRecv, LineTypeOK
  <2>3. given + 1 \in 0..Own
    <3>1. given < 1 \/ given < Payloads BY <1>7 DEF Give
    <3> QED BY <3>1 DEF Own
  <2>4. PICK p \in 0..Own : buf' = [buf EXCEPT ![h] = p] \/ buf' = buf
    <3>1. CASE hpc[h] = "recv" /\ next = "send" BY <2>1, <2>3, <3>1
    <3>2. CASE ~(hpc[h] = "recv" /\ next = "send")
      BY <1>0, <2>1, <3>2 DEF LineTypeOK
    <3> QED BY <3>1, <3>2
  <2>5. LineTypeOK'
    BY <1>7, <2>1, <2>2, <2>4, HandoverType DEF Give
  <2>6. ASSUME NEW f \in Handlers, hpc[f] \in {"idle", "start", "cb"}
        PROVE  hpc'[f] = hpc[f]
    <3>1. f # h => hpc'[f] = hpc[f] BY <2>1 DEF Step, LineTypeOK
    <3>2. f = h => hpc'[f] = hpc[f]
      BY <2>1, <2>6 DEF Step, LineTypeOK, AfterRecv
    <3> QED BY <3>1, <3>2
  <2>7. HasOutc' BY <1>1, <1>7, <2>6 DEF Give
  <2> QED BY <1>7, <2>3, <2>5, <2>7 DEF Give
<1>8. CASE GiveEnds BY <1>2, <1>8 DEF GiveEnds
<1>9. CASE GiveCloses
  <2>1. closed' \subseteq Streams /\ panic' \in {"none", "stream", "cancel"}
    BY <1>9, StreamsType DEF GiveCloses, CloseChannel, LineTypeOK
  <2>2. LineTypeOK' /\ HasOutc'
    BY <1>9, <2>1 DEF GiveCloses, LineTypeOK, HasOutc, linkVars, loopVars,
                      streamVars, stdinVars
  <2> QED BY <1>9, <2>2 DEF GiveCloses
<1>10. CASE Offer
  <2>1. /\ link' \in [Places -> Seq(Told)]
        /\ \A n \in Modules : link'[n] \in Seq(Messages)
    BY <1>0, <1>10, NestedSend, StreamsType DEF Offer
  <2>2. LineTypeOK' /\ HasOutc'
    BY <1>10, <2>1 DEF Offer, LineTypeOK, HasOutc, loopVars, streamVars, stdinVars
  <2> QED BY <1>10, <2>2 DEF Offer, DriverGoes
<1>11. CASE Hear
  <2>1. /\ link' \in [Places -> Seq(Told)]
        /\ \A n \in Modules : link'[n] \in Seq(Messages)
        /\ Head(link[N]) \in Messages
    BY <1>0, <1>11, NestedReceive DEF Hear
  <2>2. dcb' \in Handlers \cup {NoChannel} /\ D \in Streams
    BY <1>11, <2>1, StreamsType DEF Hear
  <2>3. LineTypeOK' /\ HasOutc'
    BY <1>11, <2>1, <2>2 DEF Hear, Opened, LineTypeOK, HasOutc, loopVars,
                             streamVars, stdinVars
  <2> QED BY <1>11, <2>2, <2>3 DEF Hear, DriverGoes
<1>12. CASE TeeTakes BY <1>2, <1>12 DEF TeeTakes, DriverGoes
<1>13. CASE Waits("wait", "terminate") \/ Waits("join", "last")
  BY <1>2, <1>13 DEF Waits, DriverGoes
<1>14. CASE TellTerminate
  <2>1. /\ link' \in [Places -> Seq(Told)]
        /\ \A n \in Modules : link'[n] \in Seq(Messages)
    BY <1>0, <1>14, NestedSend, StreamsType DEF TellTerminate
  <2>2. LineTypeOK' /\ HasOutc'
    BY <1>14, <2>1 DEF TellTerminate, LineTypeOK, HasOutc, loopVars, streamVars,
                       stdinVars
  <2> QED BY <1>14, <2>2 DEF TellTerminate, DriverGoes
<1>15. CASE LastHeard
  <2>1. /\ link' \in [Places -> Seq(Told)]
        /\ \A n \in Modules : link'[n] \in Seq(Messages)
    BY <1>0, <1>15, NestedReceive, LinksType DEF LastHeard
  <2>2. LineTypeOK' /\ HasOutc'
    BY <1>15, <2>1 DEF LastHeard, LineTypeOK, HasOutc, loopVars, streamVars,
                       stdinVars
  <2> QED BY <1>15, <2>2 DEF LastHeard, DriverGoes
<1>16. CASE CloseIn
  <2>1. LineTypeOK' /\ HasOutc'
    BY <1>0, <1>16 DEF CloseIn, LineTypeOK, HasOutc, loopVars, streamVars,
                       stdinVars
  <2> QED BY <1>16, <2>1 DEF CloseIn, DriverGoes
<1>17. CASE TeeHears
  <2>1. /\ link' \in [Places -> Seq(Told)]
        /\ \A n \in Modules : link'[n] \in Seq(Messages)
        /\ Head(link[N]) \in Messages
    BY <1>0, <1>17, NestedReceive DEF TeeHears
  <2>2. dcb' \in Handlers \cup {NoChannel}
    BY <1>17, <2>1, StreamsType DEF TeeHears
  <2>3. LineTypeOK' /\ HasOutc'
    BY <1>17, <2>1 DEF TeeHears, LineTypeOK, HasOutc, loopVars, streamVars,
                       stdinVars
  <2> QED BY <1>17, <2>2, <2>3 DEF TeeHears
<1>18. CASE TeeJoins BY <1>2, <1>18 DEF TeeJoins
<1>19. CASE TeeTellsTerminate
  <2>1. /\ link' \in [Places -> Seq(Told)]
        /\ \A n \in Modules : link'[n] \in Seq(Messages)
    BY <1>0, <1>19, NestedSend, StreamsType DEF TeeTellsTerminate
  <2>2. LineTypeOK' /\ HasOutc'
    BY <1>19, <2>1 DEF TeeTellsTerminate, LineTypeOK, HasOutc, loopVars,
                       streamVars, stdinVars
  <2> QED BY <1>19, <2>2 DEF TeeTellsTerminate
<1> QED BY <1>3, <1>4, <1>5, <1>6, <1>7, <1>8, <1>9, <1>10, <1>11, <1>12, <1>13,
           <1>14, <1>15, <1>16, <1>17, <1>18, <1>19
        DEF Sink, Giver, Hearer, Driver

LEMMA NestedTypeStep ==
  ASSUME NestedTypeOK, HasOutc, [NestedNext]_nestedVars
  PROVE  NestedTypeOK' /\ HasOutc'
<1>1. UNCHANGED driverVars /\ LineTypeOK' => NestedTypeOK'
  BY DEF driverVars, NestedTypeOK
<1>2. CASE UNCHANGED nestedVars
  <2>1. UNCHANGED vars /\ UNCHANGED driverVars BY <1>2 DEF nestedVars
  <2>2. LineTypeOK' /\ HasOutc'
    BY <2>1 DEF vars, linkVars, loopVars, streamVars, stdinVars, LineTypeOK,
                NestedTypeOK, HasOutc
  <2> QED BY <1>1, <2>1, <2>2
<1>3. ASSUME NEW m \in Modules, Inner(Loop(m)) PROVE NestedTypeOK' /\ HasOutc'
  BY <1>1, <1>3, NestedLoopType, NestedLoopHasOutc DEF Inner, NestedTypeOK
<1>4. ASSUME NEW h \in Handlers, Inner(Handler(h))
      PROVE  NestedTypeOK' /\ HasOutc'
  BY <1>1, <1>4, NestedHandlerType, NestedHandlerHasOutc
     DEF Inner, NestedTypeOK
<1> QED BY <1>2, <1>3, <1>4, DriverType DEF NestedNext

(* Every state of every line with every driver is well typed: only link 0  *)
(* carries the driver's stream, and what is buffered or handed over is a   *)
(* payload of the source (pipeline.go:128-214, tee.go:72-128).             *)
THEOREM NestedTypesCorrect == NestedSpec => []NestedTypeOK
<1>1. NestedInit => NestedTypeOK /\ HasOutc BY NestedInitType
<1>2. NestedTypeOK /\ HasOutc /\ [NestedNext]_nestedVars
        => (NestedTypeOK /\ HasOutc)'
  BY NestedTypeStep
<1> QED BY <1>1, <1>2, PTL DEF NestedSpec

-----------------------------------------------------------------------------
(* ReadAllPipeline on read-file and copying modules *)

LEMMA ReadKinds ==
  ASSUME IsReadLine
  PROVE  /\ N \in Nat /\ 1 \in Modules /\ N \in Modules /\ N # Relay
         /\ \A m \in Modules :
              /\ m \in Nat /\ m >= 1 /\ m <= N
              /\ m \in Places /\ m # Relay /\ m - 1 \in Places /\ m - 1 # N
              /\ The(m) \in Handlers /\ The(m)[1] = m /\ The(m)[2] = 1
              /\ ~Kind[m].reread /\ (Kind[m].aside => m = 1)
              /\ Kind[m].enter = IF m = 1 THEN {"source", "fail"} ELSE {"recv"}
              /\ Kind[m].take = {"send"}
              /\ Kind[m].sent = {IF m = 1 THEN "source" ELSE "recv"}
              /\ Kind[m].end = {"close"} /\ Kind[m].after = "finish"
              /\ Kind[m].role = "filter" /\ ~Kind[m].early
              /\ \A n \in 1..(m - 1) : n \in Modules /\ n < m
         /\ \A l, k \in Places : The(l) = The(k) => l = k
         /\ The(Relay) = D
<1> USE PipelineAssumption
<1>1. N \in Nat /\ 1 \in Modules /\ N \in Modules /\ N # Relay
  OBVIOUS
<1>2. ASSUME NEW m \in Modules
      PROVE  /\ m \in Nat /\ m >= 1 /\ m <= N
             /\ m \in Places /\ m # Relay /\ m - 1 \in Places /\ m - 1 # N
             /\ The(m) \in Handlers /\ The(m)[1] = m /\ The(m)[2] = 1
             /\ \A n \in 1..(m - 1) : n \in Modules /\ n < m
  BY DEF The
<1>3. ASSUME NEW m \in Modules
      PROVE  /\ ~Kind[m].reread /\ (Kind[m].aside => m = 1)
             /\ Kind[m].enter = IF m = 1 THEN {"source", "fail"} ELSE {"recv"}
             /\ Kind[m].take = {"send"}
             /\ Kind[m].sent = {IF m = 1 THEN "source" ELSE "recv"}
             /\ Kind[m].end = {"close"} /\ Kind[m].after = "finish"
             /\ Kind[m].role = "filter" /\ ~Kind[m].early
  <2>1. CASE m = 1 BY <2>1 DEF IsReadLine, ReadFile, Upper
  <2>2. CASE m # 1
    <3>1. m \in 2..N BY <2>2
    <3>2. Kind[m] = Upper \/ Kind[m] = Lower
      BY <3>1 DEF IsReadLine, Copies, HexEncode
    <3> QED BY <2>2, <3>2 DEF Upper, Lower
  <2> QED BY <2>1, <2>2
<1>4. \A l, k \in Places : The(l) = The(k) => l = k BY DEF The
<1>5. The(Relay) = D BY DEF The, D
<1> QED BY <1>1, <1>2, <1>3, <1>4, <1>5

(* Only the first handler of a module ever runs. *)
LEMMA WhoRuns ==
  ASSUME NoOthers, NEW h \in Handlers, hpc[h] # "idle"
  PROVE  h = The(h[1]) /\ h[1] \in Modules
BY DEF NoOthers, The

LEMMA RoomIsEmpty ==
  ASSUME IsReadLine, NEW l \in Places, OneByOne(l), HasRoom(l)
  PROVE  link[l] = <<>> /\ (Announced(l) <=> Heard(l))
<1>1. Capacity(l) = 1 BY NestedAssumption DEF Capacity
<1>2. Len(<<Channel(The(l))>>) = 1 /\ Len(<<Terminate>>) = 1 OBVIOUS
<1>3. Len(link[l]) # 1 BY <1>1 DEF HasRoom
<1>4. link[l] # <<Channel(The(l))>> /\ link[l] # <<Terminate>>
  BY <1>2, <1>3, Zenon
<1> QED BY <1>4 DEF OneByOne

(* What a reader finds on a link *)
LEMMA HeadIs ==
  ASSUME NEW l \in Places, OneByOne(l), link[l] # <<>>
  PROVE  /\ Tail(link[l]) = <<>> /\ Announced(l)
         /\ ~Heard(l) => Head(link[l]) = Channel(The(l))
         /\ Heard(l) => Head(link[l]) = Terminate
         /\ Channel(The(l)) # Terminate /\ Channel(The(l)).mc = The(l)
<1>1. \A x : Tail(<<x>>) = <<>> /\ Head(<<x>>) = x OBVIOUS
<1>2. Channel(The(l)) # Terminate /\ Channel(The(l)).mc = The(l)
  BY DEF Channel, Terminate
<1> QED BY <1>1, <1>2 DEF OneByOne

LEMMA LinkKept ==
  ASSUME NEW l \in Places, OneByOne(l), link'[l] = link[l],
         Announced(l)' <=> Announced(l), Heard(l)' <=> Heard(l)
  PROVE  OneByOne(l)'
BY DEF OneByOne

(* A step that starts handlers at most *)
LEMMA NothingPassed ==
  ASSUME IsReadLine, NestedTypeOK, ReadsInTurn,
         UNCHANGED <<buf, outc, closed, data>>,
         \A n \in Modules : \/ hpc'[The(n)] = hpc[The(n)]
                            \/ hpc[The(n)] = "idle" /\ hpc'[The(n)] = "start"
  PROVE  (\A n \in Modules : EndsInTurn(n)') /\ OnItsWay'
<1>1. \A n \in Modules : EndsInTurn(n) BY DEF ReadsInTurn
<1>2. ASSUME NEW n \in Modules PROVE EndsInTurn(n)'
  <2>1. \A k \in 1..(n - 1) : k \in Modules BY ReadKinds
  <2>2. ReadStates(n)' = ReadStates(n) /\ "start" \in ReadStates(n)
    BY DEF ReadStates
  <2>3. \A k \in 1..(n - 1) : hpc[The(k)] \in {"drain", "finish", "done"}
          => hpc'[The(k)] \in {"drain", "finish", "done"}
    BY <2>1
  <2> QED BY <1>1, <2>2, <2>3 DEF EndsInTurn, OwnOutc
<1>3. data \in Seq(0..Own) /\ \A n \in Modules : buf[The(n)] \in 0..Own /\ 0..Own \subseteq Nat
  BY ReadKinds DEF NestedTypeOK, LineTypeOK
<1>4. PICK out \in Nat, in \in Nat : out = Len(data) /\ in = ReadSoFar
  BY <1>3, ReadKinds DEF ReadSoFar
<1>5. \A n \in Modules : Holds(n)' = Holds(n) BY DEF Holds
<1>6. InHands(out, in)' BY <1>4, <1>5, HandsKept DEF ReadsInTurn, OnItsWay
<1>7. OnItsWay'
  BY <1>4, <1>6 DEF ReadsInTurn, OnItsWay, InHands, ReadSoFar
<1> QED BY <1>2, <1>7

(* A loop that goes on without a message keeps to its one handler. *)
LEMMA LoopRunsOn ==
  ASSUME IsReadLine, NestedTypeOK, ReadsInTurn, NEW m \in Modules,
         NEW state \in LoopStates, GoTo(m, state),
         state \notin {"announce", "newChannel"},
         state # "loop" => init[m],
         UNCHANGED <<made, init, hpc, hin, outc, buf, closed, draining, data>>,
         UNCHANGED driverVars
  PROVE  /\ \A n \in Modules : RunsOne(n)' /\ EndsInTurn(n)'
         /\ NoOthers' /\ OnItsWay'
         /\ \A h \in draining' : h = The(1) /\ hpc'[h] # "idle"
<1>1. /\ pc'[m] = state
      /\ \A n \in Modules : n # m => pc'[n] = pc[n]
  BY ReadKinds DEF GoTo, NestedTypeOK, LineTypeOK
<1>2. \A n \in Modules : RunsOne(n)'
  BY <1>1 DEF ReadsInTurn, RunsOne
<1>3. (\A n \in Modules : EndsInTurn(n)') /\ OnItsWay'
  BY NothingPassed
<1> QED BY <1>2, <1>3 DEF ReadsInTurn, NoOthers

LEMMA LoopReads ==
  ASSUME IsReadLine, NestedTypeOK, ReadsInTurn, NEW m \in Modules, Loop(m),
         UNCHANGED driverVars
  PROVE  ReadsInTurn'
<1> USE DEF streamVars
<1>1. /\ m \in Places /\ m - 1 \in Places /\ m # m - 1 /\ m - 1 # N /\ m # Relay
      /\ made[m] = 1 /\ Mc(m) = The(m) /\ pc[m] # "newChannel"
      /\ pc[m] \notin {"announce", "loop"} => init[m]
      /\ The(m) \in Handlers /\ The(m)[2] = 1 /\ (m - 1) + 1 = m
      /\ hpc[The(m)] # "idle" => init[m]
  BY ReadKinds DEF ReadsInTurn, RunsOne, Mc, The
<1>2. /\ link \in [Places -> Seq(Told)] /\ pc \in [Places -> LoopStates]
      /\ init \in [Modules -> BOOLEAN] /\ made \in [Modules -> 1..MaxStreams]
      /\ hpc \in [Handlers -> HandlerStates]
      /\ hin \in [Handlers -> Streams \cup {NoChannel}]
  BY DEF NestedTypeOK, LineTypeOK
<1>3. \A l \in Places : OneByOne(l) BY DEF ReadsInTurn
<1>4. UNCHANGED <<dpc, sink, hears, giver, dcb, data, driver>>
  BY DEF driverVars
<1>5. Reading' BY <1>4 DEF ReadsInTurn, Reading
<1>6. \A l \in Places : l = N \/ l + 1 \in Modules BY ReadKinds
<1>7. /\ Announced(m) <=> pc[m] # "announce"
      /\ Announced(m)' <=> pc'[m] # "announce"
      /\ Heard(m - 1) <=> init[m]
      /\ Heard(m - 1)' <=> init'[m]
  BY <1>1 DEF Announced, Heard
(* What a step of the loop leaves of the links *)
<1>9. ASSUME NEW state, GoTo(m, state)
      PROVE  /\ pc'[m] = state /\ \A l \in Places : l # m => pc'[l] = pc[l]
             /\ \A l \in Places : l # m => (Announced(l)' <=> Announced(l))
             /\ init' = init => \A l \in Places : Heard(l)' <=> Heard(l)
  <2>1. pc'[m] = state /\ \A l \in Places : l # m => pc'[l] = pc[l]
    BY <1>1, <1>2, <1>9 DEF GoTo
  <2> QED BY <1>4, <2>1 DEF Announced, Heard
<1>10. CASE Announce(m)
  <2>1. /\ pc[m] = "announce" /\ Send(m, Channel(The(m))) /\ GoTo(m, "loop")
        /\ UNCHANGED <<init, made, hpc, hin, outc, buf, draining, closed>>
    BY <1>1, <1>10 DEF Announce
  <2>2. link[m] = <<>> /\ ~Heard(m)
    BY <1>1, <1>3, <1>7, <2>1, RoomIsEmpty DEF Send
  <2>3. Append(<<>>, Channel(The(m))) = <<Channel(The(m))>> OBVIOUS
  <2>4. /\ link'[m] = <<Channel(The(m))>>
        /\ \A l \in Places : l # m => link'[l] = link[l]
    BY <1>1, <1>2, <2>1, <2>2, <2>3 DEF Send
  <2>5. OneByOne(m)'
    BY <1>1, <1>7, <1>9, <2>1, <2>2, <2>4 DEF OneByOne
  <2>6. \A l \in Places : OneByOne(l)'
    BY <1>3, <1>9, <2>1, <2>4, <2>5, LinkKept
  <2>7. "loop" \in LoopStates BY DEF LoopStates
  <2> QED BY <1>4, <1>5, <2>1, <2>6, <2>7, LoopRunsOn DEF ReadsInTurn
<1>11. CASE RecvTerminate(m)
  <2>1. /\ pc[m] = "loop" /\ Receive(m - 1) /\ Head(link[m - 1]) = Terminate
        /\ GoTo(m, "join")
        /\ UNCHANGED <<init, made, hpc, hin, outc, buf, draining>>
    BY <1>11 DEF RecvTerminate
  <2>2. Heard(m - 1) /\ Announced(m - 1) /\ Tail(link[m - 1]) = <<>>
    BY <1>1, <1>3, <2>1, HeadIs DEF Receive, Pending
  <2>3. init[m] /\ closed' = closed
    BY <1>7, <1>11, <2>2 DEF RecvTerminate
  <2>4. /\ link'[m - 1] = <<>>
        /\ \A l \in Places : l # m - 1 => link'[l] = link[l]
    BY <1>1, <1>2, <2>1, <2>2 DEF Receive
  <2>5. \A l \in Places : Announced(l)' <=> Announced(l)
    BY <1>7, <1>9, <2>1
  <2>6. \A l \in Places : Heard(l)' <=> Heard(l) BY <1>9, <2>1
  <2>7. OneByOne(m - 1)' BY <1>1, <2>2, <2>4, <2>5, <2>6 DEF OneByOne
  <2>8. \A l \in Places : OneByOne(l)'
    BY <1>3, <2>4, <2>5, <2>6, <2>7, LinkKept
  <2>9. "join" \in LoopStates BY DEF LoopStates
  <2> QED BY <1>4, <1>5, <2>1, <2>3, <2>8, <2>9, LoopRunsOn DEF ReadsInTurn
<1>12. CASE RecvFirstChannel(m)
  <2>1. /\ pc[m] = "loop" /\ ~init[m] /\ Receive(m - 1)
        /\ Head(link[m - 1]) # Terminate
        /\ init' = [init EXCEPT ![m] = TRUE]
        /\ hpc' = [hpc EXCEPT ![The(m)] = "start"]
        /\ hin' = [hin EXCEPT ![The(m)] = Head(link[m - 1]).mc]
        /\ GoTo(m, AfterSpawn(m))
        /\ UNCHANGED <<made, outc, buf, draining, closed>>
    BY <1>1, <1>12 DEF RecvFirstChannel, Spawn
  <2>2. /\ ~Heard(m - 1) /\ Announced(m - 1) /\ Tail(link[m - 1]) = <<>>
        /\ Head(link[m - 1]).mc = The(m - 1)
    BY <1>1, <1>3, <1>7, <2>1, HeadIs DEF Receive, Pending
  <2>3. /\ link'[m - 1] = <<>>
        /\ \A l \in Places : l # m - 1 => link'[l] = link[l]
    BY <1>1, <1>2, <2>1, <2>2 DEF Receive
  <2>4. /\ init'[m] /\ \A n \in Modules : n # m => init'[n] = init[n]
        /\ hpc'[The(m)] = "start" /\ hin'[The(m)] = The(m - 1)
        /\ \A h \in Handlers : h # The(m) => hpc'[h] = hpc[h] /\ hin'[h] = hin[h]
    BY <1>1, <1>2, <2>1, <2>2
  <2>5. AfterSpawn(m) \in {"join", "loop"} /\ AfterSpawn(m) # "announce"
    BY DEF AfterSpawn
  <2>6. pc'[m] = AfterSpawn(m) /\ \A l \in Places : l # m => pc'[l] = pc[l]
    BY <1>9, <2>1
  <2>7. \A l \in Places : Announced(l)' <=> Announced(l)
    <3>1. pc'[m] # "announce" BY <2>5, <2>6
    <3> QED BY <1>7, <1>9, <2>1, <3>1
  <2>8. \A l \in Places : l # m - 1 => (Heard(l)' <=> Heard(l))
    <3> SUFFICES ASSUME NEW l \in Places, l # m - 1
                 PROVE  Heard(l)' <=> Heard(l)
      OBVIOUS
    <3>1. l = N \/ (l + 1 \in Modules /\ l + 1 # m) BY <1>6, ReadKinds
    <3> QED BY <1>4, <2>4, <3>1 DEF Heard
  <2>9. OneByOne(m - 1)'
    BY <1>1, <1>7, <2>2, <2>3, <2>4, <2>7 DEF OneByOne
  <2>10. \A l \in Places : OneByOne(l)'
    BY <1>3, <2>3, <2>7, <2>8, <2>9, LinkKept
  <2>11. ASSUME NEW n \in Modules PROVE RunsOne(n)'
    <3>1. RunsOne(n) /\ n \in Places BY ReadKinds DEF ReadsInTurn
    <3>2. CASE n = m
      BY <1>1, <2>1, <2>4, <2>5, <2>6, <3>1, <3>2 DEF RunsOne
    <3>3. CASE n # m
      <4>1. The(n) # The(m) /\ The(n) \in Handlers BY <3>3, ReadKinds
      <4> QED BY <2>1, <2>4, <2>6, <3>1, <3>3, <4>1 DEF RunsOne
    <3> QED BY <3>2, <3>3
  <2>12. ASSUME NEW n \in Modules
         PROVE  \/ hpc'[The(n)] = hpc[The(n)]
                \/ hpc[The(n)] = "idle" /\ hpc'[The(n)] = "start"
    <3>1. The(n) \in Handlers BY ReadKinds
    <3> QED BY <1>1, <2>1, <2>4, <3>1
  <2>13. (\A n \in Modules : EndsInTurn(n)') /\ OnItsWay'
    BY <1>4, <2>1, <2>12, NothingPassed
  <2>14. NoOthers' BY <1>1, <2>4 DEF ReadsInTurn, NoOthers
  <2>15. \A h \in draining' : h = The(1) /\ hpc'[h] # "idle"
    BY <1>1, <2>1, <2>4, ReadKinds DEF ReadsInTurn
  <2> QED BY <1>4, <1>5, <2>1, <2>10, <2>11, <2>13, <2>14, <2>15
          DEF ReadsInTurn
<1>13. ~RecvNextChannel(m)
  <2> SUFFICES ASSUME RecvNextChannel(m) PROVE FALSE
    OBVIOUS
  <2>1. /\ init[m] /\ Receive(m - 1) /\ Head(link[m - 1]) # Terminate
    BY DEF RecvNextChannel
  <2> QED BY <1>1, <1>3, <1>7, <2>1, HeadIs DEF Receive, Pending
<1>14. ~AnnounceNext(m) BY <1>1 DEF AnnounceNext
<1>15. ~Cancelled(m) BY ReadKinds DEF Cancelled
<1>16. CASE Join(m, "join", "terminate") \/ Join(m, "drain", "last")
            \/ CloseOut(m, "done")
  <2>1. PICK state \in {"terminate", "last", "done"} : GoTo(m, state)
    BY <1>16 DEF Join, CloseOut
  <2>2. /\ pc[m] \notin {"announce", "loop"}
        /\ UNCHANGED <<link, init, made, hpc, hin, outc, buf, draining, closed>>
    BY <1>16 DEF Join, CloseOut, linkVars
  <2>3. \A l \in Places : Announced(l)' <=> Announced(l)
    BY <1>7, <1>9, <2>1, <2>2
  <2>4. \A l \in Places : OneByOne(l)'
    BY <1>3, <1>9, <2>1, <2>2, <2>3, LinkKept
  <2>5. state \in LoopStates BY DEF LoopStates
  <2>6. init[m] BY <1>1, <2>2
  <2> QED BY <1>4, <1>5, <2>1, <2>2, <2>4, <2>5, <2>6, LoopRunsOn DEF ReadsInTurn
<1>17. CASE SendTerminate(m, "drain")
  <2>1. /\ pc[m] = "terminate" /\ Send(m, Terminate) /\ GoTo(m, "drain")
        /\ UNCHANGED <<init, made, hpc, hin, outc, buf, draining, closed>>
    BY <1>17 DEF SendTerminate
  <2>2. link[m] = <<>> /\ Heard(m)
    BY <1>1, <1>3, <1>7, <2>1, RoomIsEmpty DEF Send
  <2>3. Append(<<>>, Terminate) = <<Terminate>> OBVIOUS
  <2>4. /\ link'[m] = <<Terminate>>
        /\ \A l \in Places : l # m => link'[l] = link[l]
    BY <1>1, <1>2, <2>1, <2>2, <2>3 DEF Send
  <2>5. OneByOne(m)'
    BY <1>1, <1>7, <1>9, <2>1, <2>2, <2>4 DEF OneByOne
  <2>6. \A l \in Places : OneByOne(l)'
    BY <1>3, <1>9, <2>1, <2>4, <2>5, LinkKept
  <2>7. "drain" \in LoopStates /\ init[m] BY <1>1, <2>1 DEF LoopStates
  <2> QED BY <1>4, <1>5, <2>1, <2>6, <2>7, LoopRunsOn DEF ReadsInTurn
<1>18. CASE Last(m, m - 1)
  <2>1. /\ pc[m] = "last" /\ (Receive(m - 1) \/ link' = link)
        /\ GoTo(m, "close")
        /\ UNCHANGED <<init, made, hpc, hin, outc, buf, draining, closed>>
    BY <1>18 DEF Last
  <2>2. init[m] /\ Heard(m - 1) BY <1>1, <1>7, <2>1
  <2>3. \A l \in Places : Announced(l)' <=> Announced(l) BY <1>7, <1>9, <2>1
  <2>4. \A l \in Places : Heard(l)' <=> Heard(l) BY <1>9, <2>1
  <2>5. \A l \in Places : OneByOne(l)'
    <3>1. CASE link' = link BY <1>3, <2>3, <2>4, <3>1, LinkKept
    <3>2. CASE Receive(m - 1)
      <4>1. Announced(m - 1) /\ Tail(link[m - 1]) = <<>>
        BY <1>1, <1>3, <3>2, HeadIs DEF Receive, Pending
      <4>2. /\ link'[m - 1] = <<>>
            /\ \A l \in Places : l # m - 1 => link'[l] = link[l]
        BY <1>1, <1>2, <3>2, <4>1 DEF Receive
      <4>3. OneByOne(m - 1)' BY <1>1, <2>2, <2>3, <2>4, <4>1, <4>2 DEF OneByOne
      <4> QED BY <1>3, <2>3, <2>4, <4>2, <4>3, LinkKept
    <3> QED BY <2>1, <3>1, <3>2
  <2>6. "close" \in LoopStates BY DEF LoopStates
  <2> QED BY <1>4, <1>5, <2>1, <2>2, <2>5, <2>6, LoopRunsOn DEF ReadsInTurn
<1> QED BY <1>10, <1>11, <1>12, <1>13, <1>14, <1>15, <1>16, <1>17, <1>18 DEF Loop

(* A step of one handler that passes nothing on *)
LEMMA HandlerMoves ==
  ASSUME IsReadLine, NestedTypeOK, ReadsInTurn, NEW m \in Modules,
         NEW state \in ReadStates(m) \ {"idle", "send"},
         Step(The(m), state), UNCHANGED <<buf, data>>,
         hpc[The(m)] \notin {"idle", "send"},
         \A n \in Modules : n # m => outc'[The(n)] = outc[The(n)],
         state \in {"start", "cb"} \/ outc'[The(m)] = The(m), OwnOutc(The(m))',
         closed' \subseteq closed \cup {The(m)}, closed \subseteq closed',
         The(m) \in closed' => state \in {"drain", "finish", "done"},
         hpc[The(m)] \in {"drain", "finish", "done"} =>
           state \in {"drain", "finish", "done"},
         state \in {"close", "finish", "done"} =>
           \A n \in 1..(m - 1) : hpc[The(n)] \in {"drain", "finish", "done"}
  PROVE  /\ \A n \in Modules : EndsInTurn(n)'
         /\ NoOthers' /\ OnItsWay'
<1>1. /\ \A n \in Modules : EndsInTurn(n)
      /\ \A n \in Modules : n # m => The(n) # The(m)
      /\ \A n \in Modules : The(n) \in Handlers /\ n \in Nat
      /\ \A n \in Modules : \A k \in 1..(n - 1) : k \in Modules
  BY ReadKinds DEF ReadsInTurn
<1>2. /\ hpc'[The(m)] = state
      /\ \A h \in Handlers : h # The(m) => hpc'[h] = hpc[h]
  BY <1>1 DEF Step, NestedTypeOK, LineTypeOK
<1>3. \A n \in Modules : hpc[The(n)] \in {"drain", "finish", "done"} =>
        hpc'[The(n)] \in {"drain", "finish", "done"}
  BY <1>1, <1>2
<1>4. ASSUME NEW n \in Modules PROVE EndsInTurn(n)'
  <2>1. ReadStates(n)' = ReadStates(n) BY DEF ReadStates
  <2>2. CASE n = m
    <3>1. \A k \in 1..(n - 1) : hpc[The(k)] \in {"drain", "finish", "done"}
            => hpc'[The(k)] \in {"drain", "finish", "done"}
      BY <1>1, <1>3
    <3> QED BY <1>2, <2>1, <2>2, <3>1 DEF EndsInTurn
  <2>3. CASE n # m
    <3>1. hpc'[The(n)] = hpc[The(n)] BY <1>1, <1>2, <2>3
    <3>2. \A k \in 1..(n - 1) : hpc[The(k)] \in {"drain", "finish", "done"}
            => hpc'[The(k)] \in {"drain", "finish", "done"}
      BY <1>1, <1>3
    <3>3. The(n) \in closed' => The(n) \in closed BY <1>1, <2>3
    <3> QED BY <1>1, <2>1, <2>3, <3>1, <3>2, <3>3 DEF EndsInTurn, OwnOutc
  <2> QED BY <2>2, <2>3
<1>5. NoOthers'
  <2>1. The(m)[2] = 1 BY ReadKinds
  <2> QED BY <1>2, <2>1 DEF ReadsInTurn, NoOthers
<1>6. data \in Seq(0..Own) /\ \A n \in Modules : buf[The(n)] \in 0..Own /\ 0..Own \subseteq Nat
  BY <1>1 DEF NestedTypeOK, LineTypeOK
<1>7. PICK out \in Nat, in \in Nat : out = Len(data) /\ in = ReadSoFar
  BY <1>6, ReadKinds DEF ReadSoFar
<1>8. \A n \in Modules : Holds(n)' = Holds(n)
  <2> SUFFICES ASSUME NEW n \in Modules PROVE Holds(n)' = Holds(n)
    OBVIOUS
  <2>1. CASE n = m
    <3>1. hpc[The(n)] # "send" /\ hpc'[The(n)] # "send" BY <1>2, <2>1
    <3> QED BY <3>1 DEF Holds
  <2>2. CASE n # m
    <3>1. hpc'[The(n)] = hpc[The(n)] BY <1>1, <1>2, <2>2
    <3> QED BY <3>1 DEF Holds
  <2> QED BY <2>1, <2>2
<1>9. InHands(out, in)' BY <1>7, <1>8, HandsKept DEF ReadsInTurn, OnItsWay
<1>10. OnItsWay'
  BY <1>7, <1>9 DEF ReadsInTurn, OnItsWay, InHands, ReadSoFar
<1> QED BY <1>4, <1>5, <1>10

(* What a handler hands on goes one module down the line. *)
LEMMA ReadPassesOn ==
  ASSUME IsReadLine, NestedTypeOK, ReadsInTurn,
         NEW g \in Handlers, NEW h \in Handlers, Transfer(g, h)
  PROVE  \E m \in Modules :
           /\ m # 1 /\ m - 1 \in Modules /\ h = The(m) /\ g = The(m - 1)
           /\ hpc[g] = "send" /\ hpc[h] = "recv"
           /\ hpc'[g] = (IF m = 2 THEN "source" ELSE "recv")
           /\ hpc'[h] = "send" /\ buf'[h] = buf[g]
           /\ m = 2 => buf'[g] = buf[g]
           /\ \A f \in Handlers \ {g, h} : hpc'[f] = hpc[f] /\ buf'[f] = buf[f]
           /\ UNCHANGED <<outc, closed, draining>>
<1>1. hpc[g] = "send" /\ Receiving(h) /\ Out(g) = hin[h]
  BY DEF Transfer
<1>2. PICK k \in Modules : g = The(k)
  BY <1>1, WhoRuns DEF ReadsInTurn
<1>3. hpc[h] # "idle"
  BY <1>1 DEF Receiving, ReadsInTurn
<1>4. PICK m \in Modules : h = The(m) BY <1>3, WhoRuns DEF ReadsInTurn
<1>5. Out(g) = g
  <2>1. outc[g] = g BY <1>1, <1>2 DEF ReadsInTurn, EndsInTurn, OwnOutc
  <2> QED BY <1>2, <2>1, ReadKinds DEF Out, KindOf
<1>6. hin[h] = The(m - 1) BY <1>3, <1>4 DEF ReadsInTurn, RunsOne
<1>7. k = m - 1 /\ m # 1 /\ m - 1 \in Modules /\ (m = 2 <=> k = 1) /\ k # m
  BY <1>1, <1>2, <1>5, <1>6, ReadKinds
<1>8. hpc[h] = "recv"
  <2>1. h \notin draining
    <3>1. h # The(1) BY <1>4, <1>7, ReadKinds
    <3> QED BY <3>1 DEF ReadsInTurn
  <2>2. hpc[h] \in ReadStates(m) BY <1>4 DEF ReadsInTurn, EndsInTurn
  <2>3. ReadStates(m) \cap {"drain", "select"} = {} BY <1>7 DEF ReadStates
  <2> QED BY <1>1, <2>1, <2>2, <2>3 DEF Receiving
<1> DEFINE back == IF m = 2 THEN "source" ELSE "recv"
<1>9. /\ KindOf(h).take = {"send"} /\ g # h
      /\ KindOf(g).sent = {back}
  BY <1>2, <1>4, <1>7, ReadKinds DEF KindOf
<1>10. /\ hpc' = [hpc EXCEPT ![h] = "send", ![g] = back]
       /\ buf' = [buf EXCEPT ![h] = buf[g], ![g] = Sent(g, back)]
  BY <1>8, <1>9 DEF Transfer, AfterRecv
<1>11. /\ hpc'[g] = back /\ hpc'[h] = "send" /\ buf'[h] = buf[g]
       /\ buf'[g] = Sent(g, back)
       /\ \A f \in Handlers \ {g, h} : hpc'[f] = hpc[f] /\ buf'[f] = buf[f]
  BY <1>9, <1>10 DEF NestedTypeOK, LineTypeOK
<1>12. m = 2 => Sent(g, back) = buf[g] BY DEF Sent
<1>13. UNCHANGED <<outc, closed, draining>> BY DEF Transfer
<1> QED BY <1>1, <1>2, <1>4, <1>7, <1>8, <1>9, <1>11, <1>12, <1>13

LEMMA ReadTransferKeeps ==
  ASSUME IsReadLine, NestedTypeOK, ReadsInTurn, data' = data,
         NEW g \in Handlers, NEW h \in Handlers, Transfer(g, h)
  PROVE  /\ \A n \in Modules : EndsInTurn(n)'
         /\ NoOthers' /\ OnItsWay'
         /\ \A n \in Modules : hpc'[The(n)] # "idle" => hpc[The(n)] # "idle"
         /\ \A f \in draining' : f = The(1) /\ hpc'[f] # "idle"
<1>1. PICK m \in Modules :
           /\ m # 1 /\ m - 1 \in Modules /\ h = The(m) /\ g = The(m - 1)
           /\ hpc[g] = "send" /\ hpc[h] = "recv"
           /\ hpc'[g] = (IF m = 2 THEN "source" ELSE "recv")
           /\ hpc'[h] = "send" /\ buf'[h] = buf[g]
           /\ m = 2 => buf'[g] = buf[g]
           /\ \A f \in Handlers \ {g, h} : hpc'[f] = hpc[f] /\ buf'[f] = buf[f]
           /\ UNCHANGED <<outc, closed, draining>>
  BY ReadPassesOn
<1>2. /\ \A n \in Modules : The(n) \in Handlers /\ n \in Nat /\ n >= 1
      /\ \A n \in Modules : n # m => The(n) # h
      /\ \A n \in Modules : n # m - 1 => The(n) # g
      /\ \A n \in Modules : \A k \in 1..(n - 1) : k \in Modules
      /\ g[2] = 1 /\ h[2] = 1 /\ 1 \in Modules
  <2>1. /\ \A n \in Modules : The(n) \in Handlers /\ n \in Nat /\ n >= 1
        /\ \A n \in Modules : \A k \in 1..(n - 1) : k \in Modules
        /\ 1 \in Modules
    BY ReadKinds
  <2>2. /\ \A n \in Modules : The(n)[1] = n /\ The(n)[2] = 1
    BY ReadKinds
  <2> QED BY <1>1, <2>1, <2>2
<1>3. \A n \in Modules \ {m - 1, m} :
        hpc'[The(n)] = hpc[The(n)] /\ buf'[The(n)] = buf[The(n)]
  BY <1>1, <1>2
<1>4. \A n \in Modules : hpc[The(n)] \in {"drain", "finish", "done"} =>
        hpc'[The(n)] \in {"drain", "finish", "done"}
  BY <1>1, <1>3
<1>5. ASSUME NEW n \in Modules PROVE EndsInTurn(n)'
  <2>1. EndsInTurn(n) BY DEF ReadsInTurn
  <2>2. ReadStates(n)' = ReadStates(n) BY DEF ReadStates
  <2>3. \A k \in 1..(n - 1) : hpc[The(k)] \in {"drain", "finish", "done"}
          => hpc'[The(k)] \in {"drain", "finish", "done"}
    BY <1>2, <1>4
  <2>4. CASE n = m
    <3>1. "send" \in ReadStates(n) BY DEF ReadStates
    <3> QED BY <1>1, <2>1, <2>2, <2>4, <3>1 DEF EndsInTurn, OwnOutc
  <2>5. CASE n = m - 1
    <3>1. hpc'[The(n)] \in ReadStates(n) BY <1>1, <1>2, <2>5 DEF ReadStates
    <3> QED BY <1>1, <2>1, <2>2, <2>5, <3>1 DEF EndsInTurn, OwnOutc
  <2>6. CASE n \notin {m - 1, m}
    BY <1>1, <1>3, <2>1, <2>2, <2>3, <2>6 DEF EndsInTurn, OwnOutc
  <2> QED BY <2>4, <2>5, <2>6
<1>6. NoOthers' BY <1>1, <1>2 DEF ReadsInTurn, NoOthers
<1>7. Len(data) \in Nat /\ ReadSoFar \in Nat
  BY <1>2 DEF NestedTypeOK, LineTypeOK, ReadSoFar
<1>8. PICK out \in Nat, in \in Nat : out = Len(data) /\ in = ReadSoFar
  BY <1>7
<1>9. /\ Holds(m - 1) /\ ~Holds(m) /\ ~Holds(m - 1)' /\ Holds(m)'
      /\ buf'[The(m)] = buf[The(m - 1)]
  BY <1>1 DEF Holds
<1>10. \A n \in Modules \ {m - 1, m} : Holds(n)' = Holds(n) /\ buf'[The(n)] = buf[The(n)]
  BY <1>3 DEF Holds
<1>11. InHands(out, in)'
  BY <1>1, <1>8, <1>9, <1>10, HandsMoved DEF ReadsInTurn, OnItsWay
<1>12. ReadSoFar' = ReadSoFar
  <2>1. 1 = m - 1 \/ 1 \notin {m - 1, m} BY <1>1
  <2>2. 1 = m - 1 => m = 2 BY <1>2
  <2> QED BY <1>1, <1>2, <1>3, <2>1, <2>2 DEF ReadSoFar
<1>13. OnItsWay'
  BY <1>8, <1>11, <1>12 DEF ReadsInTurn, OnItsWay, InHands
<1>14. \A n \in Modules : hpc'[The(n)] # "idle" => hpc[The(n)] # "idle"
  BY <1>1, <1>3
<1>15. \A f \in draining' : f = The(1) /\ hpc'[f] # "idle"
  <2>1. The(1) # h BY <1>1, <1>2
  <2>2. hpc'[The(1)] = "idle" => hpc[The(1)] = "idle" BY <1>1, <1>2, <1>3, <2>1
  <2> QED BY <1>1, <2>2 DEF ReadsInTurn
<1> QED BY <1>5, <1>6, <1>13, <1>14, <1>15

LEMMA HandlerReads ==
  ASSUME IsReadLine, NestedTypeOK, ReadsInTurn, NEW h \in Handlers, Handler(h),
         UNCHANGED driverVars
  PROVE  ReadsInTurn'
<1> USE DEF linkVars, loopVars, streamVars
<1>1. UNCHANGED <<link, pc, init, made, hin>>
  BY DEF Handler, Start, Callback, Transfer, SendClosed, ReadFrom, ReadFromEnd,
         InputClosed, Drained, CloseOutc, Done, Lock, ReadDatac, DatacClosed
<1>2. UNCHANGED <<dpc, sink, hears, giver, dcb, data, driver>>
  BY DEF driverVars
<1>3. Reading' /\ \A l \in Places : OneByOne(l)'
  BY <1>1, <1>2 DEF ReadsInTurn, Reading, OneByOne, Announced, Heard
(* What is left to show of each step *)
<1> DEFINE Goal ==
      /\ \A n \in Modules : EndsInTurn(n)'
      /\ NoOthers' /\ OnItsWay' /\ closed \subseteq closed'
      /\ \A n \in Modules : hpc'[The(n)] # "idle" => hpc[The(n)] # "idle"
      /\ \A f \in draining' : f = The(1) /\ hpc'[f] # "idle"
<1>4. Goal => ReadsInTurn'
  <2> SUFFICES ASSUME Goal PROVE ReadsInTurn'
    OBVIOUS
  <2>1. \A n \in Modules : RunsOne(n)' BY <1>1 DEF ReadsInTurn, RunsOne
  <2>2. sink' = "done" => The(N) \in closed' BY <1>2 DEF ReadsInTurn
  <2> QED BY <1>3, <2>1, <2>2 DEF ReadsInTurn
<1>5. /\ hpc \in [Handlers -> HandlerStates] /\ outc \in [Handlers -> Handlers \cup {NoChannel}]
      /\ buf \in [Handlers -> 0..Own] /\ 0..Own \subseteq Nat
      /\ data \in Seq(0..Own)
  BY DEF NestedTypeOK, LineTypeOK
<1>6. \A n \in Modules : EndsInTurn(n) /\ RunsOne(n) BY DEF ReadsInTurn
<1>7. ASSUME NEW g \in Handlers, Transfer(g, h) PROVE Goal
  <2>1. closed \subseteq closed' BY <1>7 DEF Transfer
  <2> QED BY <1>2, <1>7, <2>1, ReadTransferKeeps
<1>8. CASE SendClosed(h)
  <2>1. UNCHANGED <<hpc, buf, outc, closed, draining>> BY <1>8 DEF SendClosed
  <2>2. (\A n \in Modules : EndsInTurn(n)') /\ OnItsWay'
    BY <1>2, <2>1, NothingPassed
  <2>3. NoOthers' BY <2>1 DEF ReadsInTurn, NoOthers
  <2>4. \A f \in draining' : f = The(1) /\ hpc'[f] # "idle"
    BY <2>1 DEF ReadsInTurn
  <2> QED BY <1>4, <2>1, <2>2, <2>3, <2>4
<1>9. CASE Drained(h)
  <2>1. UNCHANGED <<hpc, buf, outc, closed>> /\ draining' \subseteq draining
    BY <1>9 DEF Drained
  <2>2. (\A n \in Modules : EndsInTurn(n)') /\ OnItsWay'
    BY <1>2, <2>1, NothingPassed
  <2>3. NoOthers' BY <2>1 DEF ReadsInTurn, NoOthers
  <2>4. \A f \in draining' : f = The(1) /\ hpc'[f] # "idle"
    BY <2>1 DEF ReadsInTurn
  <2> QED BY <1>4, <2>1, <2>2, <2>3, <2>4
<1>10. ~Lock(h) /\ ~ReadDatac(h) /\ ~DatacClosed(h)
  <2> SUFFICES ASSUME hpc[h] \in {"lock", "select"} PROVE FALSE
    BY DEF Lock, ReadDatac, DatacClosed
  <2>1. h = The(h[1]) /\ h[1] \in Modules BY WhoRuns DEF ReadsInTurn
  <2> QED BY <1>6, <2>1 DEF EndsInTurn, ReadStates
(* The other steps are one handler's own. *)
<1>11. ASSUME ~\E g \in Handlers : Transfer(g, h), ~SendClosed(h), ~Drained(h)
       PROVE  Goal
  <2>1. hpc[h] # "idle"
    BY <1>10, <1>11 DEF Handler, Start, Callback, ReadFrom, ReadFromEnd, InputClosed,
                 CloseOutc, Done
  <2>2. PICK m \in Modules : h = The(m) BY <2>1, WhoRuns DEF ReadsInTurn
  <2>3. /\ \A n \in Modules : The(n) \in Handlers
        /\ \A n \in Modules : n # m => The(n) # h
        /\ \A n \in 1..(m - 1) : n \in Modules /\ n < m
        /\ KindOf(h) = Kind[m] /\ 1 \in Modules /\ m \in Nat /\ h[1] = m
    BY <2>2, ReadKinds DEF KindOf
  <2>4. McSeen(h) = h
    BY <1>6, <2>2, <2>3 DEF McSeen, Mc, RunsOne, The
  <2>5. Out(h) = outc[h] BY <2>2, <2>3, ReadKinds DEF Out
  <2>6. EndsInTurn(m) BY <1>6
  <2>7. \A state : Step(h, state) =>
          \A f \in Handlers : f # h => hpc'[f] = hpc[f]
    BY <1>5 DEF Step
  (* A step that passes nothing on *)
  <2>8. ASSUME NEW state \in ReadStates(m) \ {"idle", "send"}, Step(h, state),
               UNCHANGED <<buf, draining>>, hpc[h] # "send",
               outc' = outc, closed' \subseteq closed \cup {h}, closed \subseteq closed',
               state \in {"start", "cb"} \/ outc[h] = h,
               h \in closed' => state \in {"drain", "finish", "done"},
               hpc[h] \in {"drain", "finish", "done"} =>
                 state \in {"drain", "finish", "done"},
               state \in {"close", "finish", "done"} =>
                 \A n \in 1..(m - 1) : hpc[The(n)] \in {"drain", "finish", "done"}
        PROVE  Goal
    <3>1. (\A n \in Modules : EndsInTurn(n)') /\ NoOthers' /\ OnItsWay'
      <4>1. OwnOutc(h)' BY <1>5, <2>2, <2>6, <2>8 DEF EndsInTurn, OwnOutc, Step
      <4> QED BY <1>2, <2>1, <2>2, <2>8, <4>1, HandlerMoves
    <3>2. hpc'[h] # "idle" BY <1>5, <2>8 DEF Step
    <3>3. \A n \in Modules : hpc'[The(n)] # "idle" => hpc[The(n)] # "idle"
      BY <2>1, <2>2, <2>3, <2>7, <2>8
    <3>4. \A f \in draining' : f = The(1) /\ hpc'[f] # "idle"
      BY <2>3, <2>7, <2>8, <3>2 DEF ReadsInTurn
    <3> QED BY <2>8, <3>1, <3>3, <3>4
  <2>9. CASE Start(h)
    <3>1. "cb" \in ReadStates(m) BY DEF ReadStates
    <3>2. h \notin closed BY <2>2, <2>6, <2>9 DEF Start, EndsInTurn
    <3>3. ~KindOf(h).early BY <2>3, ReadKinds
    <3> QED BY <2>8, <2>9, <3>1, <3>2, <3>3 DEF Start
  <2>10. CASE Callback(h)
    <3>1. PICK next \in KindOf(h).enter :
            /\ Step(h, next)
            /\ buf' = [buf EXCEPT ![h] = IF next = "send" THEN Own ELSE @]
            /\ draining' = Aside(h, next)
      BY <2>10 DEF Callback
    <3>2. /\ hpc[h] = "cb" /\ closed' = closed
          /\ outc' = [outc EXCEPT ![h] = h] \/ (outc' = outc /\ outc[h] = h)
      BY <2>2, <2>4, <2>6, <2>10 DEF Callback, Bound, EndsInTurn, OwnOutc
    <3>3. /\ next \in ReadStates(m) \ {"idle", "send", "start", "cb", "close", "finish", "done"}
      BY <2>2, <2>3, <3>1, ReadKinds DEF ReadStates
    <3>4. buf' = buf BY <1>5, <3>1, <3>3
    <3>5. h \notin closed' BY <2>2, <2>6, <3>2 DEF EndsInTurn
    <3>6. /\ outc'[h] = h /\ OwnOutc(h)'
          /\ \A n \in Modules : n # m => outc'[The(n)] = outc[The(n)]
      BY <1>5, <2>3, <3>2 DEF OwnOutc
    <3>7. (\A n \in Modules : EndsInTurn(n)') /\ NoOthers' /\ OnItsWay'
      BY <1>2, <2>2, <3>1, <3>2, <3>3, <3>4, <3>5, <3>6, HandlerMoves
    <3>8. hpc'[h] # "idle" BY <1>5, <3>1, <3>3 DEF Step
    <3>9. \A n \in Modules : hpc'[The(n)] # "idle" => hpc[The(n)] # "idle"
      BY <2>1, <2>2, <2>3, <2>7, <3>1
    <3>10. \A f \in draining' : f \in draining \/ (f = h /\ m = 1)
      BY <2>2, <2>3, <3>1, ReadKinds DEF Aside
    <3>11. \A f \in draining' : f = The(1) /\ hpc'[f] # "idle"
      BY <2>2, <2>3, <2>7, <3>1, <3>8, <3>10 DEF ReadsInTurn
    <3> QED BY <3>2, <3>7, <3>9, <3>11
  <2>11. CASE ReadFrom(h)
    <3>1. /\ hpc[h] = "source" /\ Step(h, "send")
          /\ buf' = [buf EXCEPT ![h] = @ + 1]
          /\ UNCHANGED <<outc, closed, draining>>
      BY <2>11 DEF ReadFrom
    <3>2. m = 1 BY <2>2, <2>6, <3>1 DEF EndsInTurn, ReadStates
    <3>3. /\ hpc'[h] = "send" /\ buf'[h] = buf[h] + 1
          /\ \A f \in Handlers : f # h => hpc'[f] = hpc[f] /\ buf'[f] = buf[f]
      BY <1>5, <3>1 DEF Step
    <3>4. ASSUME NEW n \in Modules PROVE EndsInTurn(n)'
      <4>1. EndsInTurn(n) BY <1>6
      <4>2. \A k \in 1..(n - 1) : hpc[The(k)] \in {"drain", "finish", "done"}
              => hpc'[The(k)] \in {"drain", "finish", "done"}
        <5>1. \A k \in 1..(n - 1) : The(k) \in Handlers BY ReadKinds
        <5> QED BY <3>1, <3>3, <5>1
      <4>3. ReadStates(n)' = ReadStates(n) /\ "send" \in ReadStates(n)
        BY DEF ReadStates
      <4>4. CASE n = m BY <2>2, <3>1, <3>3, <4>1, <4>3, <4>4 DEF EndsInTurn, OwnOutc
      <4>5. CASE n # m
        BY <2>3, <3>1, <3>3, <4>1, <4>2, <4>3, <4>5 DEF EndsInTurn, OwnOutc
      <4> QED BY <4>4, <4>5
    <3>5. NoOthers'
      <4>1. h[2] = 1 BY <2>2, ReadKinds
      <4> QED BY <3>3, <4>1 DEF ReadsInTurn, NoOthers
    <3>6. Len(data) \in Nat /\ ReadSoFar \in Nat
      BY <1>5, <2>3 DEF ReadSoFar
    <3>7. PICK out \in Nat, in \in Nat : out = Len(data) /\ in = ReadSoFar
      BY <3>6
    <3>8. Holds(1)' /\ ~Holds(1) /\ buf'[The(1)] = in + 1
      BY <2>2, <3>1, <3>2, <3>3, <3>7 DEF Holds, ReadSoFar
    <3>9. \A n \in Modules \ {1} : Holds(n)' = Holds(n) /\ buf'[The(n)] = buf[The(n)]
      BY <2>3, <3>2, <3>3 DEF Holds
    <3>10. InHands(out, in + 1)'
      BY <2>3, <3>7, <3>8, <3>9, HandsFilled DEF ReadsInTurn, OnItsWay
    <3>11. OnItsWay'
      BY <1>2, <3>7, <3>8, <3>10 DEF ReadsInTurn, OnItsWay, InHands, ReadSoFar
    <3>12. \A n \in Modules : hpc'[The(n)] # "idle" => hpc[The(n)] # "idle"
      BY <2>1, <2>2, <2>3, <3>3
    <3>13. \A f \in draining' : f = The(1) /\ hpc'[f] # "idle"
      BY <2>2, <3>1, <3>2, <3>3 DEF ReadsInTurn
    <3> QED BY <3>1, <3>4, <3>5, <3>11, <3>12, <3>13
  <2>12. CASE ReadFromEnd(h)
    <3>1. /\ hpc[h] = "source" /\ Step(h, "close")
          /\ UNCHANGED <<buf, outc, closed, draining>>
      BY <2>12 DEF ReadFromEnd
    <3>2. m = 1 BY <2>2, <2>6, <3>1 DEF EndsInTurn, ReadStates
    <3>3. outc[h] = h /\ h \notin closed BY <2>2, <2>6, <3>1 DEF EndsInTurn, OwnOutc
    <3>4. "close" \in ReadStates(m) /\ 1..(m - 1) = {} BY <3>2 DEF ReadStates
    <3> QED BY <2>8, <3>1, <3>3, <3>4
  <2>13. CASE InputClosed(h)
    <3>1. PICK next \in AfterInput(h) :
          /\ hpc[h] \in {"recv", "drain", "select"} /\ hin[h] \in closed
          /\ Step(h, next)
          /\ buf' = [buf EXCEPT ![h] = IF next = "send" THEN Own ELSE @]
          /\ UNCHANGED <<outc, closed, draining>>
      BY <2>13 DEF InputClosed
    <3>2. outc[h] = h BY <2>2, <2>6, <3>1 DEF EndsInTurn, OwnOutc
    <3>3. CASE m = 1
      <4>1. hpc[h] = "drain" BY <2>2, <2>6, <3>1, <3>3 DEF EndsInTurn, ReadStates
      <4>2. next = "finish" BY <4>1 DEF AfterInput
      <4>3. buf' = buf BY <1>5, <3>1, <4>2
      <4>4. "finish" \in ReadStates(m) /\ 1..(m - 1) = {} BY <3>3 DEF ReadStates
      <4> QED BY <2>8, <3>1, <3>2, <4>1, <4>2, <4>3, <4>4
    <3>4. CASE m # 1
      <4>1. hpc[h] = "recv" BY <2>2, <2>6, <3>1, <3>4 DEF EndsInTurn, ReadStates
      <4>2. next = "close"
        BY <2>3, <4>1, ReadKinds DEF AfterInput
      <4>3. buf' = buf BY <1>5, <3>1, <4>2
      <4>4. "close" \in ReadStates(m) BY DEF ReadStates
      <4>5. h \notin closed BY <2>2, <2>6, <4>1 DEF EndsInTurn
      <4>6. The(m - 1) \in closed /\ m - 1 \in Modules
        <5>1. m - 1 \in 1..(m - 1) BY <2>3, <3>4, ReadKinds
        <5>2. hin[h] = The(m - 1) BY <1>6, <2>1, <2>2 DEF RunsOne
        <5> QED BY <2>3, <3>1, <5>1, <5>2
      <4>7. hpc[The(m - 1)] \in {"drain", "finish", "done"}
        BY <1>6, <4>6 DEF EndsInTurn
      <4>8. ASSUME NEW n \in 1..(m - 1)
            PROVE  hpc[The(n)] \in {"drain", "finish", "done"}
        <5>1. CASE n = m - 1 BY <4>7, <5>1
        <5>2. CASE n # m - 1
          <6>1. n \in 1..((m - 1) - 1) /\ m - 1 # 1
            BY <2>3, <4>6, <5>2, ReadKinds
          <6>2. hpc[The(m - 1)] \in {"finish", "done"}
            BY <1>6, <4>6, <4>7, <6>1 DEF EndsInTurn, ReadStates
          <6> QED BY <1>6, <4>6, <6>1, <6>2 DEF EndsInTurn
        <5> QED BY <5>1, <5>2
      <4> QED BY <2>8, <3>1, <3>2, <4>1, <4>2, <4>3, <4>4, <4>5, <4>8
    <3> QED BY <3>3, <3>4
  <2>14. CASE CloseOutc(h)
    <3>1. /\ hpc[h] \in {"close", "fail"} /\ CloseChannel(Out(h))
          /\ Step(h, AfterClose(h))
          /\ UNCHANGED <<buf, outc, draining>>
      BY <2>14 DEF CloseOutc
    <3>2. outc[h] = h BY <2>2, <2>6, <3>1 DEF EndsInTurn, OwnOutc
    <3>3. closed' \subseteq closed \cup {h} /\ closed \subseteq closed'
      BY <2>5, <3>1, <3>2 DEF CloseChannel
    <3>4. AfterClose(h) = IF hpc[h] = "fail" THEN "drain" ELSE "finish"
      BY <2>3, ReadKinds DEF AfterClose
    <3>5. CASE hpc[h] = "fail"
      <4>1. m = 1 BY <2>2, <2>6, <3>5 DEF EndsInTurn, ReadStates
      <4>2. "drain" \in ReadStates(m) BY <4>1 DEF ReadStates
      <4> QED BY <2>8, <3>1, <3>2, <3>3, <3>4, <3>5, <4>2
    <3>6. CASE hpc[h] # "fail"
      <4>1. "finish" \in ReadStates(m) BY DEF ReadStates
      <4>2. \A n \in 1..(m - 1) : hpc[The(n)] \in {"drain", "finish", "done"}
        BY <2>2, <2>6, <3>1, <3>6 DEF EndsInTurn
      <4> QED BY <2>8, <3>1, <3>2, <3>3, <3>4, <3>6, <4>1, <4>2
    <3> QED BY <3>5, <3>6
  <2>15. CASE Done(h)
    <3>1. /\ hpc[h] = "finish" /\ Step(h, "done")
          /\ UNCHANGED <<buf, outc, closed, draining>>
      BY <2>15 DEF Done
    <3>2. outc[h] = h BY <2>2, <2>6, <3>1 DEF EndsInTurn, OwnOutc
    <3>3. "done" \in ReadStates(m) BY DEF ReadStates
    <3>4. \A n \in 1..(m - 1) : hpc[The(n)] \in {"drain", "finish", "done"}
      BY <2>2, <2>6, <3>1 DEF EndsInTurn
    <3> QED BY <2>8, <3>1, <3>2, <3>3, <3>4
  <2> QED BY <1>10, <1>11, <2>9, <2>10, <2>11, <2>12, <2>13, <2>14, <2>15 DEF Handler
<1> QED BY <1>4, <1>7, <1>8, <1>9, <1>11

(* The driver's own steps: between two of them, the sink has the stream of *)
(* the last module and the giver waits for the sink.                       *)
LEMMA SinkReads ==
  ASSUME IsReadLine, NestedTypeOK, ReadsInTurn, driver = "read",
         NEW g \in Handlers, SinkReceives(g)
  PROVE  ReadsInTurn'
<1> USE DEF linkVars, loopVars, stdinVars
<1>1. /\ sink = "range" /\ hpc[g] = "send" /\ Out(g) = dcb
      /\ \E next \in KindOf(g).sent :
           Step(g, next) /\ buf' = [buf EXCEPT ![g] = Sent(g, next)]
      /\ data' = Append(data, buf[g])
      /\ UNCHANGED <<link, pc, init, made, closed, hin, outc, draining,
                     dpc, hears, giver, sink, dcb>>
  BY DEF SinkReceives, Sends
<1>2. PICK k \in Modules : g = The(k) BY <1>1, WhoRuns DEF ReadsInTurn
<1>3. k = N
  <2>1. dcb = The(N) BY <1>1 DEF ReadsInTurn, Reading
  <2>2. outc[g] = g BY <1>1, <1>2 DEF ReadsInTurn, EndsInTurn, OwnOutc
  <2>3. Out(g) = outc[g] BY <1>2, ReadKinds DEF Out, KindOf
  <2>4. The(k) = The(N) BY <1>1, <1>2, <2>1, <2>2, <2>3
  <2>5. k \in Places /\ N \in Places BY ReadKinds
  <2> QED BY <2>4, <2>5, ReadKinds
<1> DEFINE back == IF N = 1 THEN "source" ELSE "recv"
<1>4. /\ \A n \in Modules : The(n) \in Handlers /\ n \in Nat /\ n <= N
      /\ \A n \in Modules : n # N => The(n) # g
      /\ \A n \in Modules : \A j \in 1..(n - 1) : j \in Modules
      /\ KindOf(g).sent = {back}
      /\ N \in Modules /\ 1 \in Modules /\ g = The(N) /\ g[2] = 1
  BY <1>2, <1>3, ReadKinds DEF KindOf
<1>5. /\ hpc \in [Handlers -> HandlerStates] /\ buf \in [Handlers -> 0..Own]
      /\ 0..Own \subseteq Nat /\ data \in Seq(0..Own)
  BY DEF NestedTypeOK, LineTypeOK
<1>6. /\ hpc'[g] = back /\ buf'[g] = Sent(g, back)
      /\ \A f \in Handlers : f # g => hpc'[f] = hpc[f] /\ buf'[f] = buf[f]
  BY <1>1, <1>4, <1>5 DEF Step
<1>7. Reading' /\ \A l \in Places : OneByOne(l)'
  BY <1>1 DEF ReadsInTurn, Reading, OneByOne, Announced, Heard
<1>8. hpc'[g] \notin {"idle", "start", "cb", "send", "drain", "close", "finish", "done"}
  BY <1>4, <1>6
<1>9. ASSUME NEW n \in Modules PROVE RunsOne(n)' /\ EndsInTurn(n)'
  <2>1. RunsOne(n) /\ EndsInTurn(n) BY DEF ReadsInTurn
  <2>2. ReadStates(n)' = ReadStates(n) BY DEF ReadStates
  <2>3. CASE n = N
    <3>1. hpc'[g] \in ReadStates(n) BY <1>4, <1>6, <2>3 DEF ReadStates
    <3>2. RunsOne(n)' BY <1>1, <1>4, <2>1, <2>3 DEF RunsOne
    <3>3. EndsInTurn(n)'
      BY <1>1, <1>4, <1>8, <2>1, <2>2, <2>3, <3>1 DEF EndsInTurn, OwnOutc
    <3> QED BY <3>2, <3>3
  <2>4. CASE n # N
    <3>1. hpc'[The(n)] = hpc[The(n)] BY <1>4, <1>6, <2>4
    <3>2. RunsOne(n)' BY <1>1, <2>1, <3>1 DEF RunsOne
    <3>3. \A j \in 1..(n - 1) : hpc[The(j)] \in {"drain", "finish", "done"}
            => hpc'[The(j)] \in {"drain", "finish", "done"}
      BY <1>1, <1>4, <1>6
    <3>4. EndsInTurn(n)' BY <1>1, <2>1, <2>2, <3>1, <3>3 DEF EndsInTurn, OwnOutc
    <3> QED BY <3>2, <3>4
  <2> QED BY <2>3, <2>4
<1>10. NoOthers' BY <1>4, <1>6 DEF ReadsInTurn, NoOthers
<1>11. \A f \in draining' : f = The(1) /\ hpc'[f] # "idle"
  <2>1. draining' = draining BY <1>1
  <2>2. \A f \in draining : f = The(1) /\ hpc[f] # "idle" BY DEF ReadsInTurn
  <2>3. The(1) \in Handlers BY ReadKinds
  <2>4. hpc'[The(1)] # "idle" \/ hpc'[The(1)] = hpc[The(1)]
    BY <1>6, <1>8, <2>3
  <2> QED BY <2>1, <2>2, <2>4
<1>12. PICK out \in Nat, in \in Nat : out = Len(data) /\ in = ReadSoFar
  <2>1. Len(data) \in Nat /\ ReadSoFar \in Nat BY <1>4, <1>5 DEF ReadSoFar
  <2> QED BY <2>1
<1>13. /\ Holds(N) /\ ~Holds(N)' /\ \A n \in Modules : Holds(n) => n <= N
       /\ \A n \in Modules \ {N} : Holds(n)' = Holds(n) /\ buf'[The(n)] = buf[The(n)]
  BY <1>1, <1>4, <1>6, <1>8 DEF Holds
<1>14. buf[The(N)] = out + 1 /\ InHands(out + 1, in)'
  BY <1>4, <1>12, <1>13, HandsEmptied DEF ReadsInTurn, OnItsWay
<1>15. Len(data') = out + 1 /\ data' = [i \in 1..(out + 1) |-> i]
  <2>1. data = [i \in 1..out |-> i] BY <1>12 DEF ReadsInTurn, OnItsWay
  <2>2. data' = Append(data, out + 1) BY <1>1, <1>4, <1>14
  <2>3. Len(data') = out + 1 /\ data' \in Seq(0..Own)
        /\ data'[out + 1] = out + 1
        /\ \A i \in 1..out : data'[i] = data[i]
    <3>1. data \in Seq(0..Own) /\ Len(data) = out /\ out + 1 \in 0..Own
      BY <1>4, <1>5, <1>12, <1>14
    <3> QED BY <2>2, <3>1
  <2>4. \A i \in 1..(out + 1) : data'[i] = i
    <3>1. \A i \in 1..out : data[i] = i BY <2>1
    <3> QED BY <2>3, <3>1
  <2>5. data' = [i \in 1..(out + 1) |-> data'[i]]
    <3>1. data' = [i \in 1..Len(data') |-> data'[i]] BY <2>3
    <3> QED BY <2>3, <3>1
  <2> QED BY <2>3, <2>4, <2>5
<1>16. ReadSoFar' = ReadSoFar
  <2>1. CASE N = 1
    <3>1. Sent(g, back) = buf[g] BY <2>1 DEF Sent
    <3> QED BY <1>4, <1>6, <2>1, <3>1 DEF ReadSoFar
  <2>2. CASE N # 1 BY <1>4, <1>6, <2>2 DEF ReadSoFar
  <2> QED BY <2>1, <2>2
<1>17. OnItsWay' BY <1>12, <1>14, <1>15, <1>16 DEF OnItsWay, InHands
<1> QED BY <1>1, <1>7, <1>9, <1>10, <1>11, <1>17 DEF ReadsInTurn

(* A step of the driver that leaves the handlers alone *)
LEMMA OthersStand ==
  ASSUME IsReadLine, NestedTypeOK, ReadsInTurn, data' = data,
         UNCHANGED <<pc, init, made, hpc, hin, outc, buf, draining>>,
         \A n \in Modules : The(n) \in closed' <=> The(n) \in closed
  PROVE  /\ \A m \in Modules : RunsOne(m)' /\ EndsInTurn(m)'
         /\ NoOthers' /\ OnItsWay'
         /\ \A h \in draining' : h = The(1) /\ hpc'[h] # "idle"
<1>1. \A m \in Modules : RunsOne(m)' BY DEF ReadsInTurn, RunsOne
<1>2. \A m \in Modules : EndsInTurn(m)'
  BY DEF ReadsInTurn, EndsInTurn, OwnOutc, ReadStates
<1>3. OnItsWay' BY DEF ReadsInTurn, OnItsWay, InHands, Holds, ReadSoFar
<1> QED BY <1>1, <1>2, <1>3 DEF ReadsInTurn, NoOthers

LEMMA DriverReads ==
  ASSUME IsReadLine, NestedTypeOK, ReadsInTurn, driver = "read",
         Sink \/ Giver \/ Hearer \/ Driver
  PROVE  ReadsInTurn'
<1> USE DEF linkVars, loopVars, streamVars, stdinVars
<1>1. /\ Reading /\ (sink = "done" => The(N) \in closed)
      /\ \A l \in Places : OneByOne(l)
  BY DEF ReadsInTurn
<1>2. /\ Relay \in Places /\ N \in Places /\ N # Relay /\ The(N) \in Handlers
      /\ The(Relay) = D /\ \A n \in Modules : The(n) # D
      /\ \A n \in Modules : n # Relay /\ n \in Places
  <2>1. Relay \in Places BY ReadKinds
  <2> QED BY <2>1, ReadKinds
<1>3. link \in [Places -> Seq(Told)] BY DEF NestedTypeOK, LineTypeOK
<1>4. /\ \A l \in Places : l # Relay => (Announced(l) <=> pc[l] # "announce")
      /\ \A l \in Places : l # N => (Heard(l) <=> init[l + 1])
      /\ Announced(Relay) <=> dpc # "announce"
      /\ Heard(N) <=> dpc \notin {"announce", "hear"}
  BY <1>2 DEF Announced, Heard
(* The two links that the driver uses *)
<1>5. ASSUME UNCHANGED <<pc, init>>
      PROVE  /\ \A l \in Places : l # Relay => (Announced(l)' <=> Announced(l))
             /\ \A l \in Places : l # N => (Heard(l)' <=> Heard(l))
             /\ Announced(Relay)' <=> dpc' # "announce"
             /\ Heard(N)' <=> dpc' \notin {"announce", "hear"}
  BY <1>2, <1>5 DEF Announced, Heard
<1>6. ASSUME UNCHANGED <<link, pc, init>>,
             dpc' # "announce" <=> dpc # "announce",
             dpc' \in {"announce", "hear"} <=> dpc \in {"announce", "hear"}
      PROVE  \A l \in Places : OneByOne(l)'
  <2>1. ASSUME NEW l \in Places
        PROVE  (Announced(l)' <=> Announced(l)) /\ (Heard(l)' <=> Heard(l))
    BY <1>4, <1>5, <1>6
  <2> QED BY <1>1, <1>6, <2>1, LinkKept
<1>7. ASSUME UNCHANGED vars, data' = data
      PROVE  /\ \A m \in Modules : RunsOne(m)' /\ EndsInTurn(m)'
             /\ NoOthers' /\ OnItsWay'
             /\ \A h \in draining' : h = The(1) /\ hpc'[h] # "idle"
             /\ UNCHANGED <<link, pc, init, closed>>
  <2>1. UNCHANGED <<link, pc, init, made, hpc, hin, outc, buf, draining, closed>>
    BY <1>7 DEF vars
  <2> QED BY <1>7, <2>1, OthersStand
<1>8. CASE SinkCallback
  <2>1. /\ UNCHANGED <<vars, dpc, hears, dcb, data, giver>> /\ sink = "cb"
        /\ sink' = "range"
    BY <1>8 DEF SinkCallback
  <2>2. Reading' BY <1>1, <2>1 DEF Reading
  <2> QED BY <1>6, <1>7, <2>1, <2>2 DEF ReadsInTurn
<1>9. CASE SinkEnds
  <2>1. /\ UNCHANGED <<vars, dpc, hears, dcb, data>> /\ sink = "range"
        /\ sink' = "done" /\ giver' = "close" /\ dcb \in closed
    BY <1>9 DEF SinkEnds
  <2>2. Reading' BY <1>1, <2>1 DEF Reading
  <2>3. The(N) \in closed' BY <1>1, <1>7, <2>1 DEF Reading
  <2> QED BY <1>6, <1>7, <2>1, <2>2, <2>3 DEF ReadsInTurn
<1>10. CASE \E g \in Handlers : SinkReceives(g) BY <1>10, SinkReads
<1>11. CASE GiveCloses
  <2>1. /\ UNCHANGED <<link, pc, init, made, hpc, hin, outc, buf, draining>>
        /\ UNCHANGED <<dpc, hears, sink, dcb, data>>
        /\ giver = "close" /\ giver' = "done"
        /\ closed' = closed \/ closed' = closed \cup {D}
    BY <1>11 DEF GiveCloses, CloseChannel
  <2>2. Reading' BY <1>1, <2>1 DEF Reading
  <2>3. \A n \in Modules : The(n) \in closed' <=> The(n) \in closed
    BY <1>2, <2>1
  <2>4. N \in Modules BY ReadKinds
  <2> QED BY <1>1, <1>6, <2>1, <2>2, <2>3, <2>4, OthersStand DEF ReadsInTurn
<1>12. /\ ~GiveStart /\ ~GiveEnds /\ ~\E h \in Handlers : Give(h)
       /\ ~TeeHears /\ ~TeeJoins /\ ~TeeTellsTerminate /\ ~TeeTakes
  BY <1>1 DEF Reading, GiveStart, GiveEnds, Give, TeeHears, TeeJoins,
              TeeTellsTerminate, TeeTakes
(* A step that leaves the closed streams and all but the driver alone *)
<1>13. ASSUME UNCHANGED <<pc, init, made, hpc, hin, outc, buf, draining, closed>>,
              data' = data, Reading', \A l \in Places : OneByOne(l)',
              sink' = "done" => sink = "done"
       PROVE  ReadsInTurn'
  BY <1>1, <1>13, OthersStand DEF ReadsInTurn
<1>14. CASE Offer
  <2>a. dpc = "announce" BY <1>1, <1>14 DEF Offer, Reading
  <2>b. dpc' = "hear"
    BY <2>a, <1>14 DEF Offer, DriverGoes
  <2>c. giver' = giver BY <1>14 DEF Offer
  <2>1. /\ dpc = "announce" /\ dpc' = "hear" /\ Send(Relay, Channel(D))
        /\ UNCHANGED <<hears, giver, sink, dcb>> /\ data' = data
        /\ UNCHANGED <<pc, init, made, hpc, hin, outc, buf, draining, closed>>
    BY <2>a, <2>b, <2>c, <1>14 DEF Offer, loopVars, streamVars
  <2>2. Reading' BY <1>1, <2>1 DEF Reading
  <2>3. link[Relay] = <<>> /\ ~Heard(Relay)
    BY <1>1, <1>2, <1>4, <2>1, RoomIsEmpty DEF Send
  <2>4. Append(<<>>, Channel(D)) = <<Channel(D)>> OBVIOUS
  <2>5. /\ link'[Relay] = <<Channel(The(Relay))>>
        /\ \A l \in Places : l # Relay => link'[l] = link[l]
    BY <1>2, <1>3, <2>1, <2>3, <2>4 DEF Send
  <2>6. OneByOne(Relay)' BY <1>2, <1>5, <2>1, <2>3, <2>5 DEF OneByOne
  <2>7. \A l \in Places : l # Relay => (Announced(l)' <=> Announced(l))
                                       /\ (Heard(l)' <=> Heard(l))
    BY <1>4, <1>5, <2>1
  <2>8. \A l \in Places : OneByOne(l)' BY <1>1, <2>5, <2>6, <2>7, LinkKept
  <2> QED BY <1>13, <2>1, <2>2, <2>8
<1>15. CASE Hear
  <2>1. /\ dpc = "hear" /\ dpc' = "wait" /\ Receive(N)
        /\ dcb' = Head(link[N]).mc /\ sink' = "cb"
        /\ UNCHANGED <<hears, giver>> /\ data' = data
        /\ UNCHANGED <<pc, init, made, hpc, hin, outc, buf, draining, closed>>
    BY <1>15 DEF Hear, DriverGoes
  <2>2. /\ dcb' = The(N) /\ Announced(N) /\ Tail(link[N]) = <<>>
    BY <1>1, <1>2, <1>4, <2>1, HeadIs DEF Receive, Pending
  <2>3. Reading' BY <1>1, <2>1, <2>2 DEF Reading
  <2>4. /\ link'[N] = <<>> /\ \A l \in Places : l # N => link'[l] = link[l]
    BY <1>2, <1>3, <2>1, <2>2 DEF Receive
  <2>5. OneByOne(N)' BY <1>2, <1>5, <2>1, <2>2, <2>4 DEF OneByOne
  <2>6. \A l \in Places : l # N => (Announced(l)' <=> Announced(l))
                                   /\ (Heard(l)' <=> Heard(l))
    BY <1>4, <1>5, <2>1
  <2>7. \A l \in Places : OneByOne(l)' BY <1>1, <2>4, <2>5, <2>6, LinkKept
  <2> QED BY <1>13, <2>1, <2>3, <2>7
<1>16. CASE Waits("wait", "terminate") \/ Waits("join", "last")
  <2>1. /\ dpc \in {"wait", "join"} /\ dpc' \in {"terminate", "last"}
        /\ UNCHANGED <<vars, hears, giver, sink, dcb, data>> /\ giver = "done"
    BY <1>16 DEF Waits, DriverGoes, Awaited
  <2>2. Reading' BY <1>1, <2>1 DEF Reading
  <2>3. UNCHANGED <<link, pc, init, made, hpc, hin, outc, buf, draining, closed>>
    BY <2>1 DEF vars
  <2> QED BY <1>6, <1>13, <2>1, <2>2, <2>3
<1>17. CASE TellTerminate
  <2>1. /\ dpc = "terminate" /\ dpc' = "join" /\ Send(Relay, Terminate)
        /\ UNCHANGED <<hears, giver, sink, dcb>> /\ data' = data
        /\ UNCHANGED <<pc, init, made, hpc, hin, outc, buf, draining, closed>>
    BY <1>17 DEF TellTerminate, DriverGoes
  <2>2. Reading' BY <1>1, <2>1 DEF Reading
  <2>3. link[Relay] = <<>> /\ Heard(Relay)
    BY <1>1, <1>2, <1>4, <2>1, RoomIsEmpty DEF Send
  <2>4. Append(<<>>, Terminate) = <<Terminate>> OBVIOUS
  <2>5. /\ link'[Relay] = <<Terminate>>
        /\ \A l \in Places : l # Relay => link'[l] = link[l]
    BY <1>2, <1>3, <2>1, <2>3, <2>4 DEF Send
  <2>6. OneByOne(Relay)' BY <1>2, <1>5, <2>1, <2>3, <2>5 DEF OneByOne
  <2>7. \A l \in Places : l # Relay => (Announced(l)' <=> Announced(l))
                                       /\ (Heard(l)' <=> Heard(l))
    BY <1>4, <1>5, <2>1
  <2>8. \A l \in Places : OneByOne(l)' BY <1>1, <2>5, <2>6, <2>7, LinkKept
  <2> QED BY <1>13, <2>1, <2>2, <2>8
<1>18. CASE LastHeard
  <2>1. /\ dpc = "last" /\ dpc' = "close" /\ (Receive(N) \/ link' = link)
        /\ UNCHANGED <<hears, giver, sink, dcb>> /\ data' = data
        /\ UNCHANGED <<pc, init, made, hpc, hin, outc, buf, draining, closed>>
    BY <1>18 DEF LastHeard, DriverGoes
  <2>2. Reading' BY <1>1, <2>1 DEF Reading
  <2>3. \A l \in Places : (Announced(l)' <=> Announced(l)) /\ (Heard(l)' <=> Heard(l))
    BY <1>4, <1>5, <2>1
  <2>4. CASE link' = link
    <3>1. \A l \in Places : OneByOne(l)' BY <1>1, <2>3, <2>4, LinkKept
    <3> QED BY <1>13, <2>1, <2>2, <3>1
  <2>5. CASE Receive(N)
    <3>1. Heard(N) /\ Announced(N) /\ Tail(link[N]) = <<>>
      BY <1>1, <1>2, <1>4, <2>1, <2>5, HeadIs DEF Receive, Pending
    <3>2. /\ link'[N] = <<>> /\ \A l \in Places : l # N => link'[l] = link[l]
      BY <1>2, <1>3, <2>5, <3>1 DEF Receive
    <3>3. OneByOne(N)' BY <1>2, <2>3, <3>1, <3>2 DEF OneByOne
    <3>4. \A l \in Places : OneByOne(l)' BY <1>1, <2>3, <3>2, <3>3, LinkKept
    <3> QED BY <1>13, <2>1, <2>2, <3>4
  <2> QED BY <2>1, <2>4, <2>5
<1>19. CASE CloseIn
  <2>1. /\ dpc = "close" /\ dpc' = "returned" /\ link' = link
        /\ UNCHANGED <<hears, giver, sink, dcb>> /\ data' = data
        /\ UNCHANGED <<pc, init, made, hpc, hin, outc, buf, draining, closed>>
    BY <1>19 DEF CloseIn, DriverGoes
  <2>2. Reading' BY <1>1, <2>1 DEF Reading
  <2> QED BY <1>6, <1>13, <2>1, <2>2
<1> QED BY <1>8, <1>9, <1>10, <1>11, <1>12, <1>14, <1>15, <1>16, <1>17, <1>18,
           <1>19
        DEF Sink, Giver, Hearer, Driver

LEMMA NestedInitReads ==
  ASSUME IsReadLine, NestedInit, driver = "read"
  PROVE  ReadsInTurn
<1> USE DEF NestedInit, Init
<1>1. /\ pc \in [Places -> LoopStates] /\ init \in [Modules -> BOOLEAN]
      /\ \A m \in Modules : ~init[m] /\ made[m] = 1 /\ pc[m] = "announce"
  <2>1. \A m \in Modules : m \in Places /\ m # Relay BY ReadKinds
  <2>2. pc \in [Places -> LoopStates] /\ init \in [Modules -> BOOLEAN]
    BY NestedInitType DEF NestedTypeOK, LineTypeOK
  <2>3. ASSUME NEW m \in Modules
        PROVE  ~init[m] /\ made[m] = 1 /\ pc[m] = "announce"
    BY <2>1, NestedAssumption
  <2> QED BY <2>2, <2>3
<1>2. /\ dpc = "announce" /\ hears = "done" /\ giver = "none" /\ sink = "none"
      /\ data = <<>> /\ closed = {} /\ draining = {}
      /\ \A h \in Handlers : hpc[h] = "idle" /\ buf[h] = 0
  BY DEF NoPayload
<1>3. Reading BY <1>2 DEF Reading
<1>4. ASSUME NEW l \in Places PROVE OneByOne(l)
  <2>1. ~Announced(l)
    <3>1. l # Relay => l \in Modules BY PipelineAssumption
    <3> QED BY <1>1, <1>2, <3>1 DEF Announced
  <2>2. ~Heard(l)
    <3>1. l # N => l + 1 \in Modules BY PipelineAssumption
    <3> QED BY <1>1, <1>2, <3>1 DEF Heard
  <2> QED BY <2>1, <2>2 DEF OneByOne
<1>5. ASSUME NEW m \in Modules PROVE RunsOne(m) /\ EndsInTurn(m)
  <2>1. The(m) \in Handlers BY ReadKinds
  <2> QED BY <1>1, <1>2, <2>1 DEF RunsOne, EndsInTurn, OwnOutc, ReadStates
<1>6. OnItsWay
  <2>1. The(1) \in Handlers BY ReadKinds
  <2>2. Len(data) = 0 /\ ReadSoFar = 0 BY <1>2, <2>1 DEF ReadSoFar
  <2>3. data = [i \in 1..Len(data) |-> i] BY <1>2, <2>2
  <2>4. \A m \in Modules : ~Holds(m) BY <1>2, ReadKinds DEF Holds
  <2>5. \A p : p \notin (0 + 1)..0 OBVIOUS
  <2>6. InHands(0, 0) BY <2>4, <2>5 DEF InHands
  <2> QED BY <2>2, <2>3, <2>6 DEF OnItsWay
<1>7. NoOthers BY <1>2 DEF NoOthers
<1> QED BY <1>2, <1>3, <1>4, <1>5, <1>6, <1>7 DEF ReadsInTurn

LEMMA ReadStep ==
  ASSUME IsReadLine, NestedTypeOK, ReadInv, [NestedNext]_nestedVars
  PROVE  ReadInv'
<1>1. driver' = driver
  BY DEF NestedNext, nestedVars, driverVars, Inner, Sink, SinkCallback,
         SinkEnds, SinkReceives, Giver, GiveStart, GiveEnds, GiveCloses, Give,
         Hearer, TeeHears, TeeJoins, TeeTellsTerminate, Driver, Offer, Hear,
         TeeTakes, Waits, TellTerminate, LastHeard, CloseIn, DriverGoes
<1> SUFFICES ASSUME driver = "read" PROVE ReadsInTurn'
  BY <1>1 DEF ReadInv
<1>2. ReadsInTurn BY DEF ReadInv
<1>3. CASE UNCHANGED nestedVars
  <2>1. /\ UNCHANGED <<link, pc, init, made, hpc, hin, outc, buf, draining, closed>>
        /\ UNCHANGED <<dpc, hears, giver, sink, dcb>> /\ data' = data
    BY <1>3 DEF nestedVars, driverVars, vars, linkVars, loopVars, streamVars
  <2>2. Reading' BY <1>2, <2>1 DEF Reading, ReadsInTurn
  <2>3. \A l \in Places : OneByOne(l)'
    BY <1>2, <2>1 DEF ReadsInTurn, OneByOne, Announced, Heard
  <2> QED BY <1>2, <2>1, <2>2, <2>3, OthersStand DEF ReadsInTurn
<1>4. ASSUME NEW m \in Modules, Inner(Loop(m)) PROVE ReadsInTurn'
  BY <1>2, <1>4, LoopReads DEF Inner
<1>5. ASSUME NEW h \in Handlers, Inner(Handler(h)) PROVE ReadsInTurn'
  BY <1>2, <1>5, HandlerReads DEF Inner
<1> QED BY <1>2, <1>3, <1>4, <1>5, DriverReads DEF NestedNext

(* The types, for every line and driver; and on read-file and copying      *)
(* modules that ReadAllPipeline reads, each link carries a MessageChannel  *)
(* and then a Terminate, the handlers end one after the other down the     *)
(* line, and what was read and is not in `buff' yet is in their hands, in  *)
(* order (pipeline.go:128-160, readFile.go:93-115, upper.go:39-72).        *)
THEOREM NestedInvariant == NestedSpec => []NestedInv
<1>1. NestedInit => NestedInv
  BY NestedInitType, NestedInitReads DEF NestedInv, ReadInv
<1>2. NestedInv /\ [NestedNext]_nestedVars => NestedInv'
  <2> SUFFICES ASSUME NestedInv, [NestedNext]_nestedVars PROVE NestedInv'
    OBVIOUS
  <2>1. NestedTypeOK' /\ HasOutc' BY NestedTypeStep DEF NestedInv
  <2>2. IsReadLine => ReadInv' BY ReadStep DEF NestedInv
  <2>3. IsReadLine' <=> IsReadLine BY DEF IsReadLine, Copies
  <2> QED BY <2>1, <2>2, <2>3 DEF NestedInv
<1> QED BY <1>1, <1>2, PTL DEF NestedSpec

(* When ReadAllPipeline's range is over, the last stream is closed, so all *)
(* the handlers before it are done and none of them holds a payload.       *)
LEMMA AllRead == ASSUME IsReadLine, NestedInv PROVE ReadsAll
<1> SUFFICES ASSUME driver = "read",
                    dpc \in {"terminate", "join", "last", "close", "returned"}
             PROVE  data = [i \in 1..buf[<<1, 1>>] |-> i]
  BY DEF ReadsAll
<1>1. ReadsInTurn BY DEF NestedInv, ReadInv
<1>2. The(N) \in closed
  BY <1>1 DEF ReadsInTurn, Reading
<1>3. /\ N \in Nat /\ N \in Modules /\ \A m \in Modules : m \in Nat /\ m <= N
      /\ 1 \in Modules /\ The(1) = <<1, 1>> /\ The(1) \in Handlers
  BY ReadKinds DEF The
<1>4. hpc[The(N)] \in {"drain", "finish", "done"}
  BY <1>1, <1>2, <1>3 DEF ReadsInTurn, EndsInTurn
<1>5. ASSUME NEW m \in Modules PROVE hpc[The(m)] \in {"drain", "finish", "done"}
  <2>1. CASE m = N BY <1>4, <2>1
  <2>2. CASE m # N
    <3>1. N # 1 /\ m \in 1..(N - 1) BY <1>3, <2>2
    <3>2. hpc[The(N)] \in {"finish", "done"}
      BY <1>1, <1>3, <1>4, <3>1 DEF ReadsInTurn, EndsInTurn, ReadStates
    <3> QED BY <1>1, <1>3, <3>1, <3>2 DEF ReadsInTurn, EndsInTurn
  <2> QED BY <2>1, <2>2
<1>6. \A m \in Modules : ~Holds(m) BY <1>5 DEF Holds
<1>7. /\ data = [i \in 1..Len(data) |-> i]
      /\ InHands(Len(data), buf[<<1, 1>>])
  BY <1>1, <1>3 DEF ReadsInTurn, OnItsWay, ReadSoFar
<1>8. Len(data) \in Nat /\ buf[<<1, 1>>] \in Nat
  BY <1>3 DEF NestedInv, NestedTypeOK, LineTypeOK, Own
<1>9. Len(data) <= buf[<<1, 1>>] BY <1>7 DEF InHands
<1>10. ~(Len(data) < buf[<<1, 1>>])
  <2>1. \A p \in (Len(data) + 1)..buf[<<1, 1>>] : FALSE
    BY <1>6, <1>7 DEF InHands
  <2> QED BY <1>8, <2>1
<1>11. Len(data) = buf[<<1, 1>>] BY <1>8, <1>9, <1>10
<1> QED BY <1>7, <1>11

(* ReadAllPipeline returns what read-file has read, in order, to the end   *)
(* or to the error, through any number of copying modules and whichever of *)
(* their goroutines is slow (pipeline.go:128-160, README.md:72).           *)
THEOREM ReturnsWhatWasRead ==
  ASSUME IsReadLine
  PROVE  NestedSpec => []ReadsAll
<1>1. NestedInv => ReadsAll BY AllRead
<1> QED BY <1>1, NestedInvariant, PTL
=============================================================================
