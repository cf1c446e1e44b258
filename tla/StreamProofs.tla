---------------------------- MODULE StreamProofs ----------------------------
(***************************************************************************)
(* On every command line without a server: no goroutine panics, and every  *)
(* module leaves its stream closed behind it.  The argument: each module's *)
(* one MessageChannel goes once around the ring (OneStream), so each       *)
(* module starts one handler (Spawned), and only that handler, or the loop *)
(* when it has none, closes the stream (OwnStream, ClosedByOwner).         *)
(* And a line of stdin, copying modules and stdout implements ByteStream.  *)
(***************************************************************************)
EXTENDS PipelineProofs

USE DEF Relay, Modules, Places, Handlers,
        Counting, NextMc, Unlocked

-----------------------------------------------------------------------------
(* Sequences of messages that carry at most one MessageChannel *)

LEMMA ChannelIsNotTerminate ==
  \A c : Channel(c) # Terminate
BY DEF Channel, Terminate

LEMMA TailOfOne ==
  ASSUME NEW q \in Seq(Messages), q # <<>>
  PROVE  /\ OneChannel(q) => OneChannel(Tail(q))
         /\ HasChannel(Tail(q)) => HasChannel(q)
         /\ Head(q) # Terminate => HasChannel(q)
         /\ OneChannel(q) /\ Head(q) # Terminate => ~HasChannel(Tail(q))
<1>1. /\ Len(Tail(q)) = Len(q) - 1 /\ Len(q) \in Nat \ {0}
      /\ \A i \in 1..Len(Tail(q)) : i + 1 \in 1..Len(q) /\ Tail(q)[i] = q[i + 1]
  OBVIOUS
<1>2. 1 \in 1..Len(q) /\ Head(q) = q[1] BY <1>1
<1>3. OneChannel(q) => OneChannel(Tail(q)) BY <1>1 DEF OneChannel
<1>4. HasChannel(Tail(q)) => HasChannel(q) BY <1>1 DEF HasChannel
<1>5. Head(q) # Terminate => HasChannel(q) BY <1>2 DEF HasChannel
<1>6. OneChannel(q) /\ Head(q) # Terminate => ~HasChannel(Tail(q))
  BY <1>1, <1>2 DEF HasChannel, OneChannel
<1> QED BY <1>3, <1>4, <1>5, <1>6

LEMMA AppendOne ==
  ASSUME NEW q \in Seq(Messages), NEW msg \in Messages
  PROVE  /\ OneChannel(q) /\ (msg = Terminate \/ ~HasChannel(q))
              => OneChannel(Append(q, msg))
         /\ HasChannel(Append(q, msg)) => HasChannel(q) \/ msg # Terminate
<1>1. /\ Len(Append(q, msg)) = Len(q) + 1 /\ Len(q) \in Nat
      /\ \A i \in 1..Len(q) : Append(q, msg)[i] = q[i]
      /\ Append(q, msg)[Len(q) + 1] = msg
  OBVIOUS
<1>2. \A i \in 1..(Len(q) + 1) : i \in 1..Len(q) \/ i = Len(q) + 1
  BY <1>1
<1>3. OneChannel(q) /\ (msg = Terminate \/ ~HasChannel(q))
        => OneChannel(Append(q, msg))
  BY <1>1, <1>2 DEF OneChannel, HasChannel
<1>4. HasChannel(Append(q, msg)) => HasChannel(q) \/ msg # Terminate
  BY <1>1, <1>2 DEF HasChannel
<1> QED BY <1>3, <1>4

-----------------------------------------------------------------------------
(* Each MessageChannel goes once around the ring *)

(* A step that moves no MessageChannel keeps OneStream. *)
LEMMA NothingMoved ==
  ASSUME OneStream, made' = made, init' = init,
         \A l \in Places : OneChannel(link'[l]),
         \A l \in Places : HasChannel(link'[l]) => HasChannel(link[l]),
         Forwarding' => Forwarding,
         \A m \in Modules : pc'[m] = "announce" => pc[m] = "announce",
         \A m \in Modules : pc'[m] # "newChannel"
  PROVE  OneStream'
<1>0. 0 \in Places /\ \A m \in Modules : m \in Places BY PipelineAssumption
<1>1. \A l \in Places : Received(l)' => Received(l)
  BY <1>0 DEF Received
<1> QED BY <1>0, <1>1 DEF OneStream

LEMMA LoopOneStream ==
  ASSUME TypeOK, OneStream, NEW m \in Modules, Loop(m)
  PROVE  OneStream'
<1>0. /\ m \in Places /\ m - 1 \in Places /\ m # m - 1 /\ m # 0
      /\ link[m] \in Seq(Messages) /\ link[m - 1] \in Seq(Messages)
      /\ Channel(Mc(m)) \in Messages /\ Terminate \in Messages
  <2>1. m \in Places /\ m - 1 \in Places /\ m # m - 1 /\ m # 0
    BY PipelineAssumption
  <2>2. made[m] \in 1..MaxStreams
    <3>1. ~IsServer(m) BY DEF Loop
    <3> QED BY <3>1, PipelineAssumption DEF TypeOK
  <2>3. Mc(m) \in Handlers BY <2>2 DEF Mc
  <2> QED BY <2>1, <2>3, MessageType DEF TypeOK
<1>1. /\ \A p \in Places \ {m} : pc'[p] = pc[p]
      /\ pc'[0] = pc[0] /\ \A i \in Modules \ {m} : pc'[i] = pc[i]
  <2>1. 0 \in Places \ {m} /\ \A i \in Modules \ {m} : i \in Places \ {m}
    BY <1>0, PipelineAssumption
  <2> QED BY <2>1, LoopFrame
<1>2. ~AnnounceNext(m) BY DEF AnnounceNext, OneStream
<1>3. ~RecvNextChannel(m)
  <2> SUFFICES ASSUME RecvNextChannel(m) PROVE FALSE OBVIOUS
  <2>1. HasChannel(link[m - 1])
    BY <1>0, TailOfOne DEF RecvNextChannel, Receive, Pending
  <2>2. Received(m - 1)
    BY PipelineAssumption DEF RecvNextChannel, Received
  <2> QED BY <2>1, <2>2, <1>0 DEF OneStream
<1>4. CASE Announce(m)
  <2>1. /\ link' = [link EXCEPT ![m] = Append(@, Channel(Mc(m)))]
        /\ pc[m] = "announce" /\ pc'[m] = "loop"
        /\ init' = init /\ made' = made /\ held' = held
    BY <1>0, <1>4 DEF Announce, Send, GoTo, TypeOK
  <2>2. OneChannel(link[m]) /\ ~HasChannel(link[m]) /\ ~Received(m)
    BY <1>0, <2>1 DEF OneStream
  <2>3. /\ \A l \in Places \ {m} : link'[l] = link[l]
        /\ link'[m] = Append(link[m], Channel(Mc(m)))
    BY <1>0, <2>1 DEF TypeOK
  <2>4. \A l \in Places : OneChannel(link'[l])
    <3>1. OneChannel(Append(link[m], Channel(Mc(m)))) BY <2>2, <1>0, AppendOne
    <3> QED BY <3>1, <2>3 DEF OneStream
  <2>5. Forwarding' = Forwarding BY <1>1, <2>1 DEF Forwarding
  <2>6. \A l \in Places : Received(l)' = Received(l)
    <3>1. link'[0] = link[0] BY <2>3, <1>0, PipelineAssumption
    <3> QED BY <3>1, <2>1, <2>5 DEF Received
  <2>7. \A l \in Places : HasChannel(link'[l]) => ~Received(l)'
    BY <2>2, <2>3, <2>6 DEF OneStream
  <2>8. \A i \in Modules :
          pc'[i] = "announce" => ~HasChannel(link'[i]) /\ ~Received(i)'
    <3> SUFFICES ASSUME NEW i \in Modules, pc'[i] = "announce"
                 PROVE  ~HasChannel(link'[i]) /\ ~Received(i)'
      OBVIOUS
    <3>1. i # m /\ i \in Places BY <2>1
    <3> QED BY <3>1, <1>1, <2>3, <2>6 DEF OneStream
  <2>9. Forwarding' => ~HasChannel(link'[0]) /\ ~init'[1]
    <3>1. link'[0] = link[0] BY <2>3, <1>0, PipelineAssumption
    <3> QED BY <3>1, <2>1, <2>5 DEF OneStream
  <2>10. \A i \in Modules : pc'[i] # "newChannel"
    BY <2>1, <1>1 DEF OneStream
  <2> QED BY <2>1, <2>4, <2>7, <2>8, <2>9, <2>10 DEF OneStream
<1>5. CASE RecvFirstChannel(m)
  <2>1. /\ link' = [link EXCEPT ![m - 1] = Tail(@)]
        /\ link[m - 1] # <<>> /\ Head(link[m - 1]) # Terminate
        /\ pc'[m] \in {"join", "loop"}
        /\ init' = [init EXCEPT ![m] = TRUE] /\ made' = made /\ held' = held
    BY <1>0, <1>5 DEF RecvFirstChannel, Receive, Pending, Spawn, AfterSpawn, GoTo, TypeOK
  <2>2. /\ OneChannel(link[m - 1]) /\ HasChannel(link[m - 1])
        /\ ~HasChannel(Tail(link[m - 1])) /\ OneChannel(Tail(link[m - 1]))
    BY <1>0, <2>1, TailOfOne DEF OneStream
  <2>3. /\ \A l \in Places \ {m - 1} : link'[l] = link[l]
        /\ link'[m - 1] = Tail(link[m - 1])
    BY <1>0, <2>1 DEF TypeOK
  <2>4. \A l \in Places : OneChannel(link'[l])
    BY <2>2, <2>3 DEF OneStream
  <2>5. \A l \in Places : HasChannel(link'[l]) => l # m - 1 /\ HasChannel(link[l])
    BY <2>2, <2>3
  <2>6. Forwarding' = Forwarding BY <1>1, <2>1 DEF Forwarding
  <2>7. \A l \in Places : Received(l)' => Received(l) \/ l = m - 1 \/ (l = N /\ m = 1)
    <3>1. \A i \in Modules \ {m} : init'[i] = init[i] BY <2>1 DEF TypeOK
    <3>2. /\ 1 \in Modules /\ 0 \in Places
          /\ \A l \in Places : l # N => l + 1 \in Modules
          /\ \A l \in Places : l + 1 = m => l = m - 1
      BY PipelineAssumption
    <3>3. ASSUME NEW l \in Places, l # N, Received(l)', l # m - 1
          PROVE  Received(l)
      BY <3>1, <3>2, <3>3 DEF Received
    <3>4. Received(N)' => Received(N) \/ m = 1
      <4>1. HasChannel(link'[0]) => HasChannel(link[0]) BY <3>2, <2>5
      <4>2. init'[1] => init[1] \/ m = 1 BY <3>1, <3>2
      <4> QED BY <4>1, <4>2, <2>6 DEF Received
    <3> QED BY <3>3, <3>4
  <2>8. m = 1 => Received(N)
    BY <2>2 DEF Received
  <2>9. ~HasChannel(link'[0]) \/ m # 1 BY <2>5, <1>0
  <2>10. \A l \in Places : HasChannel(link'[l]) => ~Received(l)'
    BY <2>5, <2>7, <2>8 DEF OneStream
  <2>11. \A i \in Modules : pc'[i] = "announce" =>
                             i # m /\ i \in Places /\ pc[i] = "announce"
    BY <1>1, <2>1
  <2>12. \A i \in Modules :
           pc'[i] = "announce" => ~HasChannel(link'[i]) /\ ~Received(i)'
    <3> SUFFICES ASSUME NEW i \in Modules, pc'[i] = "announce"
                 PROVE  ~HasChannel(link'[i]) /\ ~Received(i)'
      OBVIOUS
    <3>1. ~HasChannel(link[i]) /\ ~Received(i) BY <2>11 DEF OneStream
    <3>2. i # m - 1 BY <3>1, <2>2
    <3> QED BY <3>1, <3>2, <2>5, <2>7, <2>8, <2>11
  <2>13. Forwarding' => ~HasChannel(link'[0]) /\ ~init'[1]
    <3> SUFFICES ASSUME Forwarding PROVE ~HasChannel(link'[0]) /\ ~init'[1]
      BY <2>6
    <3>1. ~HasChannel(link[0]) /\ ~init[1] BY DEF OneStream
    <3>2. m # 1 BY <3>1, <2>2
    <3>3. init'[1] = init[1]
      <4>1. 1 \in Modules BY PipelineAssumption
      <4> QED BY <4>1, <3>2, <2>1 DEF TypeOK
    <3> QED BY <3>1, <3>3, <2>5, PipelineAssumption
  <2>14. \A i \in Modules : pc'[i] # "newChannel"
    BY <2>1, <1>1 DEF OneStream
  <2> QED BY <2>1, <2>4, <2>10, <2>12, <2>13, <2>14 DEF OneStream
<1>6. CASE \/ RecvTerminate(m) \/ Cancelled(m) \/ Join(m, "join", "terminate")
           \/ SendTerminate(m, "drain") \/ Join(m, "drain", "last")
           \/ Last(m, m - 1) \/ CloseOut(m, "done")
  <2>1. /\ init' = init /\ made' = made /\ held' = held
        /\ pc'[m] \in {"join", "terminate", "drain", "last", "close", "done"}
    BY <1>0, <1>6 DEF RecvTerminate, Cancelled, Join, SendTerminate, Last, CloseOut,
                      GoTo, TypeOK
  <2>2. \/ link' = link
        \/ link' = [link EXCEPT ![m] = Append(@, Terminate)]
        \/ link' = [link EXCEPT ![m - 1] = Tail(@)] /\ link[m - 1] # <<>>
    BY <1>6 DEF RecvTerminate, Cancelled, Join, SendTerminate, Last, CloseOut,
                linkVars, Send, Receive, Pending
  <2>3. \A l \in Places : /\ OneChannel(link'[l])
                          /\ HasChannel(link'[l]) => HasChannel(link[l])
    <3>1. CASE link' = link BY <3>1 DEF OneStream
    <3>2. CASE link' = [link EXCEPT ![m] = Append(@, Terminate)]
      <4>1. /\ \A l \in Places \ {m} : link'[l] = link[l]
            /\ link'[m] = Append(link[m], Terminate)
        BY <1>0, <3>2 DEF TypeOK
      <4>2. /\ OneChannel(link[m]) => OneChannel(Append(link[m], Terminate))
            /\ HasChannel(Append(link[m], Terminate)) => HasChannel(link[m])
        BY <1>0, AppendOne
      <4> QED BY <4>1, <4>2 DEF OneStream
    <3>3. CASE link' = [link EXCEPT ![m - 1] = Tail(@)] /\ link[m - 1] # <<>>
      <4>1. /\ \A l \in Places \ {m - 1} : link'[l] = link[l]
            /\ link'[m - 1] = Tail(link[m - 1])
        BY <1>0, <3>3 DEF TypeOK
      <4> QED BY <4>1, <1>0, <3>3, TailOfOne DEF OneStream
    <3> QED BY <2>2, <3>1, <3>2, <3>3
  <2>4. Forwarding' = Forwarding BY <1>1, <2>1 DEF Forwarding
  <2>5. \A i \in Modules : /\ pc'[i] = "announce" => pc[i] = "announce"
                           /\ pc'[i] # "newChannel"
    BY <2>1, <1>1 DEF OneStream
  <2> QED BY <2>1, <2>3, <2>4, <2>5, NothingMoved
<1> QED BY <1>2, <1>3, <1>4, <1>5, <1>6 DEF Loop

LEMMA RelayOneStream ==
  ASSUME TypeOK, OneStream, RelayMessages
  PROVE  OneStream'
<1>0. /\ 0 \in Places /\ N \in Places /\ 0 # N
      /\ link[0] \in Seq(Messages) /\ link[N] \in Seq(Messages)
      /\ held[0] \in Messages /\ Terminate \in Messages
      /\ UNCHANGED <<init, made>>
      /\ \A m \in Modules : pc'[m] = pc[m]
  <2>1. 0 \in Places /\ N \in Places /\ 0 # N BY PipelineAssumption
  <2> QED BY <2>1, MessageType, RelayFrame, RelayPc DEF TypeOK
<1>1. CASE RelayRecv
  <2>1. /\ link' = [link EXCEPT ![N] = Tail(@)] /\ link[N] # <<>>
        /\ pc[0] = "loop" /\ held'[0] = Head(link[N])
    BY <1>0, <1>1 DEF RelayRecv, Receive, Pending, TypeOK
  <2>2. /\ \A l \in Places \ {N} : link'[l] = link[l]
        /\ link'[N] = Tail(link[N]) /\ link'[0] = link[0]
    BY <1>0, <2>1 DEF TypeOK
  <2>3. \A l \in Places : /\ OneChannel(link'[l])
                          /\ HasChannel(link'[l]) => HasChannel(link[l])
    BY <2>1, <2>2, <1>0, TailOfOne DEF OneStream
  <2>4. CASE Head(link[N]) = Terminate
    <3>1. ~Forwarding' BY <2>1, <2>4 DEF Forwarding
    <3>2. \A m \in Modules : pc'[m] # "newChannel" BY <1>0 DEF OneStream
    <3> QED BY <3>1, <3>2, <2>3, <1>0, NothingMoved
  <2>5. CASE Head(link[N]) # Terminate
    <3>1. HasChannel(link[N]) /\ ~HasChannel(link'[N])
      BY <2>1, <2>2, <2>5, <1>0, TailOfOne DEF OneStream
    <3>2. ~Received(N) /\ ~HasChannel(link[0]) /\ ~init[1]
      BY <3>1, <1>0 DEF OneStream, Received
    <3>3. \A l \in Places \ {N} : Received(l)' = Received(l)
      BY <1>0 DEF Received
    <3>4. \A l \in Places : HasChannel(link'[l]) => ~Received(l)'
      BY <3>1, <3>3, <2>2 DEF OneStream
    <3>5. \A m \in Modules :
            pc'[m] = "announce" => ~HasChannel(link'[m]) /\ ~Received(m)'
      <4> SUFFICES ASSUME NEW m \in Modules, pc[m] = "announce"
                   PROVE  ~HasChannel(link'[m]) /\ ~Received(m)'
        BY <1>0
      <4>1. ~HasChannel(link[m]) /\ ~Received(m) BY DEF OneStream
      <4>2. m # N /\ m \in Places BY <4>1, <3>1
      <4> QED BY <4>1, <4>2, <3>3, <2>2
    <3>6. ~HasChannel(link'[0]) /\ ~init'[1] BY <3>2, <2>2, <1>0
    <3> QED BY <3>4, <3>5, <3>6, <2>3, <1>0 DEF OneStream
  <2> QED BY <2>4, <2>5
<1>2. CASE RelayForward
  <2>1. /\ link' = [link EXCEPT ![0] = Append(@, held[0])]
        /\ pc[0] = "forward" /\ pc'[0] # "forward" /\ held' = held
    BY <1>0, <1>2 DEF RelayForward, Send, GoTo, TypeOK
  <2>2. /\ \A l \in Places \ {0} : link'[l] = link[l]
        /\ link'[0] = Append(link[0], held[0])
    BY <1>0, <2>1 DEF TypeOK
  <2>3. ~Forwarding' BY <2>1 DEF Forwarding
  <2>4. CASE held[0] = Terminate
    <3>1. /\ OneChannel(link'[0])
          /\ HasChannel(link'[0]) => HasChannel(link[0])
      BY <2>2, <2>4, <1>0, AppendOne DEF OneStream
    <3>2. \A l \in Places : /\ OneChannel(link'[l])
                            /\ HasChannel(link'[l]) => HasChannel(link[l])
      BY <3>1, <2>2 DEF OneStream
    <3>3. \A m \in Modules : pc'[m] # "newChannel" BY <1>0 DEF OneStream
    <3> QED BY <3>2, <3>3, <2>3, <1>0, NothingMoved
  <2>5. CASE held[0] # Terminate
    <3>1. Forwarding /\ ~HasChannel(link[0]) /\ ~init[1] /\ Received(N)
      BY <2>1, <2>5 DEF Forwarding, OneStream, Received
    <3>2. OneChannel(link'[0])
      BY <3>1, <2>2, <1>0, AppendOne DEF OneStream
    <3>3. \A l \in Places : OneChannel(link'[l])
      BY <3>2, <2>2 DEF OneStream
    <3>4. \A l \in Places : Received(l)' => Received(l)
      BY <3>1, <1>0 DEF Received
    <3>5. ~Received(0)' BY <3>1, <1>0 DEF Received
    <3>6. \A l \in Places : HasChannel(link'[l]) => ~Received(l)'
      BY <3>4, <3>5, <2>2 DEF OneStream
    <3>7. \A m \in Modules :
            pc'[m] = "announce" => ~HasChannel(link'[m]) /\ ~Received(m)'
      <4>1. \A m \in Modules : m \in Places \ {0} BY PipelineAssumption
      <4> QED BY <4>1, <3>4, <2>2, <1>0 DEF OneStream
    <3> QED BY <3>3, <3>6, <3>7, <2>3, <1>0 DEF OneStream
  <2> QED BY <2>4, <2>5
<1>3. CASE Last(0, N) \/ CloseOut(0, "exited")
  <2>1. /\ \/ link' = link
           \/ link' = [link EXCEPT ![N] = Tail(@)] /\ link[N] # <<>>
        /\ pc'[0] # "forward"
    BY <1>0, <1>3 DEF Last, CloseOut, Receive, Pending, GoTo, TypeOK
  <2>2. \A l \in Places : /\ OneChannel(link'[l])
                          /\ HasChannel(link'[l]) => HasChannel(link[l])
    <3>1. CASE link' = link BY <3>1 DEF OneStream
    <3>2. CASE link' = [link EXCEPT ![N] = Tail(@)] /\ link[N] # <<>>
      <4>1. /\ \A l \in Places \ {N} : link'[l] = link[l]
            /\ link'[N] = Tail(link[N])
        BY <1>0, <3>2 DEF TypeOK
      <4> QED BY <4>1, <1>0, <3>2, TailOfOne DEF OneStream
    <3> QED BY <2>1, <3>1, <3>2
  <2>3. ~Forwarding' BY <2>1 DEF Forwarding
  <2>4. \A m \in Modules : pc'[m] # "newChannel" BY <1>0 DEF OneStream
  <2> QED BY <2>2, <2>3, <2>4, <1>0, NothingMoved
<1> QED BY <1>1, <1>2, <1>3 DEF RelayMessages

LEMMA InitOneStream == ASSUME Init PROVE OneStream
<1>1. \A l \in Places : link[l] = <<>> BY DEF Init
<1>2. \A l \in Places : ~HasChannel(link[l]) /\ OneChannel(link[l])
  BY <1>1 DEF HasChannel, OneChannel
<1>3. ~Forwarding BY PipelineAssumption DEF Init, Forwarding
<1>4. \A m \in Modules : ~init[m] BY DEF Init
<1>5. \A l \in Places : ~Received(l)
  <2>1. 0 \in Places /\ 1 \in Modules /\ \A l \in Places : l # N => l + 1 \in Modules
    BY PipelineAssumption
  <2> QED BY <2>1, <1>2, <1>3, <1>4 DEF Received
<1>6. \A m \in Modules : /\ made[m] = (IF IsServer(m) THEN 0 ELSE 1)
                        /\ pc[m] # "newChannel"
  BY PipelineAssumption DEF Init
<1> QED BY <1>2, <1>3, <1>5, <1>6 DEF OneStream

-----------------------------------------------------------------------------
(* Each stream is closed once, by its own handler or by a loop without one *)

Owned == Spawned /\ OwnStream /\ ClosedByOwner /\ CancelByOwner

Shut == {"drain", "finish", "done"}

LEMMA LoopOwned ==
  ASSUME TypeOK, OneStream, OneStream', Owned, NEW m \in Modules, Loop(m)
  PROVE  Owned' /\ panic' = panic
<1> USE DEF Owned
<1>0. /\ m \in Places /\ \A i \in Modules : Mc(i)' = Mc(i)
      /\ \A i \in Modules \ {m} : pc'[i] = pc[i]
      /\ UNCHANGED <<outc, cancel>>
  <2>1. \A i \in Modules : made'[i] = made[i] BY DEF OneStream
  <2>2. \A i \in Modules \ {m} : i \in Places \ {m} BY PipelineAssumption
  <2>3. \A i \in Modules : Mc(i)' = Mc(i) BY <2>1 DEF Mc
  <2>4. /\ \A p \in Places \ {m} : pc'[p] = pc[p]
        /\ UNCHANGED <<outc, cancel>>
    BY LoopFrame DEF stdinVars
  <2> QED BY <2>2, <2>3, <2>4
<1>1. ~RecvNextChannel(m) /\ ~AnnounceNext(m)
  <2>1. pc[m] # "newChannel" /\ pc'[m] # "newChannel" BY DEF OneStream
  <2> QED BY <2>1, <1>0 DEF RecvNextChannel, AnnounceNext, GoTo, TypeOK
<1>2. Mc(m) \in Handlers /\ Mc(m)[1] = m
  <2>1. ~IsServer(m) BY DEF Loop
  <2>2. made[m] \in 1..MaxStreams BY <2>1, PipelineAssumption DEF TypeOK
  <2> QED BY <2>2 DEF Mc
<1>3. CASE RecvFirstChannel(m)
  <2>1. /\ hpc' = [hpc EXCEPT ![Mc(m)] = "start"] /\ ~init[m]
        /\ init' = [init EXCEPT ![m] = TRUE]
        /\ pc[m] = "loop" /\ pc'[m] \in {"loop", "join"}
        /\ UNCHANGED <<closed, panic>>
    BY <1>0, <1>3 DEF RecvFirstChannel, Spawn, AfterSpawn, GoTo, TypeOK
  <2>2. hpc[Mc(m)] = "idle" /\ Mc(m) \notin closed /\ m \notin cancel
    BY <2>1, <1>2 DEF Spawned, ClosedByOwner, CancelByOwner
  <2>3. /\ hpc'[Mc(m)] = "start" /\ \A h \in Handlers \ {Mc(m)} : hpc'[h] = hpc[h]
        /\ init'[m] /\ \A i \in Modules \ {m} : init'[i] = init[i]
    BY <2>1, <1>2 DEF TypeOK
  <2>4. \A h \in Handlers : h[1] \in Modules OBVIOUS
  <2>5. Spawned'
    <3> SUFFICES ASSUME NEW h \in Handlers
                 PROVE  hpc'[h] # "idle" <=> init'[h[1]] /\ h = Mc(h[1])
      BY <2>4, <1>0 DEF Spawned
    <3>1. CASE h = Mc(m) BY <3>1, <2>3, <1>2
    <3>2. CASE h # Mc(m)
      <4>1. hpc'[h] = hpc[h] BY <3>2, <2>3
      <4>2. h = Mc(h[1]) => init'[h[1]] = init[h[1]] BY <3>2, <2>3, <2>4
      <4> QED BY <4>1, <4>2 DEF Spawned
    <3> QED BY <3>1, <3>2
  <2>6. OwnStream' BY <2>2, <2>3, <1>0 DEF OwnStream, OwnOutc
  <2>7. ClosedByOwner'
    <3> SUFFICES ASSUME NEW h \in Handlers
                 PROVE  h \in closed <=>
                          \/ hpc'[h] \in Shut
                          \/ /\ hpc'[h] = "idle" /\ h = Mc(h[1])
                             /\ pc'[h[1]] \notin {"announce", "loop"}
      BY <2>1, <2>4, <1>0 DEF ClosedByOwner, Shut
    <3>1. CASE h = Mc(m) BY <3>1, <2>2, <2>3 DEF Shut
    <3>2. CASE h # Mc(m)
      <4>1. hpc'[h] = hpc[h] BY <3>2, <2>3
      <4>2. h = Mc(h[1]) => pc'[h[1]] = pc[h[1]] BY <3>2, <2>4, <1>0
      <4> QED BY <4>1, <4>2 DEF ClosedByOwner, Shut
    <3> QED BY <3>1, <3>2
  <2>8. CancelByOwner'
    <3> SUFFICES ASSUME NEW i \in cancel
                 PROVE  /\ Mc(i) \in Handlers
                        /\ hpc'[Mc(i)] \in {"close", "drain", "finish", "done"}
      BY <1>0 DEF CancelByOwner, TypeOK
    <3>1. Mc(i) \in Handlers /\ hpc[Mc(i)] \in {"close", "drain", "finish", "done"}
      BY DEF CancelByOwner
    <3> QED BY <3>1, <2>2, <2>3
  <2> QED BY <2>1, <2>5, <2>6, <2>7, <2>8
<1>4. CASE \/ Announce(m) \/ RecvTerminate(m) \/ Cancelled(m)
           \/ Join(m, "join", "terminate") \/ SendTerminate(m, "drain")
           \/ Join(m, "drain", "last") \/ Last(m, m - 1) \/ CloseOut(m, "done")
  <2>1. UNCHANGED <<hpc, init>>
    BY <1>4 DEF Announce, RecvTerminate, Cancelled, Join, SendTerminate, Last, CloseOut
  <2>2. Spawned' /\ OwnStream' /\ CancelByOwner'
    <3>1. \A h \in Handlers : h[1] \in Modules OBVIOUS
    <3> QED BY <3>1, <2>1, <1>0 DEF Spawned, OwnStream, OwnOutc, CancelByOwner, TypeOK
  <2>3. CASE RecvTerminate(m) /\ ~init[m]
    <3>1. Mc(m) \notin closed /\ hpc[Mc(m)] = "idle" /\ pc'[m] = "join"
      <4>1. pc[m] = "loop" /\ pc'[m] = "join"
        BY <2>3, <1>0 DEF RecvTerminate, GoTo, TypeOK
      <4>2. hpc[Mc(m)] = "idle" BY <2>3, <1>2 DEF Spawned
      <4> QED BY <4>1, <4>2, <1>2 DEF ClosedByOwner
    <3>2. closed' = closed \cup {Mc(m)} /\ panic' = panic
      BY <2>3, <3>1 DEF RecvTerminate, CloseChannel
    <3>3. ClosedByOwner'
      <4> SUFFICES ASSUME NEW h \in Handlers
                   PROVE  h \in closed' <=>
                            \/ hpc[h] \in Shut
                            \/ /\ hpc[h] = "idle" /\ h = Mc(h[1])
                               /\ pc'[h[1]] \notin {"announce", "loop"}
        BY <2>1, <1>0 DEF ClosedByOwner, Shut
      <4>1. CASE h = Mc(m) BY <4>1, <3>1, <3>2, <1>2
      <4>2. CASE h # Mc(m)
        <5>1. h = Mc(h[1]) => pc'[h[1]] = pc[h[1]] BY <4>2, <1>0
        <5> QED BY <5>1, <4>2, <3>2 DEF ClosedByOwner, Shut
      <4> QED BY <4>1, <4>2
    <3> QED BY <3>2, <3>3, <2>2
  <2>4. CASE ~(RecvTerminate(m) /\ ~init[m])
    <3>1. UNCHANGED <<closed, panic>>
      BY <1>4, <2>4 DEF Announce, RecvTerminate, Cancelled, Join, SendTerminate,
                        Last, CloseOut
    <3>2. hpc[Mc(m)] = "idle" =>
            (pc'[m] \in {"announce", "loop"} <=> pc[m] \in {"announce", "loop"})
      <4>1. CASE RecvTerminate(m)
        BY <4>1, <2>4, <1>2 DEF Spawned
      <4>2. CASE Cancelled(m)
        BY <4>2 DEF Cancelled, CancelByOwner
      <4>3. CASE Announce(m)
        BY <4>3, <1>0 DEF Announce, GoTo, TypeOK
      <4>4. CASE \/ Join(m, "join", "terminate") \/ SendTerminate(m, "drain")
                 \/ Join(m, "drain", "last") \/ Last(m, m - 1) \/ CloseOut(m, "done")
        BY <4>4, <1>0 DEF Join, SendTerminate, Last, CloseOut, GoTo, TypeOK
      <4> QED BY <1>4, <4>1, <4>2, <4>3, <4>4
    <3>3. ClosedByOwner'
      <4> SUFFICES ASSUME NEW h \in Handlers
                   PROVE  h \in closed <=>
                            \/ hpc[h] \in Shut
                            \/ /\ hpc[h] = "idle" /\ h = Mc(h[1])
                               /\ pc'[h[1]] \notin {"announce", "loop"}
        BY <3>1, <2>1, <1>0 DEF ClosedByOwner, Shut
      <4>1. CASE h = Mc(m) BY <4>1, <3>2, <1>2 DEF ClosedByOwner, Shut
      <4>2. CASE h # Mc(m)
        <5>1. h = Mc(h[1]) => pc'[h[1]] = pc[h[1]] BY <4>2, <1>0
        <5> QED BY <5>1 DEF ClosedByOwner, Shut
      <4> QED BY <4>1, <4>2
    <3> QED BY <3>1, <3>3, <2>2
  <2> QED BY <2>3, <2>4
<1> QED BY <1>1, <1>3, <1>4 DEF Loop

(* What a step of a handler must do to keep each stream with its owner.    *)
LEMMA OwnedKept ==
  ASSUME TypeOK, Owned, UNCHANGED <<pc, init, made>>,
         \A f \in Handlers : hpc'[f] = "idle" <=> hpc[f] = "idle",
         \A f \in Handlers :
           f \in closed' <=> f \in closed \/ (hpc[f] \notin Shut /\ hpc'[f] \in Shut),
         \A f \in Handlers : hpc[f] \in Shut => hpc'[f] \in Shut,
         \A f \in Handlers : OwnOutc(f)',
         \A m \in cancel' : /\ Mc(m) \in Handlers
                            /\ hpc'[Mc(m)] \in {"close", "drain", "finish", "done"}
  PROVE  Owned'
<1> USE DEF Owned
<1>1. \A m \in Modules : Mc(m)' = Mc(m) BY DEF Mc
<1>2. \A h \in Handlers : h[1] \in Modules OBVIOUS
<1>3. Spawned' BY <1>1, <1>2 DEF Spawned
<1>4. OwnStream' BY DEF OwnStream
<1>5. ClosedByOwner'
  <2> SUFFICES ASSUME NEW h \in Handlers
               PROVE  h \in closed' <=>
                        \/ hpc'[h] \in Shut
                        \/ /\ hpc'[h] = "idle" /\ h = Mc(h[1])
                           /\ pc[h[1]] \notin {"announce", "loop"}
    BY <1>1, <1>2 DEF ClosedByOwner, Shut
  <2>1. h \in closed <=>
          \/ hpc[h] \in Shut
          \/ hpc[h] = "idle" /\ h = Mc(h[1]) /\ pc[h[1]] \notin {"announce", "loop"}
    BY DEF ClosedByOwner, Shut
  <2> QED BY <2>1
<1>6. CancelByOwner' BY DEF CancelByOwner, Mc
<1> QED BY <1>3, <1>4, <1>5, <1>6

LEMMA HandlerOwned ==
  ASSUME TypeOK, OneStream, Owned, NEW h \in Handlers, Handler(h)
  PROVE  Owned' /\ panic' = panic
<1> DEFINE Over == {"close", "drain", "finish", "done"}
<1>0. UNCHANGED <<pc, init, made>> BY HandlerFrame DEF loopVars
<1>1. /\ \A f \in Handlers : hpc[f] # "idle" => f = Mc(f[1]) /\ McSeen(f) = f
      /\ \A f \in Handlers : hpc[f] # "idle" => (f \in closed <=> hpc[f] \in Shut)
      /\ \A f \in Handlers : OwnOutc(f)
      /\ \A f \in Handlers : hpc[f] \in {"idle", "start", "cb"} \/ outc[f] = f
      /\ \A m \in cancel : Mc(m) \in Handlers /\ hpc[Mc(m)] \in Over
      /\ \A f \in Handlers : hpc[f] # "idle" /\ f[1] \in cancel => hpc[f] \in Over
  <2>1. \A f \in Handlers : hpc[f] # "idle" => f = Mc(f[1])
    BY DEF Owned, Spawned
  <2>2. \A f \in Handlers : hpc[f] # "idle" => McSeen(f) = f
    BY <2>1 DEF McSeen
  <2>3. \A f \in Handlers : hpc[f] # "idle" => (f \in closed <=> hpc[f] \in Shut)
    BY DEF Owned, ClosedByOwner, Shut
  <2>4. \A m \in cancel : Mc(m) \in Handlers /\ hpc[Mc(m)] \in Over
    BY DEF Owned, CancelByOwner
  <2>5. \A f \in Handlers : hpc[f] # "idle" /\ f[1] \in cancel => hpc[f] \in Over
    BY <2>1, <2>4
  <2>6. \A f \in Handlers : OwnOutc(f) BY DEF Owned, OwnStream
  <2> QED BY <2>1, <2>2, <2>3, <2>4, <2>5, <2>6 DEF OwnOutc
(* Steps inside the handler: neither `closed' nor `cancel' changes. *)
<1>2. CASE \/ Start(h) \/ Callback(h) \/ InputClosed(h) \/ Done(h) \/ Lock(h)
           \/ ReadDatac(h) \/ ReadFrom(h) \/ ReadFromEnd(h)
  <2>1. /\ UNCHANGED <<closed, cancel, panic>>
        /\ \A f \in Handlers \ {h} : hpc'[f] = hpc[f] /\ outc'[f] = outc[f]
    <3>1. CASE Start(h) \/ Callback(h)
      BY <3>1 DEF Start, Callback, Bound, Step, stdinVars, TypeOK
    <3>2. CASE InputClosed(h) \/ Done(h) \/ Lock(h)
      BY <3>2 DEF InputClosed, Done, Lock, Step, streamVars, stdinVars, TypeOK
    <3>3. CASE ReadDatac(h) \/ ReadFrom(h) \/ ReadFromEnd(h)
      BY <3>3 DEF ReadDatac, ReadFrom, ReadFromEnd, Step, streamVars,
                  stdinVars, TypeOK
    <3> QED BY <1>2, <3>1, <3>2, <3>3
  <2>2. /\ hpc[h] # "idle" /\ hpc'[h] # "idle" /\ hpc[h] # "close"
        /\ hpc[h] \in Shut <=> hpc'[h] \in Shut
    <3>1. CASE Start(h) BY <3>1 DEF Start, Step, TypeOK, Shut
    <3>2. CASE Callback(h)
      <4>1. hpc[h] = "cb" /\ hpc'[h] \in KindOf(h).enter
        BY <3>2 DEF Callback, Step, TypeOK
      <4> QED BY <4>1, KindsType, KindOfType DEF KindStates, Shut
    <3>3. CASE InputClosed(h)
      <4>1. /\ hpc[h] \in {"recv", "drain", "select"}
            /\ hpc[h] = "drain" => hpc'[h] = "finish"
            /\ hpc[h] # "drain" => hpc'[h] \in {"send", "close", "source"}
        <5>1. AfterInput(h) \subseteq IF hpc[h] = "drain" THEN {"finish"}
                                      ELSE {"send", "close", "source"}
          BY <3>3, KindsType, KindOfType DEF InputClosed, AfterInput, KindStates
        <5> QED BY <5>1, <3>3 DEF InputClosed, Step, TypeOK
      <4> QED BY <4>1 DEF Shut
    <3>4. CASE Done(h) BY <3>4 DEF Done, Step, TypeOK, Shut
    <3>5. CASE Lock(h) \/ ReadDatac(h) \/ ReadFrom(h) \/ ReadFromEnd(h)
      BY <3>5 DEF Lock, ReadDatac, ReadFrom, ReadFromEnd, Step, TypeOK, Shut
    <3> QED BY <1>2, <3>1, <3>2, <3>3, <3>4, <3>5
  <2>3. OwnOutc(h)'
    <3>0. OwnOutc(h) /\ McSeen(h) = h BY <1>1, <2>2
    <3>1. CASE Callback(h)
      BY <3>0, <3>1 DEF Callback, Bound, OwnOutc, TypeOK, NoChannel
    <3>2. CASE Start(h)
      <4>1. outc'[h] = h \/ (outc' = outc /\ hpc'[h] = "cb")
        BY <3>0, <3>2 DEF Start, Bound, Step, TypeOK
      <4> QED BY <3>0, <4>1 DEF OwnOutc
    <3>3. CASE \/ InputClosed(h) \/ Done(h) \/ Lock(h) \/ ReadDatac(h)
               \/ ReadFrom(h) \/ ReadFromEnd(h)
      <4>1. outc' = outc /\ hpc[h] \notin {"idle", "start", "cb"}
        BY <3>3 DEF InputClosed, Done, Lock, ReadDatac, ReadFrom, ReadFromEnd,
                    streamVars
      <4> QED BY <4>1, <1>1 DEF OwnOutc
    <3> QED BY <1>2, <3>1, <3>2, <3>3
  <2>4. \A m \in cancel : Mc(m) \in Handlers /\ hpc'[Mc(m)] \in Over
    <3> SUFFICES ASSUME NEW m \in cancel
                 PROVE  Mc(m) \in Handlers /\ hpc'[Mc(m)] \in Over
      OBVIOUS
    <3>1. Mc(m) \in Handlers /\ hpc[Mc(m)] \in Over BY <1>1
    <3>2. CASE Mc(m) = h BY <3>1, <3>2, <2>2 DEF Shut
    <3>3. CASE Mc(m) # h BY <3>1, <3>3, <2>1
    <3> QED BY <3>2, <3>3
  <2>5. \A f \in Handlers : /\ hpc'[f] = "idle" <=> hpc[f] = "idle"
                            /\ hpc[f] \in Shut <=> hpc'[f] \in Shut
                            /\ OwnOutc(f)'
    BY <1>1, <2>1, <2>2, <2>3 DEF OwnOutc
  <2> QED BY <2>1, <2>4, <2>5, <1>0, OwnedKept
<1>3. CASE CloseOutc(h)
  <2>1. /\ hpc[h] \in {"close", "fail"} /\ hpc'[h] \in {"drain", "finish"}
        /\ \A f \in Handlers \ {h} : hpc'[f] = hpc[f]
        /\ UNCHANGED <<cancel, outc>>
    <3>1. AfterClose(h) \in {"drain", "finish"}
      BY KindsType, KindOfType DEF AfterClose, KindStates
    <3> QED BY <3>1, <1>3 DEF CloseOutc, Step, TypeOK, streamVars, stdinVars
  <2>2. Out(h) = h /\ h \notin closed
    BY <1>1, <2>1 DEF Out, Shut
  <2>3. closed' = closed \cup {h} /\ panic' = panic
    BY <1>3, <2>2 DEF CloseOutc, CloseChannel
  <2>4. \A m \in cancel : Mc(m) \in Handlers /\ hpc'[Mc(m)] \in Over
    BY <1>1, <2>1
  <2>5. \A f \in Handlers :
          /\ hpc'[f] = "idle" <=> hpc[f] = "idle"
          /\ f \in closed' <=> f \in closed \/ (hpc[f] \notin Shut /\ hpc'[f] \in Shut)
          /\ hpc[f] \in Shut => hpc'[f] \in Shut
          /\ OwnOutc(f)'
    BY <1>1, <2>1, <2>3 DEF Shut, OwnOutc
  <2> QED BY <2>1, <2>3, <2>4, <2>5, <1>0, OwnedKept
<1>4. CASE DatacClosed(h)
  <2>1. hpc[h] = "select" /\ h[1] \notin cancel /\ h = Mc(h[1])
    BY <1>4, <1>1 DEF DatacClosed
  <2>2. /\ cancel' = cancel \cup {h[1]} /\ hpc'[h] = "close"
        /\ \A f \in Handlers \ {h} : hpc'[f] = hpc[f]
        /\ UNCHANGED <<closed, outc, panic>>
    BY <1>4, <2>1 DEF DatacClosed, Step, TypeOK, streamVars
  <2>3. \A m \in cancel' : Mc(m) \in Handlers /\ hpc'[Mc(m)] \in Over
    BY <1>1, <2>1, <2>2
  <2>4. \A f \in Handlers :
          /\ hpc'[f] = "idle" <=> hpc[f] = "idle"
          /\ hpc[f] \in Shut <=> hpc'[f] \in Shut
          /\ OwnOutc(f)'
    BY <1>1, <2>1, <2>2 DEF Shut, OwnOutc
  <2> QED BY <2>2, <2>3, <2>4, <1>0, OwnedKept
<1>5. CASE SendClosed(h)
  <2>1. hpc[h] = "send" /\ Out(h) \in closed BY <1>5 DEF SendClosed
  <2>2. Out(h) = h BY <1>1, <2>1 DEF Out
  <2> QED BY <1>1, <2>1, <2>2 DEF Shut
<1>7. CASE Drained(h)
  <2>1. UNCHANGED <<hpc, outc, closed, cancel, panic>>
    BY <1>7 DEF Drained, stdinVars
  <2> QED BY <2>1, <1>0, <1>1, OwnedKept DEF Shut, OwnOutc
<1>6. ASSUME NEW g \in Handlers, Transfer(g, h) PROVE Owned' /\ panic' = panic
  <2>1. /\ hpc[g] = "send" /\ hpc'[g] \in {"close", "select", "read", "recv", "send", "source"}
        /\ g = h \/ hpc'[h] = hpc[h]
                 \/ (hpc[h] = "recv" /\ hpc'[h] \in {"recv", "send", "close"})
        /\ \A f \in Handlers \ {g, h} : hpc'[f] = hpc[f]
        /\ UNCHANGED <<closed, cancel, outc, panic>>
    <3>1. /\ KindOf(g).sent \subseteq {"close", "select", "read", "recv", "send",
                                      "source"}
          /\ KindOf(h).take \subseteq {"recv", "send", "close"}
      BY KindsType, KindOfType DEF KindStates
    <3> QED BY <3>1, <1>6, TransferFrame DEF stdinVars
  <2>2. \A f \in Handlers :
          /\ hpc'[f] = "idle" <=> hpc[f] = "idle"
          /\ hpc[f] \in Shut <=> hpc'[f] \in Shut
          /\ OwnOutc(f)'
          /\ hpc[f] \in Over => hpc'[f] \in Over
    BY <1>1, <2>1 DEF Shut, OwnOutc
  <2>3. \A m \in cancel : Mc(m) \in Handlers /\ hpc'[Mc(m)] \in Over
    BY <1>1, <2>2
  <2> QED BY <2>1, <2>2, <2>3, <1>0, OwnedKept
<1> QED BY <1>2, <1>3, <1>4, <1>5, <1>6, <1>7 DEF Handler

-----------------------------------------------------------------------------
(* The theorems *)

LEMMA StreamInvariant == Spec => [](OneStream /\ Owned /\ NoPanic)
<1>1. Init => OneStream /\ Owned /\ NoPanic
  <2> SUFFICES ASSUME Init PROVE Owned /\ NoPanic BY InitOneStream
  <2>1. /\ \A h \in Handlers : hpc[h] = "idle" /\ ~init[h[1]]
        /\ closed = {} /\ cancel = {} /\ panic = "none"
        /\ \A h \in Handlers : outc[h] = NoChannel
    BY DEF Init
  <2>2. \A h \in Handlers : h = Mc(h[1]) => pc[h[1]] = "announce"
    <3> SUFFICES ASSUME NEW h \in Handlers, h = Mc(h[1]) PROVE pc[h[1]] = "announce"
      OBVIOUS
    <3>1. h[1] \in Modules /\ h[2] # 0 /\ h[2] = made[h[1]] BY DEF Mc
    <3>2. ~IsServer(h[1]) BY <3>1 DEF Init
    <3>3. h[1] \in Places /\ h[1] # 0 BY <3>1
    <3> QED BY <3>2, <3>3 DEF Init
  <2> QED BY <2>1, <2>2
          DEF Owned, Spawned, OwnStream, OwnOutc, ClosedByOwner, CancelByOwner,
              NoPanic
<1>2. TypeOK /\ OneStream /\ Owned /\ NoPanic /\ [Next \/ Stopped]_vars
        => (OneStream /\ Owned /\ NoPanic)'
  <2> SUFFICES ASSUME TypeOK, OneStream, Owned, NoPanic, Next \/ UNCHANGED vars
               PROVE  (OneStream /\ Owned /\ NoPanic)'
    BY DEF Stopped
  <2>1. CASE UNCHANGED vars
    BY <2>1 DEF vars, linkVars, loopVars, streamVars, stdinVars, OneStream, Received,
                Forwarding, Owned, Spawned, OwnStream, OwnOutc, ClosedByOwner, CancelByOwner,
                Mc, NoPanic
  <2>2. ASSUME NEW m \in Modules, Loop(m) PROVE (OneStream /\ Owned /\ NoPanic)'
    BY <2>2, LoopOneStream, LoopOwned DEF NoPanic
  <2>3. CASE RelayMessages
    <3>1. OneStream' BY <2>3, RelayOneStream
    <3>2. /\ UNCHANGED <<init, made, closed, hpc, outc, cancel, panic>>
          /\ \A m \in Modules : pc'[m] = pc[m]
      BY <2>3, RelayFrame, RelayPc DEF streamVars, stdinVars
    <3>3. \A h \in Handlers : h[1] \in Modules OBVIOUS
    <3>4. Owned'
      BY <3>2, <3>3 DEF Owned, Spawned, OwnStream, OwnOutc, ClosedByOwner,
                        CancelByOwner, Mc
    <3> QED BY <3>1, <3>2, <3>4 DEF NoPanic
  <2>4. ASSUME NEW h \in Handlers, Handler(h) PROVE (OneStream /\ Owned /\ NoPanic)'
    <3>1. UNCHANGED <<link, pc, init, made, held>>
      BY <2>4, HandlerFrame DEF linkVars, loopVars
    <3>2. OneStream' BY <3>1 DEF OneStream, Received, Forwarding
    <3> QED BY <2>4, <3>2, HandlerOwned DEF NoPanic
  <2> QED BY <2>1, <2>2, <2>3, <2>4 DEF Next
<1> QED BY <1>1, <1>2, TypeCorrect, PTL DEF Spec

(* The invariant the runs check is inductive together with what it names:  *)
(* it holds on every command line (upper.go:14-81, message.go:78-91).      *)
THEOREM InvariantHolds == Spec => []IInv
<1>1. /\ TypeOK /\ TerminateAhead /\ TerminateLast /\ Counted
      /\ OneStream /\ Owned
      => IInv
  BY DEF IInv, Owned
<1> QED BY <1>1, TypeCorrect, AlwaysAhead, AlwaysLast, AlwaysCounted,
           StreamInvariant, PTL

(* No goroutine of any command line without a server closes a channel      *)
(* twice or sends on a closed one (upper.go:28-81, stdin.go:94-111).       *)
THEOREM NeverPanics == Spec => []NoPanic
BY StreamInvariant, PTL

(* When a module of such a line closes its `out', its stream is closed and *)
(* its handler has returned (message.go:29, upper.go:42-47).               *)
THEOREM LeavesStreamsClosed == Spec => []ClosedBehind
<1>1. TypeOK /\ TerminateAhead /\ Counted /\ OneStream /\ Owned => ClosedBehind
  <2> SUFFICES ASSUME TypeOK, TerminateAhead, Counted, OneStream, Owned,
                      NEW m \in Modules, m \in linkClosed, NEW k \in 1..made[m]
               PROVE  <<m, k>> \in closed /\ hpc[<<m, k>>] \in {"idle", "done"}
    BY DEF ClosedBehind
  <2>1. pc[m] = "done"
    <3>1. m # 0 OBVIOUS
    <3> QED BY <3>1 DEF TerminateAhead
  <2>2. made[m] \in 0..MaxStreams /\ made[m] \in 0..1
    <3>1. made[m] = 0 \/ made[m] = 1 BY DEF OneStream
    <3>2. made[m] \in 0..MaxStreams BY DEF TypeOK
    <3> QED BY <3>1, <3>2
  <2>3. k = made[m] /\ <<m, k>> = Mc(m) /\ <<m, k>> \in Handlers
    BY <2>2, PipelineAssumption DEF Mc
  <2>4. hpc[<<m, k>>] \in {"idle", "done"}
    <3>1. wg[m] = {} BY <2>1 DEF Counted, Silent, HandlersDone
    <3>2. <<m, k>>[1] = m OBVIOUS
    <3> QED BY <3>1, <3>2, <2>3 DEF Counted
  <2>5. <<m, k>> \in closed
    BY <2>1, <2>3, <2>4 DEF Owned, ClosedByOwner
  <2> QED BY <2>4, <2>5
<1> QED BY <1>1, TypeCorrect, AlwaysAhead, AlwaysCounted, StreamInvariant, PTL

-----------------------------------------------------------------------------
(* A command line of stdin, any number of copying modules and stdout       *)
(* implements a byte stream: each payload is written once and in order,    *)
(* and the program is over only when all of them are.                      *)

(* The modules of the line, and their handlers *)

LEMMA LineKinds ==
  ASSUME IsCopyLine
  PROVE  /\ N \in Nat /\ N >= 2 /\ 1 \in Modules /\ N \in Modules
         /\ \A m \in Modules :
              /\ m \in Nat /\ m \in Places /\ m # Relay /\ m - 1 \in Places
              /\ ~IsServer(m)
              /\ The(m) \in Handlers /\ The(m)[1] = m
              /\ Before(m) \in Modules
              /\ ~Kind[m].byRef /\ ~Kind[m].reread /\ ~Kind[m].aside /\ ~Kind[m].early
              /\ Kind[m].end = {"close"}
              /\ Kind[m].enter = IF m = 1 THEN {"lock"} ELSE {"recv"}
              /\ Kind[m].take = IF m = N THEN {"recv"} ELSE {"send"}
              /\ Kind[m].sent = IF m = 1 THEN {"select"} ELSE {"recv"}
              /\ Kind[m].after = IF m = 1 THEN "drain" ELSE "finish"
              /\ Kind[m].role = "stdout" <=> m = N
              /\ Kind[m].role = "stdin" <=> m = 1
         /\ \A m, n \in Modules : The(m) = The(n) => m = n
<1>1. N \in Nat /\ N >= 2 /\ 1 \in Modules /\ N \in Modules /\ 1 # N
  BY PipelineAssumption DEF IsCopyLine
<1>2. ASSUME NEW m \in Modules
      PROVE  /\ m \in Nat /\ m \in Places /\ m # Relay /\ m - 1 \in Places
             /\ The(m) \in Handlers /\ The(m)[1] = m /\ Before(m) \in Modules
  BY <1>1, <1>2, PipelineAssumption DEF The, Before
<1>3. ASSUME NEW m \in Modules
      PROVE  \/ m = 1 /\ Kind[m] = Stdin
             \/ m = N /\ Kind[m] = Stdout
             \/ m # 1 /\ m # N /\ Kind[m] \in Copies
  <2>1. m = 1 \/ m = N \/ m \in 2..(N - 1) BY <1>1, <1>3
  <2> QED BY <1>1, <2>1 DEF IsCopyLine
<1>4. ASSUME NEW m \in Modules
      PROVE  /\ ~IsServer(m)
             /\ ~Kind[m].byRef /\ ~Kind[m].reread /\ ~Kind[m].aside /\ ~Kind[m].early
             /\ Kind[m].end = {"close"}
             /\ Kind[m].enter = IF m = 1 THEN {"lock"} ELSE {"recv"}
             /\ Kind[m].take = IF m = N THEN {"recv"} ELSE {"send"}
             /\ Kind[m].sent = IF m = 1 THEN {"select"} ELSE {"recv"}
             /\ Kind[m].after = IF m = 1 THEN "drain" ELSE "finish"
             /\ Kind[m].role = "stdout" <=> m = N
             /\ Kind[m].role = "stdin" <=> m = 1
  <2>1. CASE m = 1 /\ Kind[m] = Stdin
    BY <1>1, <2>1 DEF Stdin, Upper, IsServer
  <2>2. CASE m = N /\ Kind[m] = Stdout
    BY <1>1, <2>2 DEF Stdout, Upper, IsServer
  <2>3. CASE m # 1 /\ m # N /\ Kind[m] \in Copies
    BY <2>3 DEF Copies, Upper, Lower, HexEncode, IsServer
  <2> QED BY <1>3, <2>1, <2>2, <2>3
<1>5. \A m, n \in Modules : The(m) = The(n) => m = n BY DEF The
<1> HIDE DEF Modules, Places, Handlers, Relay
<1> QED BY <1>1, <1>2, <1>4, <1>5

(* A handler that runs is the one handler of its module. *)
LEMMA OnlyOne ==
  ASSUME IsCopyLine, IInv
  PROVE  /\ \A m \in Modules : /\ Mc(m) = The(m) /\ pc[m] # "newChannel"
                               /\ init[m] <=> hpc[The(m)] # "idle"
         /\ \A h \in Handlers : hpc[h] # "idle" => h[1] \in Modules /\ h = The(h[1])
<1>1. \A m \in Modules : Mc(m) = The(m) /\ pc[m] # "newChannel"
  <2>1. \A m \in Modules : ~IsServer(m) BY LineKinds
  <2>2. \A m \in Modules : made[m] = 1 /\ pc[m] # "newChannel"
    BY <2>1 DEF IInv, OneStream
  <2> QED BY <2>2 DEF Mc, The
<1>2. \A m \in Modules : init[m] <=> hpc[The(m)] # "idle"
  <2>1. \A m \in Modules : The(m) \in Handlers /\ The(m)[1] = m BY LineKinds
  <2> QED BY <1>1, <2>1 DEF IInv, Spawned
<1>3. \A h \in Handlers : hpc[h] # "idle" => h[1] \in Modules /\ h = The(h[1])
  BY <1>1, KindOfType DEF IInv, Spawned
<1> QED BY <1>1, <1>2, <1>3

(* A stream that is closed was closed by its handler. *)
LEMMA ClosedIsOver ==
  ASSUME IsCopyLine, IInv, ComesFirst, NEW m \in Modules, The(m) \in closed
  PROVE  hpc[The(m)] \in {"drain", "finish", "done"}
<1>1. ~(hpc[The(m)] = "idle" /\ pc[m] \notin {"announce", "loop"})
  BY OnlyOne DEF ComesFirst
<1> QED BY <1>1, LineKinds DEF IInv, ClosedByOwner

-----------------------------------------------------------------------------
(* The loops and RelayMessages *)

LEMMA ChannelKept ==
  ASSUME NEW q \in Seq(Messages)
  PROVE  /\ q # <<>> /\ Head(q) = Terminate /\ HasChannel(q) => HasChannel(Tail(q))
         /\ \A msg \in Messages : HasChannel(q) => HasChannel(Append(q, msg))
         /\ \A msg \in Messages : msg # Terminate => HasChannel(Append(q, msg))
<1>1. ASSUME q # <<>>, Head(q) = Terminate, HasChannel(q) PROVE HasChannel(Tail(q))
  <2>1. /\ Len(Tail(q)) = Len(q) - 1 /\ Len(q) \in Nat \ {0} /\ Head(q) = q[1]
        /\ \A i \in 1..(Len(q) - 1) : Tail(q)[i] = q[i + 1]
    BY <1>1
  <2>2. PICK i \in 1..Len(q) : q[i] # Terminate BY <1>1 DEF HasChannel
  <2>3. i - 1 \in 1..(Len(q) - 1) /\ (i - 1) + 1 = i BY <1>1, <2>1, <2>2
  <2> QED BY <2>1, <2>2, <2>3 DEF HasChannel
<1>2. ASSUME NEW msg \in Messages
      PROVE  /\ Len(Append(q, msg)) = Len(q) + 1 /\ Len(q) \in Nat
             /\ \A i \in 1..Len(q) : Append(q, msg)[i] = q[i]
             /\ Append(q, msg)[Len(q) + 1] = msg
  OBVIOUS
<1>3. ASSUME NEW msg \in Messages, HasChannel(q) PROVE HasChannel(Append(q, msg))
  BY <1>2, <1>3 DEF HasChannel
<1>4. ASSUME NEW msg \in Messages, msg # Terminate PROVE HasChannel(Append(q, msg))
  BY <1>2, <1>4 DEF HasChannel
<1> QED BY <1>1, <1>3, <1>4

(* What every loop finds when a Terminate or a MessageChannel comes *)
LEMMA Incoming ==
  ASSUME IsCopyLine, IInv, ComesFirst, NEW m \in Modules, link[m - 1] # <<>>
  PROVE  /\ Head(link[m - 1]) = Terminate => init[m]
         /\ Head(link[m - 1]) # Terminate => ~init[m] /\ HasChannel(link[m - 1])
<1>1. m - 1 \in Places /\ link[m - 1] \in Seq(Messages)
  BY LineKinds DEF IInv, TypeOK
<1>2. ASSUME Head(link[m - 1]) # Terminate
      PROVE  ~init[m] /\ HasChannel(link[m - 1])
  <2>1. HasChannel(link[m - 1]) BY <1>1, <1>2, TailOfOne
  <2>2. ~Received(m - 1) BY <1>1, <2>1 DEF IInv, OneStream
  <2>3. m - 1 # N /\ (m - 1) + 1 = m BY LineKinds
  <2> QED BY <2>1, <2>2, <2>3 DEF Received
<1>3. ASSUME Head(link[m - 1]) = Terminate PROVE init[m]
  <2>1. 1 \in 1..Len(link[m - 1]) /\ link[m - 1][1] = Terminate BY <1>1, <1>3
  <2>2. Finished(m - 1) /\ 1 = Len(link[m - 1])
    BY <1>1, <2>1 DEF IInv, TerminateLast, NothingBehind
  <2>3. ~HasChannel(link[m - 1]) BY <2>1, <2>2 DEF HasChannel
  <2>4. CASE m = 1
    <3>1. Finished(Relay) /\ ~HasChannel(link[Relay]) BY <2>2, <2>3, <2>4
    <3>2. Received(N) /\ ~Forwarding
      BY <3>1 DEF ComesFirst, RelayEnds, Forwarding, Finished
    <3> QED BY <3>1, <3>2, <2>4 DEF Received
  <2>5. CASE m # 1
    <3>1. m - 1 \in Modules /\ m - 1 # N /\ (m - 1) + 1 = m
      BY <2>5, LineKinds
    <3>2. Received(m - 1) BY <2>2, <2>3, <3>1 DEF ComesFirst, Finished
    <3> QED BY <3>1, <3>2 DEF Received
  <2> QED BY <2>4, <2>5
<1> QED BY <1>2, <1>3

(* What a loop does to a link, and to what is announced on it *)
Moves(m, l) ==
  \/ link'[l] = link[l]
  \/ link[l] # <<>> /\ link'[l] = Tail(link[l])
  \/ link'[l] = Append(link[l], Terminate)
  \/ l = m /\ link'[l] = Append(link[l], Channel(The(m)))
Keeps(m, l) ==
  HasChannel(link[l]) => HasChannel(link'[l]) \/ (l = m - 1 /\ init'[m])
Spawns(m) ==
  \/ hpc' = hpc /\ hin' = hin
  \/ /\ hpc[The(m)] = "idle"
     /\ hpc' = [hpc EXCEPT ![The(m)] = "start"]
     /\ hin' = [hin EXCEPT ![The(m)] = The(Before(m))]

LEMMA LoopMoves ==
  ASSUME IsCopyLine, IInv, RingOrder, ComesFirst, NEW m \in Modules, Loop(m)
  PROVE  /\ \A l \in Places : Moves(m, l) /\ Keeps(m, l)
         /\ \A n \in Modules : init[n] => init'[n]
         /\ pc[m] = "announce" => HasChannel(link'[m])
         /\ pc'[m] \notin {"announce", "loop"} => init'[m]
         /\ pc'[m] # "exited"
         /\ held' = held
         /\ Spawns(m)
<1>1. /\ m \in Places /\ m - 1 \in Places /\ m # m - 1 /\ m # 0
      /\ \A l \in Places : link[l] \in Seq(Messages)
  <2>1. m \in Places /\ m - 1 \in Places /\ m # m - 1 /\ m # 0 BY LineKinds
  <2> QED BY <2>1 DEF IInv, TypeOK
<1>2. /\ Mc(m) = The(m) /\ pc[m] # "newChannel" /\ (init[m] <=> hpc[The(m)] # "idle")
      /\ The(m) \in Handlers
  BY OnlyOne, LineKinds
<1>3. Channel(The(m)) \in Messages /\ Terminate \in Messages /\ Channel(The(m)) # Terminate
  BY <1>2, MessageType, ChannelIsNotTerminate
<1>4. pc[m] \notin {"announce", "loop"} => init[m] BY DEF ComesFirst
<1>5. ASSUME NEW state, GoTo(m, state) PROVE pc'[m] = state
  BY <1>1, <1>5 DEF GoTo, IInv, TypeOK
<1>6. ASSUME NEW l \in Places, NEW msg \in {Terminate, Channel(The(m))}, Send(l, msg)
      PROVE  /\ link'[l] = Append(link[l], msg)
             /\ \A k \in Places \ {l} : link'[k] = link[k]
  BY <1>6 DEF Send, IInv, TypeOK
<1>7. ASSUME Receive(m - 1)
      PROVE  /\ link[m - 1] # <<>> /\ link'[m - 1] = Tail(link[m - 1])
             /\ \A k \in Places \ {m - 1} : link'[k] = link[k]
  BY <1>1, <1>7 DEF Receive, Pending, IInv, TypeOK
<1>8. ASSUME UNCHANGED link PROVE \A l \in Places : Moves(m, l) /\ Keeps(m, l)
  BY <1>8 DEF Moves, Keeps
<1>9. ASSUME Receive(m - 1), Head(link[m - 1]) = Terminate \/ init'[m]
      PROVE  \A l \in Places : Moves(m, l) /\ Keeps(m, l)
  BY <1>1, <1>7, <1>9, ChannelKept DEF Moves, Keeps
<1>10. ASSUME Send(m, Terminate) PROVE \A l \in Places : Moves(m, l) /\ Keeps(m, l)
  BY <1>1, <1>3, <1>6, <1>10, ChannelKept DEF Moves, Keeps
<1>11. ASSUME Send(m, Channel(The(m)))
       PROVE  /\ \A l \in Places : Moves(m, l) /\ Keeps(m, l)
              /\ HasChannel(link'[m])
  BY <1>1, <1>3, <1>6, <1>11, ChannelKept DEF Moves, Keeps
<1>12. CASE Announce(m)
  <2>1. /\ Send(m, Channel(The(m))) /\ pc'[m] = "loop"
        /\ UNCHANGED <<init, held, hpc, hin>>
    BY <1>2, <1>5, <1>12 DEF Announce, streamVars
  <2> QED BY <1>11, <2>1 DEF Spawns
<1>13. CASE RecvTerminate(m)
  <2>1. Receive(m - 1) /\ Head(link[m - 1]) = Terminate
    BY <1>13 DEF RecvTerminate
  <2>2. pc[m] = "loop" /\ pc'[m] = "join" /\ UNCHANGED <<init, held, hpc, hin>>
    BY <1>5, <1>13 DEF RecvTerminate, streamVars
  <2>3. init[m] BY <2>1, Incoming DEF Receive, Pending
  <2> QED BY <1>9, <2>1, <2>2, <2>3 DEF Spawns
<1>14. CASE RecvFirstChannel(m)
  <2>1. init'[m] /\ \A n \in Modules : init[n] => init'[n]
    BY <1>14 DEF RecvFirstChannel, IInv, TypeOK
  <2>2. /\ pc[m] = "loop" /\ ~init[m] /\ held' = held
        /\ Receive(m - 1) /\ Head(link[m - 1]) # Terminate
        /\ pc'[m] \in {"join", "loop"}
    BY <1>5, <1>14 DEF RecvFirstChannel, Spawn, AfterSpawn
  <2>3. Head(link[m - 1]) = Channel(The(Before(m)))
    <3>1. Head(link[m - 1]) = link[m - 1][1] /\ 1 \in 1..Len(link[m - 1])
      BY <1>1, <2>2 DEF Receive, Pending
    <3>2. Before(m) = IF m - 1 = Relay THEN N ELSE m - 1
      BY LineKinds DEF Before
    <3> QED BY <1>1, <2>2, <3>1, <3>2 DEF RingOrder
  <2>4. Head(link[m - 1]).mc = The(Before(m)) BY <2>3 DEF Channel
  <2>5. /\ hpc[The(m)] = "idle"
        /\ hpc' = [hpc EXCEPT ![The(m)] = "start"]
        /\ hin' = [hin EXCEPT ![The(m)] = The(Before(m))]
    BY <1>2, <1>14, <2>4 DEF RecvFirstChannel, Spawn
  <2>6. \A l \in Places : Moves(m, l) /\ Keeps(m, l)
    BY <1>9, <2>1, <2>2
  <2> QED BY <2>1, <2>2, <2>5, <2>6 DEF Spawns
<1>15. ~RecvNextChannel(m)
  BY <1>1, Incoming DEF RecvNextChannel, Receive, Pending
<1>16. ~AnnounceNext(m) BY <1>2 DEF AnnounceNext
<1>17. CASE Cancelled(m)
  <2>1. init[m]
    BY <1>2, <1>17 DEF Cancelled, IInv, CancelByOwner
  <2>2. pc[m] = "loop" /\ pc'[m] = "join" /\ UNCHANGED <<link, init, held, hpc, hin>>
    BY <1>5, <1>17 DEF Cancelled, linkVars, streamVars
  <2> QED BY <1>8, <2>1, <2>2 DEF Spawns
<1>18. CASE Join(m, "join", "terminate") \/ Join(m, "drain", "last")
  <2>1. /\ pc[m] \in {"join", "drain"} /\ pc'[m] \in {"terminate", "last"}
        /\ UNCHANGED <<link, init, held, hpc, hin>>
    BY <1>5, <1>18 DEF Join, linkVars, streamVars
  <2> QED BY <1>4, <1>8, <2>1 DEF Spawns
<1>19. CASE SendTerminate(m, "drain")
  <2>1. /\ pc[m] = "terminate" /\ pc'[m] = "drain" /\ Send(m, Terminate)
        /\ UNCHANGED <<init, held, hpc, hin>>
    BY <1>5, <1>19 DEF SendTerminate, streamVars
  <2> QED BY <1>4, <1>10, <2>1 DEF Spawns
<1>20. CASE Last(m, m - 1)
  <2>1. /\ pc[m] = "last" /\ pc'[m] = "close"
        /\ Receive(m - 1) \/ UNCHANGED link
        /\ UNCHANGED <<init, held, hpc, hin>>
    BY <1>5, <1>20 DEF Last, streamVars
  <2>2. init'[m] BY <1>4, <2>1
  <2>3. \A l \in Places : Moves(m, l) /\ Keeps(m, l)
    BY <1>8, <1>9, <2>1, <2>2
  <2> QED BY <1>4, <2>1, <2>3 DEF Spawns
<1>21. CASE CloseOut(m, "done")
  <2>1. pc[m] = "close" /\ pc'[m] = "done" /\ UNCHANGED <<link, init, held, hpc, hin>>
    BY <1>5, <1>21 DEF CloseOut, streamVars
  <2> QED BY <1>4, <1>8, <2>1 DEF Spawns
<1> QED
  BY <1>12, <1>13, <1>14, <1>15, <1>16, <1>17, <1>18, <1>19, <1>20, <1>21 DEF Loop

LEMMA CarriedOn ==
  ASSUME NEW q \in Seq(Messages), NEW c,
         \A i \in 1..Len(q) : q[i] # Terminate => q[i] = c
  PROVE  /\ q # <<>> => \A i \in 1..Len(Tail(q)) :
                          Tail(q)[i] # Terminate => Tail(q)[i] = c
         /\ \A msg \in Messages : msg \in {Terminate, c} =>
              \A i \in 1..Len(Append(q, msg)) :
                Append(q, msg)[i] # Terminate => Append(q, msg)[i] = c
<1>1. ASSUME q # <<>>, NEW i \in 1..Len(Tail(q)), Tail(q)[i] # Terminate
      PROVE  Tail(q)[i] = c
  <2>1. i + 1 \in 1..Len(q) /\ Tail(q)[i] = q[i + 1] BY <1>1
  <2> QED BY <1>1, <2>1
<1>2. ASSUME NEW msg \in Messages, msg \in {Terminate, c},
             NEW i \in 1..Len(Append(q, msg)), Append(q, msg)[i] # Terminate
      PROVE  Append(q, msg)[i] = c
  <2>1. /\ Len(Append(q, msg)) = Len(q) + 1 /\ Len(q) \in Nat
        /\ \A k \in 1..Len(q) : Append(q, msg)[k] = q[k]
        /\ Append(q, msg)[Len(q) + 1] = msg
    OBVIOUS
  <2>2. i \in 1..Len(q) \/ i = Len(q) + 1 BY <2>1
  <2> QED BY <1>2, <2>1, <2>2
<1> QED BY <1>1, <1>2

LEMMA LoopRing ==
  ASSUME IsCopyLine, IInv, RingOrder, ComesFirst, NEW m \in Modules, Loop(m)
  PROVE  RingOrder'
<1>1. m \in Places /\ m # Relay /\ Relay \in Places /\ Relay = 0 /\ The(m) \in Handlers
  BY LineKinds
<1>2. ASSUME NEW l \in Places
      PROVE  \A i \in 1..Len(link'[l]) :
               link'[l][i] # Terminate =>
                 link'[l][i] = Channel(The(IF l = Relay THEN N ELSE l))
  <2> DEFINE c == Channel(The(IF l = Relay THEN N ELSE l))
  <2>1. link[l] \in Seq(Messages) BY DEF IInv, TypeOK
  <2>2. \A i \in 1..Len(link[l]) : link[l][i] # Terminate => link[l][i] = c
    BY DEF RingOrder
  <2>3. l = m => Channel(The(m)) = c BY <1>1
  <2>4. Channel(The(m)) \in Messages /\ Terminate \in Messages
    BY <1>1, MessageType
  <2>5. Moves(m, l) BY LoopMoves
  <2> HIDE DEF c
  <2>6. \A i \in 1..Len(link'[l]) : link'[l][i] # Terminate => link'[l][i] = c
    <3>1. CASE link'[l] = link[l] BY <2>2, <3>1
    <3>2. CASE link[l] # <<>> /\ link'[l] = Tail(link[l])
      BY <2>1, <2>2, <3>2, CarriedOn
    <3>3. CASE link'[l] = Append(link[l], Terminate)
      BY <2>1, <2>2, <2>4, <3>3, CarriedOn
    <3>4. CASE l = m /\ link'[l] = Append(link[l], Channel(The(m)))
      BY <2>1, <2>2, <2>3, <2>4, <3>4, CarriedOn
    <3> QED BY <2>5, <3>1, <3>2, <3>3, <3>4 DEF Moves
  <2> QED BY <2>6 DEF c
<1>3. Forwarding' => held'[Relay] = Channel(The(N))
  <2>1. pc'[Relay] = pc[Relay] BY <1>1, LoopFrame DEF IInv
  <2>2. held' = held BY LoopMoves
  <2> QED BY <2>1, <2>2 DEF Forwarding, RingOrder
<1>4. ASSUME NEW n \in Modules, hpc'[The(n)] # "idle"
      PROVE  hin'[The(n)] = The(Before(n))
  <2>1. The(n) \in Handlers /\ (The(n) = The(m) => n = m) BY LineKinds
  <2>2. CASE hpc' = hpc /\ hin' = hin BY <1>4, <2>2 DEF RingOrder
  <2>3. CASE /\ hpc' = [hpc EXCEPT ![The(m)] = "start"]
             /\ hin' = [hin EXCEPT ![The(m)] = The(Before(m))]
    <3>1. CASE n = m BY <1>1, <2>3, <3>1 DEF IInv, TypeOK
    <3>2. CASE n # m
      <4>1. hpc'[The(n)] = hpc[The(n)] /\ hin'[The(n)] = hin[The(n)]
        BY <2>1, <2>3, <3>2 DEF IInv, TypeOK
      <4> QED BY <1>4, <4>1 DEF RingOrder
    <3> QED BY <3>1, <3>2
  <2> QED BY <2>2, <2>3, LoopMoves DEF Spawns
<1> QED BY <1>2, <1>3, <1>4 DEF RingOrder

LEMMA LoopComesFirst ==
  ASSUME IsCopyLine, IInv, RingOrder, ComesFirst, NEW m \in Modules, Loop(m)
  PROVE  ComesFirst'
<1>1. /\ Relay \in Places /\ Relay = 0 /\ Relay # m /\ 1 \in Modules
      /\ \A n \in Modules : n \in Places /\ n \in Nat
      /\ \A n \in Modules : n # N => n + 1 \in Modules
      /\ m - 1 # N /\ (m - 1) + 1 = m
  BY LineKinds
<1>2. \A p \in Places \ {m} : pc'[p] = pc[p] BY LoopFrame DEF IInv
<1>3. /\ \A l \in Places : Keeps(m, l)
      /\ \A n \in Modules : init[n] => init'[n]
      /\ pc[m] = "announce" => HasChannel(link'[m])
      /\ pc'[m] \notin {"announce", "loop"} => init'[m]
      /\ pc'[m] # "exited"
      /\ held' = held
      /\ Spawns(m)
  BY LoopMoves
<1>4. Forwarding' = Forwarding /\ RelayEnds' = RelayEnds
  BY <1>1, <1>2, <1>3 DEF Forwarding, RelayEnds, Finished
<1>5. ASSUME NEW n \in Modules, Received(n) PROVE Received(n)'
  <2>1. CASE n = N
    <3>1. HasChannel(link[Relay]) => HasChannel(link'[Relay]) \/ init'[1]
      BY <1>1, <1>3 DEF Keeps
    <3> QED BY <1>1, <1>3, <1>4, <1>5, <2>1, <3>1 DEF Received
  <2>2. CASE n # N BY <1>1, <1>3, <1>5, <2>2 DEF Received
  <2> QED BY <2>1, <2>2
<1>6. ASSUME NEW n \in Modules, HasChannel(link[n])
      PROVE  HasChannel(link'[n]) \/ Received(n)'
  <2>1. HasChannel(link'[n]) \/ (n = m - 1 /\ init'[m])
    BY <1>1, <1>3, <1>6 DEF Keeps
  <2> QED BY <1>1, <2>1 DEF Received
<1>7. ASSUME NEW n \in Modules, pc'[n] # "announce"
      PROVE  HasChannel(link'[n]) \/ Received(n)'
  <2>1. n # m => pc'[n] = pc[n] BY <1>1, <1>2
  <2>2. CASE pc[n] = "announce" BY <1>3, <1>7, <2>1, <2>2
  <2>3. CASE pc[n] # "announce" BY <1>5, <1>6, <2>3 DEF ComesFirst
  <2> QED BY <2>2, <2>3
<1>8. ASSUME NEW n \in Modules, pc'[n] \notin {"announce", "loop"}
      PROVE  init'[n]
  <2>1. n # m => pc'[n] = pc[n] BY <1>1, <1>2
  <2> QED BY <1>3, <1>8, <2>1 DEF ComesFirst
<1>9. RelayEnds' => Received(N)' /\ hpc'[The(N)] = "done"
  <2> SUFFICES ASSUME RelayEnds PROVE Received(N)' /\ hpc'[The(N)] = "done"
    BY <1>4
  <2>1. Received(N) /\ hpc[The(N)] = "done" BY DEF ComesFirst
  <2>2. N \in Modules /\ The(N) \in Handlers BY LineKinds
  <2>3. hpc'[The(N)] = "done"
    BY <1>3, <2>1, <2>2 DEF Spawns, IInv, TypeOK
  <2> QED BY <1>5, <2>1, <2>2, <2>3
<1>10. ASSUME NEW n \in Modules, Finished(n)' PROVE Silent(n)'
  <2>1. n # m => pc'[n] = pc[n] BY <1>1, <1>2
  <2>2. n # m => Finished(n) /\ Silent(n) BY <1>10, <2>1 DEF Finished, ComesFirst
  <2> QED BY <1>3, <1>10, <2>1, <2>2 DEF Finished, Silent
<1> QED BY <1>7, <1>8, <1>9, <1>10 DEF ComesFirst

LEMMA LoopHandlers ==
  ASSUME IsCopyLine, IInv, RingOrder, ComesFirst, OverInTurn, InFlight,
         NEW m \in Modules, Loop(m)
  PROVE  OverInTurn' /\ InFlight'
<1>1. UNCHANGED <<buf, draining, datac, written>>
  BY LoopFrame DEF IInv, stdinVars
<1>2. \A n \in Modules : \/ hpc'[The(n)] = hpc[The(n)]
                         \/ hpc[The(n)] = "idle" /\ hpc'[The(n)] = "start"
  <2>1. The(m) \in Handlers /\ \A n \in Modules : The(n) \in Handlers
    BY LineKinds
  <2>2. Spawns(m) BY LoopMoves
  <2>3. CASE hpc' = hpc BY <2>3
  <2>4. CASE hpc[The(m)] = "idle" /\ hpc' = [hpc EXCEPT ![The(m)] = "start"]
    BY <2>1, <2>4 DEF IInv, TypeOK
  <2> QED BY <2>2, <2>3, <2>4 DEF Spawns
<1>3. \A n \in Modules : n \in Nat /\ \A k \in 1..(n - 1) : k \in Modules
  BY LineKinds
<1>4. 1 \in Modules BY LineKinds
<1>5. \A n \in Modules : StatesAt(n)' = StatesAt(n) /\ "start" \in StatesAt(n)
  BY DEF StatesAt
<1>6. OverInTurn' BY <1>1, <1>2, <1>3, <1>4, <1>5 DEF OverInTurn
<1>7. \A n \in Modules : Holds(n)' = Holds(n) BY <1>2 DEF Holds
<1> QED BY <1>1, <1>6, <1>7 DEF InFlight, InHands

LEMMA RelayRing ==
  ASSUME IsCopyLine, IInv, RingOrder, RelayMessages
  PROVE  RingOrder'
<1>1. /\ Relay \in Places /\ N \in Places /\ N # Relay /\ N \in Modules
      /\ link[Relay] \in Seq(Messages) /\ link[N] \in Seq(Messages)
      /\ held[Relay] \in Messages
  <2>1. Relay \in Places /\ N \in Places /\ N # Relay /\ N \in Modules
    BY LineKinds
  <2> QED BY <2>1 DEF IInv, TypeOK
<1>2. UNCHANGED <<hpc, hin>> BY RelayFrame DEF streamVars
<1> DEFINE Carries(q, c) == \A i \in 1..Len(q) : q[i] # Terminate => q[i] = c
<1>3. /\ Carries(link[Relay], Channel(The(N))) /\ Carries(link[N], Channel(The(N)))
      /\ Forwarding => held[Relay] = Channel(The(N))
  BY <1>1 DEF RingOrder
<1>4. ASSUME \A l \in Places \ {Relay, N} : link'[l] = link[l],
             Carries(link'[Relay], Channel(The(N))),
             Carries(link'[N], Channel(The(N))),
             Forwarding' => held'[Relay] = Channel(The(N))
      PROVE  RingOrder'
  <2>1. ASSUME NEW l \in Places
        PROVE  Carries(link'[l], Channel(The(IF l = Relay THEN N ELSE l)))
    <3>1. CASE l = Relay \/ l = N BY <1>1, <1>4, <3>1
    <3>2. CASE l \notin {Relay, N} BY <1>4, <3>2 DEF RingOrder
    <3> QED BY <3>1, <3>2
  <2> QED BY <1>2, <1>4, <2>1 DEF RingOrder
<1>5. link[N] # <<>> => Carries(Tail(link[N]), Channel(The(N)))
  BY <1>1, <1>3, CarriedOn
<1>6. held[Relay] \in {Terminate, Channel(The(N))} =>
        Carries(Append(link[Relay], held[Relay]), Channel(The(N)))
  BY <1>1, <1>3, CarriedOn
<1>7. link[N] # <<>> => Head(link[N]) \in {Terminate, Channel(The(N))}
  <2>1. link[N] # <<>> => Head(link[N]) = link[N][1] /\ 1 \in 1..Len(link[N])
    BY <1>1
  <2> QED BY <1>3, <2>1
<1> HIDE DEF Carries
<1>8. CASE RelayRecv
  <2>1. /\ link[N] # <<>> /\ link'[N] = Tail(link[N])
        /\ \A l \in Places \ {N} : link'[l] = link[l]
        /\ held'[Relay] = Head(link[N])
    BY <1>1, <1>8 DEF RelayRecv, Receive, Pending, IInv, TypeOK
  <2>2. Forwarding' => held'[Relay] = Channel(The(N))
    BY <1>7, <2>1 DEF Forwarding
  <2> QED BY <1>1, <1>3, <1>4, <1>5, <2>1, <2>2
<1>9. CASE RelayForward
  <2>1. /\ pc[Relay] = "forward" /\ pc'[Relay] # "forward"
        /\ link'[Relay] = Append(link[Relay], held[Relay])
        /\ \A l \in Places \ {Relay} : link'[l] = link[l]
    BY <1>1, <1>9 DEF RelayForward, Send, GoTo, IInv, TypeOK
  <2>2. held[Relay] \in {Terminate, Channel(The(N))}
    BY <1>3, <2>1 DEF Forwarding
  <2>3. ~Forwarding' BY <2>1 DEF Forwarding
  <2> QED BY <1>1, <1>3, <1>4, <1>6, <2>1, <2>2, <2>3
<1>10. CASE Last(Relay, N) \/ CloseOut(Relay, "exited")
  <2>1. /\ pc'[Relay] # "forward"
        /\ \/ link' = link
           \/ /\ link[N] # <<>> /\ link'[N] = Tail(link[N])
              /\ \A l \in Places \ {N} : link'[l] = link[l]
    BY <1>1, <1>10
       DEF Last, CloseOut, Receive, Pending, GoTo, IInv, TypeOK
  <2>2. ~Forwarding' BY <2>1 DEF Forwarding
  <2> QED BY <1>1, <1>3, <1>4, <1>5, <2>1, <2>2
<1> QED BY <1>8, <1>9, <1>10 DEF RelayMessages

LEMMA RelayComesFirst ==
  ASSUME IsCopyLine, IInv, ComesFirst, RelayMessages
  PROVE  ComesFirst'
<1>1. /\ Relay \in Places /\ N \in Places /\ N # Relay /\ N \in Modules
      /\ The(N) \in Handlers /\ The(N)[1] = N
      /\ \A n \in Modules : n \in Places /\ n # Relay
      /\ link[Relay] \in Seq(Messages) /\ link[N] \in Seq(Messages)
      /\ held[Relay] \in Messages /\ Terminate \in Messages
  <2>1. /\ Relay \in Places /\ N \in Places /\ N # Relay /\ N \in Modules
        /\ The(N) \in Handlers /\ The(N)[1] = N
        /\ \A n \in Modules : n \in Places /\ n # Relay
    BY LineKinds
  <2> QED BY <2>1, MessageType DEF IInv, TypeOK
<1>2. UNCHANGED <<hpc, init>> /\ \A n \in Modules : pc'[n] = pc[n]
  BY RelayFrame, RelayPc DEF IInv
<1>3. ASSUME \A n \in Modules \ {N} : link'[n] = link[n],
             Received(N) => Received(N)',
             HasChannel(link[N]) => HasChannel(link'[N]) \/ Received(N)',
             RelayEnds' => Received(N)' /\ hpc[The(N)] = "done"
      PROVE  ComesFirst'
  <2>1. \A n \in Modules \ {N} : Received(n)' = Received(n)
    BY <1>2 DEF Received
  <2>2. \A n \in Modules : pc'[n] # "announce" => HasChannel(link'[n]) \/ Received(n)'
    BY <1>2, <1>3, <2>1 DEF ComesFirst
  <2>3. \A n \in Modules : Finished(n)' => Silent(n)'
    BY <1>2 DEF ComesFirst, Finished, Silent
  <2> QED BY <1>2, <1>3, <2>2, <2>3 DEF ComesFirst
<1>4. ASSUME NEW state, GoTo(Relay, state) PROVE pc'[Relay] = state
  BY <1>1, <1>4 DEF GoTo, IInv, TypeOK
<1>5. CASE RelayRecv
  <2>1. /\ link[N] # <<>> /\ link'[N] = Tail(link[N])
        /\ \A l \in Places \ {N} : link'[l] = link[l]
        /\ held'[Relay] = Head(link[N])
    BY <1>1, <1>5 DEF RelayRecv, Receive, Pending, IInv, TypeOK
  <2>2. pc[Relay] = "loop" /\ pc'[Relay] = "forward"
    BY <1>4, <1>5 DEF RelayRecv
  <2>3. Received(N) => Received(N)'
    BY <1>1, <1>2, <2>1, <2>2 DEF Received, Forwarding
  <2>4. CASE Head(link[N]) = Terminate
    <3>1. link[N][1] = Terminate /\ 1 \in 1..Len(link[N]) BY <1>1, <2>1, <2>4
    <3>2. Finished(N) /\ 1 = Len(link[N])
      BY <1>1, <3>1 DEF IInv, TerminateLast, NothingBehind
    <3>3. ~HasChannel(link[N]) BY <3>1, <3>2 DEF HasChannel
    <3>4. Received(N) /\ Silent(N) /\ init[N]
      BY <1>1, <3>2, <3>3 DEF ComesFirst, Finished
    <3>5. wg[N] = {} BY <1>1, <3>4 DEF IInv, Counted, HandlersDone
    <3>6. hpc[The(N)] # "idle" BY <1>1, <3>4, OnlyOne
    <3>7. hpc[The(N)] = "done" BY <1>1, <3>5, <3>6 DEF IInv, Counted
    <3>8. \A n \in Modules \ {N} : link'[n] = link[n] BY <1>1, <2>1
    <3> QED BY <1>3, <2>3, <3>3, <3>4, <3>7, <3>8
  <2>5. CASE Head(link[N]) # Terminate
    <3>1. Forwarding' /\ ~RelayEnds'
      BY <2>1, <2>2, <2>5 DEF Forwarding, RelayEnds, Finished
    <3>2. Received(N)' BY <3>1 DEF Received
    <3>3. \A n \in Modules \ {N} : link'[n] = link[n] BY <1>1, <2>1
    <3> QED BY <1>3, <3>1, <3>2, <3>3
  <2> QED BY <2>4, <2>5
<1>6. CASE RelayForward
  <2>1. /\ link'[Relay] = Append(link[Relay], held[Relay])
        /\ \A l \in Places \ {Relay} : link'[l] = link[l]
    BY <1>1, <1>6 DEF RelayForward, Send, IInv, TypeOK
  <2>2. /\ pc[Relay] = "forward" /\ held' = held
        /\ pc'[Relay] = IF held[Relay] = Terminate THEN "last" ELSE "loop"
    BY <1>4, <1>6 DEF RelayForward
  <2>3. HasChannel(link[Relay]) \/ held[Relay] # Terminate => HasChannel(link'[Relay])
    BY <1>1, <2>1, ChannelKept
  <2>4. Received(N) => Received(N)'
    BY <1>2, <2>3 DEF Received, Forwarding
  <2>5. RelayEnds' => RelayEnds BY <2>2 DEF RelayEnds, Finished
  <2>6. RelayEnds' => Received(N)' /\ hpc[The(N)] = "done"
    BY <2>4, <2>5 DEF ComesFirst
  <2>7. (\A n \in Modules \ {N} : link'[n] = link[n]) /\ link'[N] = link[N]
    BY <1>1, <2>1
  <2> QED BY <1>3, <2>4, <2>6, <2>7
<1>7. CASE Last(Relay, N) \/ CloseOut(Relay, "exited")
  <2>1. pc[Relay] \in {"last", "close"} /\ held' = held
    BY <1>7 DEF Last, CloseOut
  <2>2. \A l \in Places \ {N} : link'[l] = link[l]
    BY <1>1, <1>7 DEF Last, CloseOut, Receive, IInv, TypeOK
  <2>3. Received(N) /\ hpc[The(N)] = "done"
    BY <2>1 DEF ComesFirst, RelayEnds, Finished
  <2>4. ~HasChannel(link[N]) BY <1>1, <2>3 DEF IInv, OneStream
  <2>5. ~Forwarding BY <2>1 DEF Forwarding
  <2>6. Received(N)' BY <1>1, <1>2, <2>2, <2>3, <2>5 DEF Received
  <2>7. \A n \in Modules \ {N} : link'[n] = link[n] BY <1>1, <2>2
  <2> QED BY <1>3, <2>3, <2>4, <2>6, <2>7
<1> QED BY <1>5, <1>6, <1>7 DEF RelayMessages

-----------------------------------------------------------------------------
(* The payloads on their way: what a step does to those in hand *)

(* No payload changes hands. *)
LEMMA HandsKept ==
  ASSUME NEW out \in Nat, NEW in \in Nat, InHands(out, in),
         \A n \in Modules : /\ Holds(n)' = Holds(n)
                            /\ Holds(n) => buf'[The(n)] = buf[The(n)]
  PROVE  InHands(out, in)'
BY DEF InHands

(* The first module reads one more. *)
LEMMA HandsFilled ==
  ASSUME NEW out \in Nat, NEW in \in Nat, InHands(out, in),
         1 \in Modules, Holds(1)', ~Holds(1), buf'[The(1)] = in + 1,
         \A n \in Modules \ {1} : Holds(n)' = Holds(n) /\ buf'[The(n)] = buf[The(n)]
  PROVE  InHands(out, in + 1)'
<1>1. \A n \in Modules : n \in Nat /\ n >= 1 BY PipelineAssumption
<1>2. \A n \in Modules : Holds(n) => buf[The(n)] \in (out + 1)..in
  BY DEF InHands
<1>3. \A n \in Modules : Holds(n)' => buf'[The(n)] \in (out + 1)..(in + 1)
  <2> SUFFICES ASSUME NEW n \in Modules, Holds(n)'
               PROVE  buf'[The(n)] \in (out + 1)..(in + 1)
    OBVIOUS
  <2>1. CASE n = 1 BY <2>1 DEF InHands
  <2>2. CASE n # 1 BY <1>2, <2>2
  <2> QED BY <2>1, <2>2
<1>4. \A i, j \in Modules : Holds(i)' /\ Holds(j)' /\ i < j => buf'[The(j)] < buf'[The(i)]
  <2> SUFFICES ASSUME NEW i \in Modules, NEW j \in Modules,
                      Holds(i)', Holds(j)', i < j
               PROVE  buf'[The(j)] < buf'[The(i)]
    OBVIOUS
  <2>1. j # 1 BY <1>1
  <2>2. Holds(j) /\ buf'[The(j)] = buf[The(j)] BY <2>1
  <2>3. CASE i = 1 BY <1>2, <2>2, <2>3
  <2>4. CASE i # 1 BY <2>2, <2>4 DEF InHands
  <2> QED BY <2>3, <2>4
<1>5. ASSUME NEW p \in (out + 1)..(in + 1)
      PROVE  \E n \in Modules : Holds(n)' /\ buf'[The(n)] = p
  <2>1. CASE p = in + 1 BY <2>1
  <2>2. CASE p # in + 1
    <3>1. p \in (out + 1)..in BY <2>2
    <3>2. PICK n \in Modules : Holds(n) /\ buf[The(n)] = p BY <3>1 DEF InHands
    <3> QED BY <3>2
  <2> QED BY <2>1, <2>2
<1>6. out <= in + 1 BY DEF InHands
<1> QED BY <1>3, <1>4, <1>5, <1>6 DEF InHands

(* A module hands its payload to the next one. *)
LEMMA HandsMoved ==
  ASSUME NEW out \in Nat, NEW in \in Nat, InHands(out, in),
         NEW m \in Modules, m - 1 \in Modules,
         Holds(m - 1), ~Holds(m), ~Holds(m - 1)', Holds(m)',
         buf'[The(m)] = buf[The(m - 1)],
         \A n \in Modules \ {m - 1, m} :
           Holds(n)' = Holds(n) /\ buf'[The(n)] = buf[The(n)]
  PROVE  InHands(out, in)'
<1>1. \A n \in Modules : n \in Nat BY PipelineAssumption
<1>2. \A n \in Modules : Holds(n)' <=> (n = m \/ (n # m - 1 /\ Holds(n)))
  OBVIOUS
<1>3. \A n \in Modules : Holds(n)' => buf'[The(n)] \in (out + 1)..in
  BY <1>2 DEF InHands
<1>4. \A i, j \in Modules : Holds(i)' /\ Holds(j)' /\ i < j => buf'[The(j)] < buf'[The(i)]
  <2> SUFFICES ASSUME NEW i \in Modules, NEW j \in Modules,
                      Holds(i)', Holds(j)', i < j
               PROVE  buf'[The(j)] < buf'[The(i)]
    OBVIOUS
  <2>1. CASE i = m
    <3>1. j # m /\ j # m - 1 /\ m - 1 < j BY <1>1, <2>1
    <3> QED BY <1>2, <2>1, <3>1 DEF InHands
  <2>2. CASE j = m
    <3>1. i # m /\ i # m - 1 BY <1>1, <1>2, <2>2
    <3>2. i < m - 1 BY <1>1, <2>2, <3>1
    <3> QED BY <1>2, <2>2, <3>1, <3>2 DEF InHands
  <2>3. CASE i # m /\ j # m BY <1>2, <2>3 DEF InHands
  <2> QED BY <2>1, <2>2, <2>3
<1>5. ASSUME NEW p \in (out + 1)..in
      PROVE  \E n \in Modules : Holds(n)' /\ buf'[The(n)] = p
  <2>1. PICK n \in Modules : Holds(n) /\ buf[The(n)] = p BY DEF InHands
  <2>2. CASE n = m - 1 BY <1>2, <2>1, <2>2
  <2>3. CASE n # m - 1
    <3>1. n # m BY <2>1
    <3> QED BY <1>2, <2>1, <2>3, <3>1
  <2> QED BY <2>2, <2>3
<1> QED BY <1>3, <1>4, <1>5 DEF InHands

(* The module farthest down the line lets go of the oldest one. *)
LEMMA HandsEmptied ==
  ASSUME NEW out \in Nat, NEW in \in Nat, InHands(out, in),
         NEW k \in Modules, Holds(k), \A n \in Modules : Holds(n) => n <= k,
         ~Holds(k)',
         \A n \in Modules \ {k} : /\ Holds(n)' = Holds(n)
                                  /\ Holds(n) => buf'[The(n)] = buf[The(n)]
  PROVE  /\ buf[The(k)] = out + 1 /\ out + 1 <= in
         /\ InHands(out + 1, in)'
<1>1. \A n \in Modules : n \in Nat BY PipelineAssumption
<1>2. buf[The(k)] \in (out + 1)..in BY DEF InHands
<1>3. ASSUME NEW n \in Modules, Holds(n), n # k
      PROVE  buf[The(k)] < buf[The(n)] /\ buf[The(n)] \in (out + 1)..in
  <2>1. n < k BY <1>1, <1>3
  <2> QED BY <1>3, <2>1 DEF InHands
<1>4. out + 1 \in (out + 1)..in BY <1>2
<1>5. \E n \in Modules : Holds(n) /\ buf[The(n)] = out + 1
  BY <1>4 DEF InHands
<1>6. buf[The(k)] = out + 1 BY <1>2, <1>3, <1>5
<1>7. \A n \in Modules : Holds(n)' => /\ Holds(n) /\ n # k
                                      /\ buf'[The(n)] = buf[The(n)]
  OBVIOUS
<1>8. \A n \in Modules : Holds(n)' => buf'[The(n)] \in (out + 1 + 1)..in
  BY <1>3, <1>6, <1>7
<1>9. \A i, j \in Modules : Holds(i)' /\ Holds(j)' /\ i < j => buf'[The(j)] < buf'[The(i)]
  BY <1>7 DEF InHands
<1>10. ASSUME NEW p \in (out + 1 + 1)..in
       PROVE  \E j \in Modules : Holds(j)' /\ buf'[The(j)] = p
  <2>1. p \in (out + 1)..in /\ p # out + 1 OBVIOUS
  <2>2. PICK j \in Modules : Holds(j) /\ buf[The(j)] = p BY <2>1 DEF InHands
  <2>3. j # k BY <1>6, <2>1, <2>2
  <2> QED BY <2>2, <2>3
<1>11. out + 1 <= in BY <1>2
<1> QED BY <1>6, <1>8, <1>9, <1>10, <1>11 DEF InHands

-----------------------------------------------------------------------------
(* The handlers *)

Over(m) == hpc[The(m)] \in {"drain", "finish", "done"}

(* A step that neither reads, writes nor passes on a payload *)
LEMMA QuietStep ==
  ASSUME IsCopyLine, IInv, OverInTurn, InFlight, NEW m \in Modules,
         UNCHANGED <<draining, datac, written>>,
         \A n \in Modules \ {m} : hpc'[The(n)] = hpc[The(n)],
         \A n \in Modules : buf'[The(n)] = buf[The(n)],
         hpc[The(m)] # "send", hpc'[The(m)] \in StatesAt(m) \ {"send"},
         Over(m) => Over(m)',
         hpc'[The(m)] \in {"close", "finish", "done"} =>
           \A n \in 1..(m - 1) : Over(n),
         m = 1 /\ (hpc'[The(1)] = "close" \/ Over(1)') => datac = Payloads
  PROVE  OverInTurn' /\ InFlight'
<1>1. 1 \in Modules /\ \A n \in Modules : \A k \in 1..(n - 1) : k \in Modules
  BY LineKinds
<1>2. \A n \in Modules : Over(n) => Over(n)' BY DEF Over
<1>3. \A n \in Modules : hpc'[The(n)] \in StatesAt(n)' BY DEF OverInTurn, StatesAt
<1>4. \A n \in Modules : hpc'[The(n)] \in {"close", "finish", "done"} =>
        \A k \in 1..(n - 1) : Over(k)'
  <2> SUFFICES ASSUME NEW n \in Modules, hpc'[The(n)] \in {"close", "finish", "done"},
                      NEW k \in 1..(n - 1)
               PROVE  Over(k)'
    OBVIOUS
  <2>1. Over(k)
    <3>1. CASE n = m BY <3>1
    <3>2. CASE n # m BY <3>2 DEF OverInTurn, Over
    <3> QED BY <3>1, <3>2
  <2> QED BY <1>1, <1>2, <2>1
<1>5. hpc'[The(1)] = "close" \/ Over(1)' => datac' = Payloads
  <2>1. CASE m = 1 BY <2>1
  <2>2. CASE m # 1 BY <1>1, <2>2 DEF OverInTurn, Over
  <2> QED BY <2>1, <2>2
<1>6. OverInTurn' BY <1>3, <1>4, <1>5 DEF OverInTurn, Over
<1>7. \A n \in Modules : Holds(n)' = Holds(n) BY DEF Holds
<1>8. PICK out \in Nat, in \in Nat : out = Len(written) /\ in = datac
  BY PipelineAssumption DEF IInv, TypeOK
<1>9. InHands(out, in)' BY <1>7, <1>8, HandsKept DEF InFlight
<1>10. InFlight' BY <1>8, <1>9 DEF InFlight
<1> QED BY <1>6, <1>10

LEMMA ReadKeeps ==
  ASSUME IsCopyLine, IInv, OverInTurn, InFlight, NEW m \in Modules,
         ReadDatac(The(m))
  PROVE  /\ OverInTurn' /\ InFlight'
         /\ datac < Payloads /\ datac' = datac + 1 /\ written' = written
<1>1. /\ 1 \in Modules /\ 1 # N /\ \A n \in Modules : n \in Nat /\ n >= 1 /\ The(n) \in Handlers
      /\ \A n, k \in Modules : The(n) = The(k) => n = k
      /\ \A n \in Modules : \A k \in 1..(n - 1) : k \in Modules
  BY LineKinds
<1>2. m = 1
  BY DEF ReadDatac, OverInTurn, StatesAt
<1>3. /\ hpc[The(1)] = "select" /\ datac < Payloads /\ datac' = datac + 1
      /\ written' = written /\ draining' = draining
      /\ buf' = [buf EXCEPT ![The(1)] = datac + 1]
      /\ hpc' = [hpc EXCEPT ![The(1)] = "send"]
  BY <1>2 DEF ReadDatac, Step
<1>4. /\ hpc'[The(1)] = "send" /\ buf'[The(1)] = datac + 1
      /\ \A n \in Modules \ {1} : hpc'[The(n)] = hpc[The(n)] /\ buf'[The(n)] = buf[The(n)]
  BY <1>1, <1>3 DEF IInv, TypeOK
<1>5. datac \in Nat /\ Len(written) \in Nat BY PipelineAssumption DEF IInv, TypeOK
<1>6. OverInTurn'
  <2>1. \A n \in Modules : hpc'[The(n)] \in StatesAt(n)'
    <3>1. "send" \in StatesAt(1) BY <1>1 DEF StatesAt
    <3>2. \A n \in Modules : StatesAt(n)' = StatesAt(n) BY DEF StatesAt
    <3> QED BY <1>4, <3>1, <3>2 DEF OverInTurn
  <2>2. \A n \in Modules : hpc'[The(n)] \in {"close", "finish", "done"} =>
          \A k \in 1..(n - 1) : hpc'[The(k)] \in {"drain", "finish", "done"}
    <3> SUFFICES ASSUME NEW n \in Modules, hpc'[The(n)] \in {"close", "finish", "done"},
                        NEW k \in 1..(n - 1)
                 PROVE  hpc'[The(k)] \in {"drain", "finish", "done"}
      OBVIOUS
    <3>1. n # 1 BY <1>4
    <3>2. \A j \in 1..(n - 1) : hpc[The(j)] \in {"drain", "finish", "done"}
      BY <1>4, <3>1 DEF OverInTurn
    <3>3. k # 1 BY <1>3, <3>2
    <3> QED BY <1>1, <1>4, <3>2, <3>3
  <2> QED BY <1>3, <1>4, <2>1, <2>2 DEF OverInTurn
<1>7. Holds(1)' /\ ~Holds(1) /\ \A n \in Modules \ {1} : Holds(n)' = Holds(n)
  BY <1>3, <1>4 DEF Holds
<1>8. PICK out \in Nat, in \in Nat : out = Len(written) /\ in = datac
  BY <1>5
<1>9. InFlight'
  <2>1. InHands(out, in + 1)' BY <1>1, <1>4, <1>7, <1>8, HandsFilled DEF InFlight
  <2> QED BY <1>3, <1>8, <2>1 DEF InFlight
<1> QED BY <1>3, <1>6, <1>9

(* What is passed on goes one module down the line, or is written. *)
LEMMA PassesOn ==
  ASSUME IsCopyLine, IInv, RingOrder, OverInTurn,
         NEW g \in Handlers, NEW h \in Handlers, Transfer(g, h)
  PROVE  \E m \in Modules :
           /\ m # 1 /\ m - 1 \in Modules /\ h = The(m) /\ g = The(m - 1)
           /\ Holds(m - 1) /\ ~Holds(m) /\ hpc[h] = "recv"
           /\ ~Holds(m - 1)' /\ (Holds(m)' <=> m # N)
           /\ hpc'[g] = (IF m = 2 THEN "select" ELSE "recv")
           /\ hpc'[h] = (IF m = N THEN "recv" ELSE "send")
           /\ \A n \in Modules \ {m - 1, m} : hpc'[The(n)] = hpc[The(n)]
           /\ m # N => buf'[h] = buf[g]
           /\ \A n \in Modules \ {m - 1, m} : buf'[The(n)] = buf[The(n)]
           /\ written' = IF m = N THEN Append(written, buf[g]) ELSE written
           /\ UNCHANGED <<draining, datac>>
<1>1. hpc[g] = "send" /\ Receiving(h) /\ Out(g) = hin[h]
  BY DEF Transfer
<1>2. PICK k \in Modules : g = The(k) BY <1>1, OnlyOne
<1>3. hpc[h] \in {"recv", "drain", "select"}
  BY <1>1 DEF Receiving, OverInTurn
<1>4. PICK m \in Modules : h = The(m) BY <1>3, OnlyOne
<1>5. Out(g) = g
  BY <1>1, <1>2, LineKinds DEF Out, KindOf, IInv, OwnStream, OwnOutc
<1>6. hin[h] = The(Before(m)) BY <1>3, <1>4 DEF RingOrder
<1>7. k = Before(m) BY <1>1, <1>2, <1>5, <1>6 DEF The
<1>8. k # N
  <2>1. N \in Modules /\ 1 # N BY LineKinds
  <2>2. "send" \notin StatesAt(N) BY <2>1 DEF StatesAt
  <2> QED BY <1>1, <1>2, <2>1, <2>2 DEF OverInTurn
<1>9. m # 1 /\ k = m - 1 /\ k # m /\ m \in Nat /\ (m = 2 <=> k = 1)
  BY <1>7, <1>8, LineKinds DEF Before
<1>10. hpc[h] = "recv"
  <2>1. StatesAt(m) \cap {"drain", "select"} = {} BY <1>9 DEF StatesAt
  <2> QED BY <1>3, <1>4, <2>1 DEF OverInTurn
<1>11. /\ The(k) # The(m) /\ KindOf(g) = Kind[k] /\ KindOf(h) = Kind[m]
       /\ \A n \in Modules \ {m - 1, m} : The(n) \in Handlers \ {g, h}
  BY <1>2, <1>4, <1>9, LineKinds DEF KindOf
<1>12. /\ Kind[k].sent = (IF m = 2 THEN {"select"} ELSE {"recv"})
       /\ KindOf(h).take = IF m = N THEN {"recv"} ELSE {"send"}
       /\ KindOf(h).role = "stdout" <=> m = N
  BY <1>9, <1>11, LineKinds
<1>13. PICK next \in AfterRecv(h), back \in KindOf(g).sent :
         /\ hpc' = [hpc EXCEPT ![h] = next, ![g] = back]
         /\ buf' = [buf EXCEPT ![h] = IF hpc[h] = "recv" /\ next = "send"
                                        THEN buf[g] ELSE @,
                               ![g] = Sent(g, back)]
  BY DEF Transfer
<1>14. /\ next = IF m = N THEN "recv" ELSE "send"
       /\ back = IF m = 2 THEN "select" ELSE "recv"
  BY <1>10, <1>11, <1>12, <1>13 DEF AfterRecv
<1>15. /\ hpc'[g] = back /\ hpc'[h] = next
       /\ \A f \in Handlers \ {g, h} : hpc'[f] = hpc[f] /\ buf'[f] = buf[f]
       /\ m # N => buf'[h] = buf[g]
  BY <1>2, <1>4, <1>10, <1>11, <1>13, <1>14 DEF IInv, TypeOK
<1>16. /\ written' = IF m = N THEN Append(written, buf[g]) ELSE written
       /\ UNCHANGED <<draining, datac>>
  BY <1>12 DEF Transfer, stdinVars
<1>17. \A n \in Modules \ {m - 1, m} :
         hpc'[The(n)] = hpc[The(n)] /\ buf'[The(n)] = buf[The(n)]
  BY <1>11, <1>15
<1>18. Holds(m - 1) /\ ~Holds(m) /\ ~Holds(m - 1)' /\ (Holds(m)' <=> m # N)
  BY <1>1, <1>2, <1>4, <1>9, <1>10, <1>11, <1>12, <1>14, <1>15 DEF Holds
<1> QED
  BY <1>2, <1>4, <1>9, <1>10, <1>11, <1>12, <1>14, <1>15, <1>16, <1>17, <1>18

LEMMA TransferKeeps ==
  ASSUME IsCopyLine, IInv, RingOrder, OverInTurn, InFlight,
         NEW g \in Handlers, NEW h \in Handlers, Transfer(g, h)
  PROVE  /\ OverInTurn' /\ InFlight'
         /\ datac' = datac
         /\ \/ written' = written
            \/ /\ Len(written) < datac
               /\ written' = Append(written, Len(written) + 1)
<1>1. PICK m \in Modules :
           /\ m # 1 /\ m - 1 \in Modules /\ h = The(m) /\ g = The(m - 1)
           /\ Holds(m - 1) /\ ~Holds(m) /\ hpc[h] = "recv"
           /\ ~Holds(m - 1)' /\ (Holds(m)' <=> m # N)
           /\ hpc'[g] = (IF m = 2 THEN "select" ELSE "recv")
           /\ hpc'[h] = (IF m = N THEN "recv" ELSE "send")
           /\ \A n \in Modules \ {m - 1, m} : hpc'[The(n)] = hpc[The(n)]
           /\ m # N => buf'[h] = buf[g]
           /\ \A n \in Modules \ {m - 1, m} : buf'[The(n)] = buf[The(n)]
           /\ written' = IF m = N THEN Append(written, buf[g]) ELSE written
           /\ UNCHANGED <<draining, datac>>
  BY PassesOn
<1>2. /\ \A n \in Modules : n \in Nat /\ n >= 1 /\ n <= N
      /\ 1 \in Modules /\ N \in Modules /\ N \in Nat /\ 1 # N
      /\ \A n \in Modules : \A k \in 1..(n - 1) : k \in Modules
  BY LineKinds
<1>3. datac \in Nat /\ Len(written) \in Nat /\ written \in Seq(0..Own)
  BY PipelineAssumption DEF IInv, TypeOK
<1>4. \A n \in Modules \ {m - 1, m} : Holds(n)' = Holds(n) BY <1>1 DEF Holds
<1>5. OverInTurn'
  <2>1. ASSUME NEW n \in Modules PROVE hpc'[The(n)] \in StatesAt(n)'
    <3>1. CASE n = m BY <1>1, <3>1 DEF StatesAt
    <3>2. CASE n = m - 1
      <4>1. m = 2 <=> n = 1 BY <1>2, <3>2
      <4>2. n # N BY <1>2, <3>2
      <4> QED BY <1>1, <3>2, <4>1, <4>2 DEF StatesAt
    <3>3. CASE n \notin {m - 1, m} BY <1>1, <3>3 DEF OverInTurn, StatesAt
    <3> QED BY <3>1, <3>2, <3>3
  <2>2. \A n \in Modules : Over(n) <=> Over(n)'
    BY <1>1 DEF Over, Holds
  <2>3. \A n \in Modules : hpc'[The(n)] \in {"close", "finish", "done"} =>
          hpc[The(n)] \in {"close", "finish", "done"}
    BY <1>1
  <2>4. \A n \in Modules : hpc'[The(n)] \in {"close", "finish", "done"} =>
          \A k \in 1..(n - 1) : hpc'[The(k)] \in {"drain", "finish", "done"}
    BY <1>2, <2>2, <2>3 DEF OverInTurn, Over
  <2>5. hpc'[The(1)] \in {"close", "drain", "finish", "done"} => datac' = Payloads
    BY <1>1, <1>2, <2>2, <2>3 DEF OverInTurn, Over
  <2> QED BY <1>1, <2>1, <2>4, <2>5 DEF OverInTurn
<1>6. PICK out \in Nat, in \in Nat : out = Len(written) /\ in = datac
  BY <1>3
<1>7. CASE m # N
  <2>1. InHands(out, in)' BY <1>1, <1>4, <1>6, <1>7, HandsMoved DEF InFlight
  <2>2. InFlight' BY <1>1, <1>6, <1>7, <2>1 DEF InFlight
  <2> QED BY <1>1, <1>5, <1>7, <2>2
<1>8. CASE m = N
  <2>1. \A n \in Modules : Holds(n) => n <= N - 1 BY <1>1, <1>2, <1>8
  <2>2. \A n \in Modules \ {N - 1} :
          Holds(n)' = Holds(n) /\ (Holds(n) => buf'[The(n)] = buf[The(n)])
    <3> SUFFICES ASSUME NEW n \in Modules \ {N - 1}
                 PROVE  /\ Holds(n)' = Holds(n)
                        /\ Holds(n) => buf'[The(n)] = buf[The(n)]
      OBVIOUS
    <3>1. CASE n = m
      <4>1. ~Holds(m)' /\ ~Holds(m) BY <1>1, <1>8
      <4> QED BY <3>1, <4>1 DEF Holds
    <3>2. CASE n # m BY <1>1, <1>4, <1>8, <3>2
    <3> QED BY <3>1, <3>2
  <2>3. buf[g] = out + 1 /\ out + 1 <= in /\ InHands(out + 1, in)'
    BY <1>1, <1>6, <1>8, <2>1, <2>2, HandsEmptied DEF InFlight
  <2>4. written' = Append(written, Len(written) + 1) /\ Len(written') = out + 1
    BY <1>1, <1>3, <1>6, <1>8, <2>3
  <2>5. InFlight' BY <1>1, <1>6, <2>3, <2>4 DEF InFlight
  <2>6. Len(written) < datac BY <1>3, <1>6, <2>3
  <2> QED BY <1>1, <1>5, <2>4, <2>5, <2>6
<1> QED BY <1>7, <1>8

LEMMA HandlerKeeps ==
  ASSUME IsCopyLine, IInv, RingOrder, ComesFirst, OverInTurn, InFlight,
         NEW h \in Handlers, Handler(h)
  PROVE  /\ OverInTurn' /\ InFlight'
         /\ \/ UNCHANGED <<datac, written>>
            \/ /\ datac < Payloads /\ datac' = datac + 1 /\ written' = written
            \/ /\ Len(written) < datac /\ datac' = datac
               /\ written' = Append(written, Len(written) + 1)
<1>1. CASE \E g \in Handlers : Transfer(g, h) BY <1>1, TransferKeeps
<1>2. CASE SendClosed(h)
  <2>1. UNCHANGED <<draining, datac, written, hpc, buf>>
    BY <1>2 DEF SendClosed, streamVars, stdinVars
  <2> QED BY <2>1 DEF OverInTurn, StatesAt, InFlight, InHands, Holds
<1>3. ~Drained(h) BY DEF Drained, OverInTurn
<1> DEFINE OneHandler == \/ Start(h) \/ Callback(h) \/ ReadFrom(h) \/ ReadFromEnd(h)
                     \/ InputClosed(h) \/ CloseOutc(h) \/ Done(h) \/ Lock(h)
                     \/ ReadDatac(h) \/ DatacClosed(h)
<1>4. CASE OneHandler
  <2>1. hpc[h] # "idle"
    BY <1>4 DEF Start, Callback, ReadFrom, ReadFromEnd, InputClosed, CloseOutc,
                Done, Lock, ReadDatac, DatacClosed
  <2>2. PICK m \in Modules : h = The(m) BY <2>1, OnlyOne
  <2>3. /\ m \in Nat /\ N \in Modules /\ 1 \in Modules /\ 1 # N
        /\ KindOf(h) = Kind[m] /\ h[1] = m
        /\ \A n \in Modules : The(n) \in Handlers
        /\ \A n \in Modules \ {m} : The(n) # h
        /\ hpc[h] \in StatesAt(m)
    BY <2>2, LineKinds DEF KindOf, OverInTurn
  <2>4. ASSUME NEW state, Step(h, state)
        PROVE  /\ hpc'[The(m)] = state
               /\ \A n \in Modules \ {m} : hpc'[The(n)] = hpc[The(n)]
    BY <2>2, <2>3, <2>4 DEF Step, IInv, TypeOK
  <2>5. hpc[h] \notin {"source", "fail"} BY <2>3 DEF StatesAt
  <2>6. hpc[h] \in {"lock", "select", "drain"} => m = 1 BY <2>3 DEF StatesAt
  <2>7. /\ {"cb", "close", "finish", "done"} \subseteq StatesAt(m)
        /\ m = 1 => {"lock", "select", "drain"} \subseteq StatesAt(m)
        /\ m # 1 => "recv" \in StatesAt(m)
    BY <2>3 DEF StatesAt
  <2>8. CASE Start(h)
    <3>1. hpc[h] = "start" /\ Step(h, "cb") /\ UNCHANGED <<draining, datac, written, buf>>
      BY <2>3, <2>8, LineKinds DEF Start, stdinVars
    <3>2. OverInTurn' /\ InFlight'
      BY <2>2, <2>4, <2>7, <3>1, QuietStep DEF Over
    <3> QED BY <3>1, <3>2
  <2>9. CASE Callback(h)
    <3>1. PICK next \in KindOf(h).enter :
            /\ Step(h, next)
            /\ buf' = [buf EXCEPT ![h] = IF next = "send" THEN Own ELSE @]
            /\ draining' = Aside(h, next)
      BY <2>9 DEF Callback
    <3>2. next = IF m = 1 THEN "lock" ELSE "recv" BY <2>3, <3>1, LineKinds
    <3>3. draining' = draining BY <2>3, <3>1, LineKinds DEF Aside
    <3>4. \A n \in Modules : buf'[The(n)] = buf[The(n)]
      BY <2>3, <3>1, <3>2 DEF IInv, TypeOK
    <3>5. hpc[h] = "cb" /\ UNCHANGED <<datac, written>>
      BY <2>9 DEF Callback, stdinVars
    <3>6. hpc'[The(m)] = next /\ \A n \in Modules \ {m} : hpc'[The(n)] = hpc[The(n)]
      BY <2>4, <3>1
    <3>7. OverInTurn' /\ InFlight'
      BY <2>2, <2>7, <3>2, <3>3, <3>4, <3>5, <3>6, QuietStep DEF Over
    <3> QED BY <3>5, <3>7
  <2>10. ~ReadFrom(h) /\ ~ReadFromEnd(h) BY <2>5 DEF ReadFrom, ReadFromEnd
  <2>11. CASE InputClosed(h)
    <3>1. PICK next \in AfterInput(h) :
          /\ hpc[h] \in {"recv", "drain", "select"} /\ hin[h] \in closed
          /\ Step(h, next) /\ UNCHANGED <<draining, datac, written>>
          /\ buf' = [buf EXCEPT ![h] = IF next = "send" THEN Own ELSE @]
      BY <2>11 DEF InputClosed, stdinVars
    <3>2. The(Before(m)) \in closed /\ Before(m) \in Modules
      <4>1. hpc[The(m)] # "idle" BY <2>2, <3>1
      <4>2. hin[The(m)] = The(Before(m)) BY <4>1 DEF RingOrder
      <4> QED BY <2>2, <3>1, <4>2, LineKinds
    <3>3. Over(Before(m)) BY <3>2, ClosedIsOver DEF Over
    <3>4. hpc[h] # "select"
      <4> SUFFICES ASSUME hpc[h] = "select" PROVE FALSE OBVIOUS
      <4>1. m = 1 /\ Before(m) = N BY <2>6 DEF Before
      <4>2. "drain" \notin StatesAt(N) BY <2>3 DEF StatesAt
      <4>3. hpc[The(N)] \in {"finish", "done"} BY <2>3, <3>3, <4>1, <4>2 DEF Over, OverInTurn
      <4>4. 1 \in 1..(N - 1) BY LineKinds
      <4>5. Over(1) BY <2>3, <4>3, <4>4 DEF OverInTurn, Over
      <4> QED BY <2>2, <4>1, <4>5 DEF Over
    <3>5. next = IF hpc[h] = "drain" THEN "finish" ELSE "close"
      BY <2>3, <3>1, <3>4, LineKinds DEF AfterInput
    <3>6. \A n \in Modules : buf'[The(n)] = buf[The(n)]
      BY <2>3, <3>1, <3>5 DEF IInv, TypeOK
    <3>7. \A n \in 1..(m - 1) : Over(n)
      <4> SUFFICES ASSUME NEW n \in 1..(m - 1) PROVE Over(n) OBVIOUS
      <4>1. Before(m) = m - 1 /\ m - 1 \in Modules /\ n \in Nat BY <2>3, <3>2 DEF Before
      <4>2. CASE n = m - 1 BY <3>3, <4>1, <4>2
      <4>3. CASE n # m - 1
        <5>1. m - 1 # 1 /\ n \in 1..((m - 1) - 1) BY <2>3, <4>1, <4>3
        <5>2. "drain" \notin StatesAt(m - 1) BY <5>1 DEF StatesAt
        <5>3. hpc[The(m - 1)] \in {"finish", "done"}
          BY <3>3, <4>1, <5>2 DEF Over, OverInTurn
        <5> QED BY <4>1, <5>1, <5>3 DEF OverInTurn, Over
      <4> QED BY <4>2, <4>3
    <3>8. m = 1 => hpc[h] = "drain" /\ datac = Payloads
      <4> SUFFICES ASSUME m = 1 PROVE hpc[h] = "drain" /\ datac = Payloads OBVIOUS
      <4>1. "recv" \notin StatesAt(1) BY <2>3 DEF StatesAt
      <4>2. hpc[h] = "drain" BY <2>3, <3>1, <3>4, <4>1
      <4> QED BY <2>2, <4>2 DEF OverInTurn
    <3>9. /\ hpc'[The(m)] = next
          /\ \A n \in Modules \ {m} : hpc'[The(n)] = hpc[The(n)]
      BY <2>4, <3>1
    <3>10. OverInTurn' /\ InFlight'
      BY <2>2, <2>7, <3>1, <3>5, <3>6, <3>7, <3>8, <3>9, QuietStep DEF Over
    <3> QED BY <3>1, <3>10
  <2>12. CASE CloseOutc(h)
    <3>1. /\ hpc[h] = "close" /\ Step(h, AfterClose(h))
          /\ UNCHANGED <<draining, datac, written, buf>>
      BY <2>5, <2>12 DEF CloseOutc, streamVars, stdinVars
    <3>2. AfterClose(h) = IF m = 1 THEN "drain" ELSE "finish"
      BY <2>3, <3>1, LineKinds DEF AfterClose
    <3>3. /\ \A n \in 1..(m - 1) : Over(n)
          /\ m = 1 => datac = Payloads
      BY <2>2, <3>1 DEF OverInTurn, Over
    <3>4. /\ hpc'[The(m)] = AfterClose(h)
          /\ \A n \in Modules \ {m} : hpc'[The(n)] = hpc[The(n)]
      BY <2>4, <3>1
    <3>5. OverInTurn' /\ InFlight'
      BY <2>2, <2>7, <3>1, <3>2, <3>3, <3>4, QuietStep DEF Over
    <3> QED BY <3>1, <3>5
  <2>13. CASE Done(h)
    <3>1. /\ hpc[h] = "finish" /\ Step(h, "done")
          /\ UNCHANGED <<draining, datac, written, buf>>
      BY <2>13 DEF Done, streamVars
    <3>2. /\ \A n \in 1..(m - 1) : Over(n)
          /\ m = 1 => datac = Payloads
      BY <2>2, <3>1 DEF OverInTurn, Over
    <3>3. OverInTurn' /\ InFlight'
      BY <2>2, <2>4, <2>7, <3>1, <3>2, QuietStep DEF Over
    <3> QED BY <3>1, <3>3
  <2>14. CASE Lock(h)
    <3>1. /\ hpc[h] = "lock" /\ Step(h, "select")
          /\ UNCHANGED <<draining, datac, written, buf>>
      BY <2>14 DEF Lock, streamVars
    <3>2. OverInTurn' /\ InFlight'
      BY <2>2, <2>4, <2>6, <2>7, <3>1, QuietStep DEF Over
    <3> QED BY <3>1, <3>2
  <2>15. CASE ReadDatac(h) BY <2>2, <2>15, ReadKeeps
  <2>16. CASE DatacClosed(h)
    <3>1. /\ hpc[h] = "select" /\ datac = Payloads
          /\ UNCHANGED <<draining, datac, written, buf>>
          /\ Step(h, "close") \/ hpc' = hpc
      BY <2>16 DEF DatacClosed, streamVars
    <3>2. CASE hpc' = hpc
      BY <3>1, <3>2 DEF OverInTurn, StatesAt, InFlight, InHands, Holds
    <3>3. CASE Step(h, "close")
      <4>1. \A n \in 1..(m - 1) : Over(n) BY <2>6, <3>1
      <4>2. OverInTurn' /\ InFlight'
        BY <2>2, <2>4, <2>7, <3>1, <3>3, <4>1, QuietStep DEF Over
      <4> QED BY <3>1, <4>2
    <3> QED BY <3>1, <3>2, <3>3
  <2> QED BY <1>4, <2>8, <2>9, <2>10, <2>11, <2>12, <2>13, <2>14, <2>15, <2>16
<1> QED BY <1>1, <1>2, <1>3, <1>4 DEF Handler

LEMMA HandlerRing ==
  ASSUME IsCopyLine, IInv, RingOrder, ComesFirst, NEW h \in Handlers, Handler(h)
  PROVE  RingOrder' /\ ComesFirst'
<1>1. /\ UNCHANGED <<link, pc, init, held, hin>>
      /\ \A f \in Handlers : hpc[f] \in {"idle", "done"} => hpc'[f] = hpc[f]
  BY HandlerFrame DEF IInv, linkVars, loopVars
<1>2. N \in Modules /\ \A m \in Modules : The(m) \in Handlers BY LineKinds
<1>3. RingOrder' BY <1>1, <1>2 DEF RingOrder, Forwarding
<1>4. ComesFirst'
  BY <1>1, <1>2
     DEF ComesFirst, Received, Forwarding, RelayEnds, Finished, Silent
<1> QED BY <1>3, <1>4

-----------------------------------------------------------------------------
(* The invariant and the refinement *)

LEMMA InitCopy == ASSUME IsCopyLine, Init PROVE CopyInv
<1>1. /\ Relay \in Places /\ Relay = 0 /\ N \in Modules
      /\ \A m \in Modules : m \in Places /\ m # Relay /\ ~IsServer(m) /\ The(m) \in Handlers
  BY LineKinds
<1>2. /\ \A l \in Places : link[l] = <<>>
      /\ pc[Relay] = "loop" /\ \A m \in Modules : pc[m] = "announce"
      /\ \A m \in Modules : hpc[The(m)] = "idle"
      /\ draining = {} /\ datac = 0 /\ written = <<>>
  BY <1>1 DEF Init
<1>3. RingOrder
  <2>1. \A l \in Places : 1..Len(link[l]) = {} BY <1>2
  <2> QED BY <1>2, <2>1 DEF RingOrder, Forwarding
<1>4. ComesFirst
  BY <1>1, <1>2 DEF ComesFirst, RelayEnds, Finished
<1>5. OverInTurn
  <2>1. 1 \in Modules BY LineKinds
  <2> QED BY <1>2, <2>1 DEF OverInTurn, StatesAt
<1>6. InFlight
  <2>1. \A m \in Modules : ~Holds(m) BY <1>2 DEF Holds
  <2>2. Len(written) = 0 /\ datac = 0 BY <1>2
  <2> QED BY <2>1, <2>2 DEF InFlight, InHands
<1> QED BY <1>3, <1>4, <1>5, <1>6 DEF CopyInv

(* What the line holds on to when RelayMessages closes its link: nothing *)
LEMMA AllWritten ==
  ASSUME IsCopyLine, IInv, CopyInv, pc[Relay] = "close"
  PROVE  Len(written) = Payloads
<1>1. /\ N \in Modules /\ 1 \in Modules /\ 1 \in 1..(N - 1)
      /\ \A n \in Modules : n \in 1..(N - 1) \/ n = N
  BY LineKinds
<1>2. hpc[The(N)] = "done" BY DEF CopyInv, ComesFirst, RelayEnds, Finished
<1>3. \A n \in Modules : hpc[The(n)] \in {"drain", "finish", "done"}
  BY <1>1, <1>2 DEF CopyInv, OverInTurn
<1>4. \A n \in Modules : ~Holds(n) BY <1>3 DEF Holds
<1>5. datac = Payloads BY <1>1, <1>3 DEF CopyInv, OverInTurn
<1>6. datac \in Nat /\ Len(written) \in Nat BY PipelineAssumption DEF IInv, TypeOK
<1>7. Len(written) <= datac /\ ~(Len(written) + 1 \in (Len(written) + 1)..datac)
  BY <1>4 DEF CopyInv, InFlight, InHands
<1> QED BY <1>5, <1>6, <1>7

(* One step of the line, and what it is of the byte stream *)
LEMMA CopyStep ==
  ASSUME IsCopyLine, IInv, CopyInv, [Next \/ Stopped]_vars
  PROVE  CopyInv' /\ [Stream!Next]_Stream!streamState
<1> DEFINE over == pc[Relay] = "exited"
<1>1. CASE UNCHANGED vars
  <2>1. UNCHANGED <<link, pc, init, held, hpc, hin, buf, draining, datac, written>>
    BY <1>1 DEF vars, linkVars, loopVars, streamVars, stdinVars
  <2>2. CopyInv'
    BY <2>1 DEF CopyInv, RingOrder, ComesFirst, OverInTurn, InFlight, InHands,
                Received, Forwarding, RelayEnds, Finished, Silent, StatesAt,
                Holds
  <2> QED BY <2>1, <2>2 DEF Stream!streamState
<1>2. ASSUME Running, NEW m \in Modules, Loop(m)
      PROVE  CopyInv' /\ [Stream!Next]_Stream!streamState
  <2>1. CopyInv'
    BY <1>2, LoopRing, LoopComesFirst, LoopHandlers DEF CopyInv
  <2>2. Relay \in Places \ {m} BY LineKinds
  <2>3. UNCHANGED <<datac, written>> /\ pc'[Relay] = pc[Relay]
    BY <1>2, <2>2, LoopFrame DEF IInv, stdinVars
  <2> QED BY <2>1, <2>3 DEF Stream!streamState
<1>3. ASSUME Running, RelayMessages
      PROVE  CopyInv' /\ [Stream!Next]_Stream!streamState
  <2>1. UNCHANGED <<hpc, buf, draining, datac, written>>
    BY <1>3, RelayFrame DEF streamVars, stdinVars
  <2>2. OverInTurn' /\ InFlight'
    BY <2>1 DEF CopyInv, OverInTurn, InFlight, InHands, StatesAt, Holds
  <2>3. CopyInv' BY <1>3, <2>2, RelayRing, RelayComesFirst DEF CopyInv
  <2>4. ~over BY <1>3 DEF Running
  <2>5. Relay \in Places BY LineKinds
  <2>6. CASE CloseOut(Relay, "exited")
    <3>1. pc[Relay] = "close" /\ over'
      BY <2>5, <2>6 DEF CloseOut, GoTo, IInv, TypeOK
    <3>2. Len(written) = Payloads BY <3>1, AllWritten
    <3>3. Stream!Exit BY <2>1, <2>4, <3>1, <3>2 DEF Stream!Exit
    <3> QED BY <2>3, <3>3 DEF Stream!Next
  <2>7. CASE ~CloseOut(Relay, "exited")
    <3>1. ~over'
      BY <1>3, <2>5, <2>7
         DEF RelayMessages, RelayRecv, RelayForward, Last, GoTo, IInv, TypeOK
    <3> QED BY <2>1, <2>3, <2>4, <3>1 DEF Stream!streamState
  <2> QED BY <2>6, <2>7
<1>4. ASSUME Running, NEW h \in Handlers, Handler(h)
      PROVE  CopyInv' /\ [Stream!Next]_Stream!streamState
  <2>1. CopyInv' BY <1>4, HandlerKeeps, HandlerRing DEF CopyInv
  <2>2. pc' = pc BY <1>4, HandlerFrame DEF IInv, loopVars
  <2>3. ~over /\ (over' <=> over) BY <1>4, <2>2 DEF Running
  <2>4. \/ UNCHANGED <<datac, written>>
        \/ /\ datac < Payloads /\ datac' = datac + 1 /\ written' = written
        \/ /\ Len(written) < datac /\ datac' = datac
           /\ written' = Append(written, Len(written) + 1)
    BY <1>4, HandlerKeeps DEF CopyInv
  <2>5. CASE UNCHANGED <<datac, written>>
    BY <2>1, <2>3, <2>5 DEF Stream!streamState
  <2>6. CASE datac < Payloads /\ datac' = datac + 1 /\ written' = written
    BY <2>1, <2>3, <2>6 DEF Stream!Next, Stream!Read
  <2>7. CASE /\ Len(written) < datac /\ datac' = datac
             /\ written' = Append(written, Len(written) + 1)
    BY <2>1, <2>3, <2>7 DEF Stream!Next, Stream!Write
  <2> QED BY <2>4, <2>5, <2>6, <2>7
<1> QED BY <1>1, <1>2, <1>3, <1>4 DEF Next, Stopped

(* On such a line each MessageChannel goes ahead of its Terminate, the     *)
(* handlers end one after the other down the line, and what was read and   *)
(* not written is in their hands in order (upper.go:39-72, stdin.go:94-136).*)
THEOREM PassesInTurn == ASSUME IsCopyLine PROVE Spec => []CopyInv
<1>1. Init => CopyInv BY InitCopy
<1>2. IInv /\ CopyInv /\ [Next \/ Stopped]_vars => CopyInv' BY CopyStep
<1> QED BY <1>1, <1>2, InvariantHolds, PTL DEF Spec

(* A line of stdin, any number of modules that pass on what they receive,  *)
(* and stdout writes the payloads of the standard input once and in their  *)
(* order, and is over only when all of them are written, whichever of its  *)
(* goroutines is slow, for either setting of --multi-streams               *)
(* (stdin.go:94-136, upper.go:51-81, stdout.go:28-70, message.go:78-91).   *)
THEOREM CopiesInOrder ==
  ASSUME IsCopyLine
  PROVE  Spec => Stream!Init /\ [][Stream!Next]_Stream!streamState
<1>1. Init => Stream!Init
  BY LineKinds DEF Init, Stream!Init
<1>2. IInv /\ CopyInv /\ [Next \/ Stopped]_vars => [Stream!Next]_Stream!streamState
  BY CopyStep
<1> QED BY <1>1, <1>2, InvariantHolds, PassesInTurn, PTL DEF Spec
=============================================================================
