---------------------------- MODULE PipedProofs -----------------------------
(***************************************************************************)
(* What module PipedStream keeps for every kind of handler and any number  *)
(* of payloads: each handler honours its contract with its neighbours.     *)
(***************************************************************************)
EXTENDS PipedStream, TLAPS

-----------------------------------------------------------------------------
(* Lists of steps *)

(* What a list has is in its head or its tail. *)
LEMMA TailHas ==
  ASSUME NEW S, NEW s \in Seq(S), s # <<>>, NEW a
  PROVE  Has(s, a) <=> Head(s) = a \/ Has(Tail(s), a)
<1>1. /\ Len(s) \in Nat \ {0} /\ Len(Tail(s)) = Len(s) - 1 /\ Head(s) = s[1]
      /\ \A i \in 1..(Len(s) - 1) : Tail(s)[i] = s[i + 1]
  OBVIOUS
<1>2. ASSUME NEW i \in 1..(Len(s) - 1), Tail(s)[i] = a PROVE Has(s, a)
  <2>1. i + 1 \in 1..Len(s) /\ s[i + 1] = a BY <1>1, <1>2
  <2> QED BY <2>1 DEF Has
<1>3. ASSUME NEW i \in 1..Len(s), s[i] = a, i # 1 PROVE Has(Tail(s), a)
  <2>1. i - 1 \in 1..(Len(s) - 1) /\ (i - 1) + 1 = i BY <1>1, <1>3
  <2>2. Tail(s)[i - 1] = a BY <1>1, <1>3, <2>1
  <2> QED BY <2>1, <2>2, <1>1 DEF Has
<1>4. Head(s) = a => Has(s, a) BY <1>1 DEF Has
<1> QED BY <1>1, <1>2, <1>3, <1>4 DEF Has

LEMMA TailKeeps ==
  ASSUME NEW S, NEW s \in Seq(S), s # <<>>
  PROVE  /\ Tail(s) \in Seq(S)
         /\ \A a : OnlyFirst(s, a) => ~Has(Tail(s), a) /\ OnlyFirst(Tail(s), a)
         /\ \A a, b : Then(s, a, b) =>
                        /\ Then(Tail(s), a, b)
                        /\ Head(s) = a => Has(Tail(s), b)
         /\ \A a, B : Never(s, a, B) =>
                        /\ Never(Tail(s), a, B)
                        /\ Head(s) = a => \A b \in B : ~Has(Tail(s), b)
         /\ \A T : Of(s, T) => Of(Tail(s), T) /\ Head(s) \in T
<1>1. /\ Len(s) \in Nat \ {0} /\ Len(Tail(s)) = Len(s) - 1 /\ Head(s) = s[1]
      /\ \A i \in 1..(Len(s) - 1) : Tail(s)[i] = s[i + 1] /\ i + 1 \in 2..Len(s)
      /\ Tail(s) \in Seq(S)
  OBVIOUS
<1>2. \A a : OnlyFirst(s, a) => ~Has(Tail(s), a) /\ OnlyFirst(Tail(s), a)
  BY <1>1 DEF OnlyFirst, Has
<1>3. ASSUME NEW a, NEW b, Then(s, a, b) PROVE Then(Tail(s), a, b)
  BY <1>3 DEF Then
<1>4. ASSUME NEW a, NEW b, Then(s, a, b), Head(s) = a PROVE Has(Tail(s), b)
  <2>1. PICK j \in 2..Len(s) : s[j] = b BY <1>1, <1>4 DEF Then
  <2>2. j - 1 \in 1..(Len(s) - 1) /\ (j - 1) + 1 = j BY <1>1
  <2> QED BY <1>1, <2>1, <2>2 DEF Has
<1>5. ASSUME NEW a, NEW B, Never(s, a, B) PROVE Never(Tail(s), a, B)
  BY <1>5 DEF Never
<1>6. ASSUME NEW a, NEW B, Never(s, a, B), Head(s) = a, NEW b \in B
      PROVE  ~Has(Tail(s), b)
  BY <1>1, <1>6 DEF Never, Has
<1>7. \A T : Of(s, T) => Of(Tail(s), T) /\ Head(s) \in T BY <1>1 DEF Of
<1> QED BY <1>1, <1>2, <1>3, <1>4, <1>5, <1>6, <1>7

(* Nothing follows what the empty list has. *)
LEMMA EmptyHas ==
  /\ \A a : ~Has(<<>>, a) /\ OnlyFirst(<<>>, a)
  /\ \A a, b : Then(<<>>, a, b)
  /\ \A a, B : Never(<<>>, a, B)
  /\ \A T : Of(<<>>, T)
BY DEF Has, OnlyFirst, Then, Never, Of

(* A list with "done" behind it *)
LEMMA WholeHas ==
  ASSUME NEW s \in Seq(Steps)
  PROVE  /\ Whole(s) \in Seq(Steps) /\ Whole(s) # <<>>
         /\ Len(Whole(s)) = Len(s) + 1
         /\ \A i \in 1..Len(s) : Whole(s)[i] = s[i]
         /\ Whole(s)[Len(s) + 1] = "done"
         /\ s # <<>> => Head(Whole(s)) = Head(s)
         /\ \A a : Has(Whole(s), a) <=> Has(s, a) \/ a = "done"
         /\ \A a : a # "done" /\ OnlyFirst(s, a) => OnlyFirst(Whole(s), a)
         /\ \A a, b : a # "done" /\ Then(s, a, b) => Then(Whole(s), a, b)
         /\ \A a : a # "done" => Then(Whole(s), a, "done")
         /\ \A a, B : a # "done" /\ "done" \notin B /\ Never(s, a, B) =>
                        Never(Whole(s), a, B)
         /\ \A T : Of(s, T) /\ "done" \in T => Of(Whole(s), T)
<1>1. /\ Whole(s) \in Seq(Steps) /\ Whole(s) # <<>>
      /\ Len(Whole(s)) = Len(s) + 1
      /\ \A i \in 1..Len(s) : Whole(s)[i] = s[i]
      /\ Whole(s)[Len(s) + 1] = "done"
      /\ s # <<>> => Head(Whole(s)) = Head(s)
      /\ Len(s) \in Nat
  <2>1. "done" \in Steps BY DEF Steps
  <2>2. /\ Append(s, "done") \in Seq(Steps) /\ Len(s) \in Nat
        /\ Len(Append(s, "done")) = Len(s) + 1
        /\ \A i \in 1..Len(s) : Append(s, "done")[i] = s[i]
        /\ Append(s, "done")[Len(s) + 1] = "done"
    BY <2>1
  <2>3. Append(s, "done") # <<>> BY <2>2
  <2>4. s # <<>> => Head(Append(s, "done")) = Head(s) BY <2>2, <2>3
  <2> QED BY <2>2, <2>3, <2>4 DEF Whole
<1>2. \A a : Has(Whole(s), a) <=> Has(s, a) \/ a = "done" BY <1>1 DEF Has
<1>3. ASSUME NEW a, a # "done", OnlyFirst(s, a) PROVE OnlyFirst(Whole(s), a)
  BY <1>1, <1>3 DEF OnlyFirst
<1>4. ASSUME NEW a, NEW b, a # "done", Then(s, a, b) PROVE Then(Whole(s), a, b)
  <2> SUFFICES ASSUME NEW i \in 1..(Len(s) + 1), Whole(s)[i] = a
               PROVE  \E j \in (i + 1)..(Len(s) + 1) : Whole(s)[j] = b
    BY <1>1 DEF Then
  <2>1. i \in 1..Len(s) /\ s[i] = a BY <1>1, <1>4
  <2>2. PICK j \in (i + 1)..Len(s) : s[j] = b BY <1>4, <2>1 DEF Then
  <2> QED BY <1>1, <2>1, <2>2
<1>5. ASSUME NEW a, a # "done" PROVE Then(Whole(s), a, "done")
  <2> SUFFICES ASSUME NEW i \in 1..(Len(s) + 1), Whole(s)[i] = a
               PROVE  \E j \in (i + 1)..(Len(s) + 1) : Whole(s)[j] = "done"
    BY <1>1 DEF Then
  <2>1. i \in 1..Len(s) BY <1>1, <1>5
  <2> QED BY <1>1, <2>1
<1>6. ASSUME NEW a, NEW B, a # "done", "done" \notin B, Never(s, a, B)
      PROVE  Never(Whole(s), a, B)
  <2> SUFFICES ASSUME NEW i \in 1..(Len(s) + 1), Whole(s)[i] = a,
                      NEW j \in (i + 1)..(Len(s) + 1)
               PROVE  Whole(s)[j] \notin B
    BY <1>1 DEF Never
  <2>1. i \in 1..Len(s) /\ s[i] = a BY <1>1, <1>6
  <2>2. CASE j = Len(s) + 1 BY <1>1, <1>6, <2>2
  <2>3. CASE j \in (i + 1)..Len(s) BY <1>1, <1>6, <2>1, <2>3 DEF Never
  <2> QED BY <1>1, <2>2, <2>3
<1>7. ASSUME NEW T, Of(s, T), "done" \in T PROVE Of(Whole(s), T)
  BY <1>1, <1>7 DEF Of
<1> QED BY <1>1, <1>2, <1>3, <1>4, <1>5, <1>6, <1>7
-----------------------------------------------------------------------------
(* The kinds of handlers *)

KindSteps(k) ==
  /\ {"counted", "main", "in", "out", "run", "giveUp", "room", "far", "emits"}
       \subseteq DOMAIN k
  /\ k.main \in Seq(Steps) /\ k.in \in Seq(Steps) /\ k.out \in Seq(Steps)
  /\ k.run \in Seq(Steps) /\ k.giveUp \in Seq(Steps)
  /\ k.room \in Nat /\ k.emits \in {"all", "some", "none", "any"}
  /\ MainOrder(k.main) /\ CopyOrder(k.in) /\ ProduceOrder(k.out)
  /\ RunOrder(k.run)
  /\ Has(k.main, "spawn") /\ ~Has(k.main, "setup")

KindRoles(k) ==
  /\ ~(Has(k.out, "closeOut") /\ (\/ Has(k.main, "closeOut") \/ Has(k.main, "request")
                                  \/ Has(k.main, "response")))
  /\ Has(k.out, "closeOut") \/ Has(k.main, "closeOut") \/ Has(k.main, "request")
  /\ Has(k.out, "produce") =>
       \/ Has(k.out, "closeOut")
       \/ Has(k.main, "join") /\ Then(k.main, "join", "closeOut")
  /\ Has(k.in, "drain") \/ Has(k.main, "drain")
  /\ "in" \notin k.counted => Has(k.main, "join") \/ Has(k.main, "sync")
  /\ "out" \notin k.counted /\ k.out # <<>> => Has(k.main, "join")
  /\ "run" \notin k.counted => k.run = <<>>

KindGivesUp(k) ==
  k.giveUp # <<>> =>
    /\ MainOrder(k.giveUp) /\ Has(k.giveUp, "drain")
    /\ ~Has(k.giveUp, "setup") /\ ~Has(k.giveUp, "spawn")

KindKeepsAll(k) ==
  k.emits = "all" =>
    /\ k.room = 0 /\ k.far = "self" /\ k.giveUp = <<>>
    /\ Has(k.in, "copy")
    /\ Has(k.main, "produce") \/ Has(k.out, "produce")
    /\ \A s \in {k.main, k.in, k.out, k.run} :
         Of(s, {"setup", "spawn", "copy", "produce", "closeWriter",
                "closeReader", "closeOut", "drain", "sync", "awaitSync",
                "done"})
    /\ Has(k.out, "produce") => Of(Tail(k.main), {"done"})

KindOk(k) == KindSteps(k) /\ KindRoles(k) /\ KindGivesUp(k) /\ KindKeepsAll(k)

(* Each kind as it is written, then those with a failure less *)
LEMMA AllKindsOk == \A k \in AllKinds : KindOk(k)
<1> USE DEF KindOk, KindSteps, KindRoles, KindGivesUp, KindKeepsAll, MainOrder,
            CopyOrder, ProduceOrder, RunOrder, Has, OnlyFirst, Then, Never, Of,
            Steps, Codec
<1>1. KindOk(Gunzip) BY DEF Gunzip
<1>2. KindOk(Base64Decode) BY DEF Base64Decode
<1>3. KindOk(Base64Encode) BY DEF Base64Decode, Base64Encode
<1>4. KindOk(WriteS3) BY DEF WriteS3
<1>5. KindOk(WriteElasticsearch) BY DEF WriteElasticsearch
<1>6. KindOk(AesDecrypt) BY DEF AesDecrypt
<1>7. KindOk(HttpData)
  <2>1. KindSteps(HttpData)
    <3>1. {"counted", "main", "in", "out", "run", "giveUp", "room", "far", "emits"}
           \subseteq DOMAIN HttpData
      BY DEF HttpData
    <3>2. /\ HttpData.main \in Seq(Steps) /\ HttpData.in \in Seq(Steps)
           /\ HttpData.out \in Seq(Steps) /\ HttpData.run \in Seq(Steps)
           /\ HttpData.giveUp \in Seq(Steps) /\ HttpData.room \in Nat
           /\ HttpData.emits \in {"all", "some", "none", "any"}
      BY DEF HttpData
    <3>3. MainOrder(HttpData.main) /\ Has(HttpData.main, "spawn") /\ ~Has(HttpData.main, "setup")
      BY DEF HttpData
    <3>4. CopyOrder(HttpData.in) /\ ProduceOrder(HttpData.out) /\ RunOrder(HttpData.run)
      BY DEF HttpData
    <3> QED BY <3>1, <3>2, <3>3, <3>4
  <2>2. KindRoles(HttpData) BY DEF HttpData
  <2>3. KindGivesUp(HttpData) BY DEF HttpData
  <2>4. KindKeepsAll(HttpData) BY DEF HttpData
  <2> QED BY <2>1, <2>2, <2>3, <2>4
<1>8. KindOk(Http)
  <2>1. KindSteps(Http)
    <3>1. {"counted", "main", "in", "out", "run", "giveUp", "room", "far", "emits"}
           \subseteq DOMAIN Http
      BY DEF HttpData, Http
    <3>2. /\ Http.main \in Seq(Steps) /\ Http.in \in Seq(Steps)
           /\ Http.out \in Seq(Steps) /\ Http.run \in Seq(Steps)
           /\ Http.giveUp \in Seq(Steps) /\ Http.room \in Nat
           /\ Http.emits \in {"all", "some", "none", "any"}
      BY DEF HttpData, Http
    <3>3. MainOrder(Http.main) /\ Has(Http.main, "spawn") /\ ~Has(Http.main, "setup")
      BY DEF HttpData, Http
    <3>4. CopyOrder(Http.in) /\ ProduceOrder(Http.out) /\ RunOrder(Http.run)
      BY DEF HttpData, Http
    <3> QED BY <3>1, <3>2, <3>3, <3>4
  <2>2. KindRoles(Http) BY DEF HttpData, Http
  <2>3. KindGivesUp(Http) BY DEF HttpData, Http
  <2>4. KindKeepsAll(Http) BY DEF HttpData, Http
  <2> QED BY <2>1, <2>2, <2>3, <2>4
<1>9. KindOk(Fork)
  <2>1. KindSteps(Fork)
    <3>1. {"counted", "main", "in", "out", "run", "giveUp", "room", "far", "emits"}
           \subseteq DOMAIN Fork
      BY DEF Fork
    <3>2. /\ Fork.main \in Seq(Steps) /\ Fork.in \in Seq(Steps)
           /\ Fork.out \in Seq(Steps) /\ Fork.run \in Seq(Steps)
           /\ Fork.giveUp \in Seq(Steps) /\ Fork.room \in Nat
           /\ Fork.emits \in {"all", "some", "none", "any"}
      BY DEF Fork
    <3>3. MainOrder(Fork.main) /\ Has(Fork.main, "spawn") /\ ~Has(Fork.main, "setup")
      BY DEF Fork
    <3>4. CopyOrder(Fork.in) /\ ProduceOrder(Fork.out) /\ RunOrder(Fork.run)
      BY DEF Fork
    <3> QED BY <3>1, <3>2, <3>3, <3>4
  <2>2. KindRoles(Fork) BY DEF Fork
  <2>3. KindGivesUp(Fork) BY DEF Fork
  <2>4. KindKeepsAll(Fork) BY DEF Fork
  <2> QED BY <2>1, <2>2, <2>3, <2>4
<1>10. KindOk(Tcp)
  <2>1. KindSteps(Tcp)
    <3>1. {"counted", "main", "in", "out", "run", "giveUp", "room", "far", "emits"}
           \subseteq DOMAIN Tcp
      BY DEF Tcp
    <3>2. /\ Tcp.main \in Seq(Steps) /\ Tcp.in \in Seq(Steps)
           /\ Tcp.out \in Seq(Steps) /\ Tcp.run \in Seq(Steps)
           /\ Tcp.giveUp \in Seq(Steps) /\ Tcp.room \in Nat
           /\ Tcp.emits \in {"all", "some", "none", "any"}
      BY DEF Tcp
    <3>3. MainOrder(Tcp.main) /\ Has(Tcp.main, "spawn") /\ ~Has(Tcp.main, "setup")
      BY DEF Tcp
    <3>4. CopyOrder(Tcp.in) /\ ProduceOrder(Tcp.out) /\ RunOrder(Tcp.run)
      BY DEF Tcp
    <3> QED BY <3>1, <3>2, <3>3, <3>4
  <2>2. KindRoles(Tcp) BY DEF Tcp
  <2>3. KindGivesUp(Tcp) BY DEF Tcp
  <2>4. KindKeepsAll(Tcp) BY DEF Tcp
  <2> QED BY <2>1, <2>2, <2>3, <2>4
<1>11. KindOk(Websocket)
  <2>1. KindSteps(Websocket)
    <3>1. {"counted", "main", "in", "out", "run", "giveUp", "room", "far", "emits"}
           \subseteq DOMAIN Websocket
      BY DEF Tcp, Websocket
    <3>2. /\ Websocket.main \in Seq(Steps) /\ Websocket.in \in Seq(Steps)
           /\ Websocket.out \in Seq(Steps) /\ Websocket.run \in Seq(Steps)
           /\ Websocket.giveUp \in Seq(Steps) /\ Websocket.room \in Nat
           /\ Websocket.emits \in {"all", "some", "none", "any"}
      BY DEF Tcp, Websocket
    <3>3. MainOrder(Websocket.main) /\ Has(Websocket.main, "spawn") /\ ~Has(Websocket.main, "setup")
      BY DEF Tcp, Websocket
    <3>4. CopyOrder(Websocket.in) /\ ProduceOrder(Websocket.out) /\ RunOrder(Websocket.run)
      BY DEF Tcp, Websocket
    <3> QED BY <3>1, <3>2, <3>3, <3>4
  <2>2. KindRoles(Websocket) BY DEF Tcp, Websocket
  <2>3. KindGivesUp(Websocket) BY DEF Tcp, Websocket
  <2>4. KindKeepsAll(Websocket) BY DEF Tcp, Websocket
  <2> QED BY <2>1, <2>2, <2>3, <2>4
<1>12. KindOk(HttpHeaders)
  <2>1. DOMAIN HttpHeaders = DOMAIN Http BY DEF HttpHeaders
  <2>2. \A f \in DOMAIN Http : f # "headers" => HttpHeaders[f] = Http[f]
    BY DEF HttpHeaders
  <2>3. {"counted", "main", "in", "out", "run", "giveUp", "room", "far", "emits"}
          \subseteq DOMAIN Http
    BY <1>8 DEF KindOk, KindSteps
  <2>4. /\ HttpHeaders.counted = Http.counted /\ HttpHeaders.main = Http.main
        /\ HttpHeaders.in = Http.in /\ HttpHeaders.out = Http.out
        /\ HttpHeaders.run = Http.run /\ HttpHeaders.giveUp = Http.giveUp
        /\ HttpHeaders.room = Http.room /\ HttpHeaders.far = Http.far
        /\ HttpHeaders.emits = Http.emits
    BY <2>2, <2>3
  <2> HIDE DEF Has, OnlyFirst, Then, Never, Of, Steps, MainOrder, CopyOrder,
               ProduceOrder, RunOrder
  <2> QED BY <1>8, <2>1, <2>4
<1> HIDE DEF KindOk, Has, OnlyFirst, Then, Never, Of, Steps
<1> QED BY <1>1, <1>2, <1>3, <1>4, <1>5, <1>6, <1>7, <1>8, <1>9, <1>10, <1>11,
           <1>12 DEF AllKinds

LEMMA KindsOk == \A k \in Kinds : KindOk(k)
<1>1. ASSUME NEW k \in AllKinds PROVE KindOk(k) BY AllKindsOk
<1>2. ASSUME NEW k \in AllKinds PROVE KindOk(Intact(k))
  <2>1. KindOk(k) BY AllKindsOk
  <2>2. /\ Intact(k).counted = k.counted /\ Intact(k).main = k.main
        /\ Intact(k).in = k.in /\ Intact(k).out = k.out
        /\ Intact(k).run = k.run /\ Intact(k).giveUp = k.giveUp
        /\ Intact(k).room = k.room /\ Intact(k).far = k.far
        /\ Intact(k).emits = k.emits /\ DOMAIN Intact(k) = DOMAIN k
    BY <2>1 DEF KindOk, KindSteps, Intact
  <2> QED BY <2>1, <2>2 DEF KindOk, KindSteps, KindRoles, KindGivesUp, KindKeepsAll
<1>3. ASSUME NEW k \in AllKinds PROVE KindOk(Started(k))
  <2>1. KindOk(k) BY AllKindsOk
  <2>2. /\ Started(k).counted = k.counted /\ Started(k).main = k.main
        /\ Started(k).in = k.in /\ Started(k).out = k.out
        /\ Started(k).run = k.run /\ Started(k).giveUp = <<>>
        /\ Started(k).room = k.room /\ Started(k).far = k.far
        /\ Started(k).emits = k.emits /\ DOMAIN Started(k) = DOMAIN k
    BY <2>1 DEF KindOk, KindSteps, Started
  <2> QED BY <2>1, <2>2 DEF KindOk, KindSteps, KindRoles, KindGivesUp, KindKeepsAll
<1>4. ASSUME NEW k \in AllKinds PROVE KindOk(Attentive(k))
  <2>1. KindOk(k) BY AllKindsOk
  <2>2. /\ Attentive(k).counted = k.counted /\ Attentive(k).main = k.main
        /\ Attentive(k).in = k.in /\ Attentive(k).out = k.out
        /\ Attentive(k).run = k.run /\ Attentive(k).giveUp = k.giveUp
        /\ Attentive(k).room = k.room /\ Attentive(k).emits = k.emits
        /\ k.far = "self" => Attentive(k).far = k.far
        /\ DOMAIN Attentive(k) = DOMAIN k
    BY <2>1 DEF KindOk, KindSteps, Attentive
  <2> QED BY <2>1, <2>2 DEF KindOk, KindSteps, KindRoles, KindGivesUp, KindKeepsAll
<1> QED BY <1>1, <1>2, <1>3, <1>4, PipedStreamAssumption
-----------------------------------------------------------------------------
(* What a goroutine has left to do *)

(* The orders hold of what is left of a list. *)
LEMMA OrdersLast ==
  ASSUME NEW s \in Seq(Steps), s # <<>>
  PROVE  /\ MainOrder(s) => MainOrder(Tail(s))
         /\ CopyOrder(s) => CopyOrder(Tail(s))
         /\ ProduceOrder(s) => ProduceOrder(Tail(s))
         /\ RunOrder(s) => RunOrder(Tail(s))
<1>1. \A a : Has(Tail(s), a) => Has(s, a) BY TailHas
<1>2. ASSUME MainOrder(s) PROVE MainOrder(Tail(s))
  BY <1>1, <1>2, TailKeeps DEF MainOrder
<1>3. ASSUME CopyOrder(s) PROVE CopyOrder(Tail(s))
  BY <1>3, TailKeeps DEF CopyOrder
<1>4. ASSUME ProduceOrder(s) PROVE ProduceOrder(Tail(s))
  BY <1>4, TailKeeps DEF ProduceOrder
<1>5. ASSUME RunOrder(s) PROVE RunOrder(Tail(s))
  BY <1>5, TailKeeps DEF RunOrder
<1> QED BY <1>2, <1>3, <1>4, <1>5

LEMMA OrdersOfNothing ==
  MainOrder(<<>>) /\ CopyOrder(<<>>) /\ ProduceOrder(<<>>) /\ RunOrder(<<>>)
BY EmptyHas DEF MainOrder, CopyOrder, ProduceOrder, RunOrder

LEMMA OrdersOfWhole ==
  ASSUME NEW s \in Seq(Steps)
  PROVE  /\ MainOrder(s) => MainOrder(Whole(s))
         /\ CopyOrder(s) => CopyOrder(Whole(s))
         /\ ProduceOrder(s) => ProduceOrder(Whole(s))
         /\ RunOrder(s) => RunOrder(Whole(s))
<1>1. ASSUME MainOrder(s) PROVE MainOrder(Whole(s))
  <2>1. OnlyFirst(Whole(s), "setup") /\ OnlyFirst(Whole(s), "spawn")
    BY <1>1, WholeHas DEF MainOrder
  <2>2. Never(Whole(s), "closeOut", {"closeOut", "produce", "request", "response"})
    BY <1>1, WholeHas DEF MainOrder
  <2>3. \A a \in {"closeWriter", "drain", "sync"} : Never(Whole(s), a, {"produce"})
    BY <1>1, WholeHas DEF MainOrder
  <2>4. Then(Whole(s), "produce", "closeOut") /\ Then(Whole(s), "sync", "drain")
    BY <1>1, WholeHas DEF MainOrder
  <2>5. Has(Whole(s), "request") \/ Has(Whole(s), "response") =>
          \A a \in {"drain", "join", "sync", "closeOut"} : ~Has(Whole(s), a)
    BY <1>1, WholeHas DEF MainOrder
  <2> QED BY <2>1, <2>2, <2>3, <2>4, <2>5 DEF MainOrder
<1>2. ASSUME CopyOrder(s) PROVE CopyOrder(Whole(s))
  BY <1>2, WholeHas DEF CopyOrder
<1>3. ASSUME ProduceOrder(s) PROVE ProduceOrder(Whole(s))
  BY <1>3, WholeHas DEF ProduceOrder
<1>4. ASSUME RunOrder(s) PROVE RunOrder(Whole(s))
  BY <1>4, WholeHas DEF RunOrder
<1> QED BY <1>1, <1>2, <1>3, <1>4

(* Every goroutine is where it was, one step further, or done. *)
Advances ==
  /\ todo' \in [Goroutines -> Seq(Steps)]
  /\ \A g \in Goroutines : \/ todo'[g] = todo[g]
                           \/ todo[g] # <<>> /\ todo'[g] = Tail(todo[g])
                           \/ todo'[g] = <<>>

LEMMA GoAdvances ==
  ASSUME TypeOK, NEW g \in Goroutines, NEW x, At(g, x), Go(g)
  PROVE  /\ Advances
         /\ todo'[g] = Tail(todo[g])
         /\ \A h \in Goroutines \ {g} : todo'[h] = todo[h]
         /\ \A a : Has(todo[g], a) <=> a = x \/ Has(todo'[g], a)
<1>1. todo[g] \in Seq(Steps) /\ todo[g] # <<>> /\ Head(todo[g]) = x
  BY DEF TypeOK, At
<1>2. todo'[g] = Tail(todo[g]) /\ \A h \in Goroutines \ {g} : todo'[h] = todo[h]
  BY DEF TypeOK, Go
<1>3. Tail(todo[g]) \in Seq(Steps) BY <1>1
<1>4. todo' \in [Goroutines -> Seq(Steps)] BY <1>2, <1>3 DEF TypeOK, Go
<1>5. \A a : Has(todo[g], a) <=> a = x \/ Has(todo'[g], a) BY <1>1, <1>2, TailHas
<1> QED BY <1>1, <1>2, <1>4, <1>5 DEF Advances

(* A handler that does something else has started its goroutines. *)
LEMMA PastSpawn ==
  ASSUME TypeOK, InProgram, NEW g \in Goroutines, NEW x, x \notin {"setup", "spawn"},
         At(g, x)
  PROVE  ~Unspawned
<1>1. CASE g = "main"
  <2>1. /\ todo["main"] \in Seq(Steps) /\ todo["main"] # <<>>
        /\ Head(todo["main"]) = x
    BY <1>1 DEF TypeOK, At, Goroutines
  <2>2. OnlyFirst(todo["main"], "setup") /\ OnlyFirst(todo["main"], "spawn")
    BY DEF InProgram, MainOrder
  <2>3. \A a \in {"setup", "spawn"} : ~Has(todo["main"], a)
    BY <2>1, <2>2, TailHas, TailKeeps
  <2> QED BY <2>3 DEF Unspawned
<1>2. CASE g # "main" BY <1>2 DEF InProgram, At
<1> QED BY <1>1, <1>2

(* What is left is in order, and nothing is new. *)
LEMMA AdvanceKeeps ==
  ASSUME TypeOK, InProgram, Advances, ~Unspawned, UNCHANGED kind
  PROVE  /\ InProgram' /\ ~Unspawned'
         /\ \A g \in Goroutines :
              /\ \A a : Has(todo'[g], a) => Has(todo[g], a)
              /\ \A T : Of(todo[g], T) => Of(todo'[g], T)
              /\ \A a, b : Then(todo[g], a, b) => Then(todo'[g], a, b)
              /\ todo[g] = <<>> => todo'[g] = <<>>
<1>1. ASSUME NEW g \in Goroutines
      PROVE  /\ \A a : Has(todo'[g], a) => Has(todo[g], a)
             /\ \A T : Of(todo[g], T) => Of(todo'[g], T)
             /\ \A a, b : Then(todo[g], a, b) => Then(todo'[g], a, b)
             /\ MainOrder(todo[g]) => MainOrder(todo'[g])
             /\ CopyOrder(todo[g]) => CopyOrder(todo'[g])
             /\ ProduceOrder(todo[g]) => ProduceOrder(todo'[g])
             /\ RunOrder(todo[g]) => RunOrder(todo'[g])
             /\ todo[g] = <<>> => todo'[g] = <<>>
  <2>1. CASE todo'[g] = todo[g] BY <2>1
  <2>2. CASE todo[g] # <<>> /\ todo'[g] = Tail(todo[g])
    <3>1. todo[g] \in Seq(Steps) BY DEF TypeOK
    <3>2. \A a : Has(todo'[g], a) => Has(todo[g], a) BY <2>2, <3>1, TailHas
    <3>3. \A T : Of(todo[g], T) => Of(todo'[g], T) BY <2>2, <3>1, TailKeeps
    <3>4. \A a, b : Then(todo[g], a, b) => Then(todo'[g], a, b)
      BY <2>2, <3>1, TailKeeps
    <3> QED BY <2>2, <3>1, <3>2, <3>3, <3>4, OrdersLast
  <2>3. CASE todo'[g] = <<>> BY <2>3, EmptyHas, OrdersOfNothing
  <2> QED BY <2>1, <2>2, <2>3 DEF Advances
<1>2. ~Has(todo'["main"], "setup") /\ ~Has(todo'["main"], "spawn")
  BY <1>1 DEF Unspawned, Goroutines
<1>3. InProgram'
  BY <1>1, <1>2 DEF InProgram, Unspawned, Goroutines
<1> QED BY <1>1, <1>2, <1>3 DEF Unspawned

(* Whoever closes `outc' is still to close it, and nobody else is. *)
LEMMA AdvanceOneCloser ==
  ASSUME TypeOK, InProgram, OneCloser, Advances, ~Unspawned,
         UNCHANGED <<kind, outClosed>>,
         Has(todo["out"], "closeOut") => Has(todo'["out"], "closeOut"),
         Has(todo["main"], "join") => Has(todo'["main"], "join") \/ todo["out"] = <<>>,
         reply' => \E g \in Goroutines : At(g, "produce")'
  PROVE  OneCloser'
<1>1. /\ ~Unspawned'
      /\ \A g \in Goroutines : \A a : Has(todo'[g], a) => Has(todo[g], a)
      /\ Then(todo["main"], "join", "closeOut") =>
           Then(todo'["main"], "join", "closeOut")
  BY AdvanceKeeps DEF Goroutines
<1>2. \A g \in Goroutines : Closer(g)' => Closer(g)
  BY <1>1 DEF Closer, Goroutines
<1>3. (\A g, h \in Goroutines : Closer(g) /\ Closer(h) => g = h)'
  BY <1>2 DEF OneCloser
<1>4. (outClosed => \A g \in Goroutines : ~Closer(g))'
  BY <1>2 DEF OneCloser
<1>5. ASSUME Has(todo'["out"], "produce")
      PROVE  \/ Has(todo'["out"], "closeOut")
             \/ Has(todo'["main"], "join") /\ Then(todo'["main"], "join", "closeOut")
  <2>1. Has(todo["out"], "produce") /\ todo["out"] # <<>>
    BY <1>1, <1>5, EmptyHas DEF Goroutines
  <2> QED BY <1>1, <2>1 DEF OneCloser
<1> QED BY <1>3, <1>4, <1>5 DEF OneCloser

(* The same of those who drain `inc', and who wait for the others *)
LEMMA AdvanceDrains ==
  ASSUME TypeOK, InProgram, DrainsAtLast, Advances, ~Unspawned, UNCHANGED kind,
         inClosed => inClosed',
         \A g \in {"in", "main"} : Has(todo[g], "drain") =>
            inClosed' \/ Has(todo'[g], "drain") \/ Has(todo'["main"], "drain")
  PROVE  DrainsAtLast'
BY DEF DrainsAtLast

LEMMA AdvanceWaits ==
  ASSUME TypeOK, InProgram, WaitsFor, Advances, ~Unspawned, UNCHANGED <<kind, loop>>,
         Has(todo["main"], "join") =>
           Has(todo'["main"], "join") \/ (todo["in"] = <<>> /\ todo["out"] = <<>>),
         Has(todo["main"], "sync") => Has(todo'["main"], "sync") \/ todo'["in"] = <<>>
  PROVE  WaitsFor'
<1>1. \A g \in Goroutines : todo[g] = <<>> => todo'[g] = <<>>
  BY AdvanceKeeps
<1>2. ASSUME NEW g \in Goroutines \ ({"main"} \cup kind.counted), todo'[g] # <<>>
      PROVE  /\ g \in {"in", "out"}
             /\ Has(todo'["main"], "join") \/ (g = "in" /\ Has(todo'["main"], "sync"))
  <2>1. todo[g] # <<>> BY <1>1, <1>2
  <2>2. /\ g \in {"in", "out"}
        /\ Has(todo["main"], "join") \/ (g = "in" /\ Has(todo["main"], "sync"))
    BY <2>1, <1>2 DEF WaitsFor
  <2> QED BY <2>1, <2>2, <1>2
<1>3. (loop = "terminated" /\ "main" \in kind.counted => AllDone)'
  BY <1>1 DEF WaitsFor, AllDone
<1>4. WaitsFor' <=>
        /\ \A g \in Goroutines \ ({"main"} \cup kind.counted) :
             todo'[g] # <<>> =>
               /\ g \in {"in", "out"}
               /\ Has(todo'["main"], "join") \/ (g = "in" /\ Has(todo'["main"], "sync"))
        /\ (loop = "terminated" /\ "main" \in kind.counted => AllDone)'
  BY DEF WaitsFor
<1> QED BY <1>2, <1>3, <1>4

(* A stream that keeps every payload has lost none. *)
Kept == {"setup", "spawn", "copy", "produce", "closeWriter", "closeReader",
         "closeOut", "drain", "sync", "awaitSync", "done"}

LEMMA AdvanceNoneLost ==
  ASSUME TypeOK, InProgram, NoneLost, Advances, ~Unspawned, UNCHANGED kind,
         kind.emits = "all" =>
           /\ ~cancelled'
           /\ failed => failed'
           /\ ~failed' => /\ taken' = got' + (IF hand' THEN 1 ELSE 0)
                          /\ ~writer' => ~writer \/ ~Copying'
                          /\ ~Copying' => ~Copying \/ inClosed
                          /\ inClosed => inClosed'
                          /\ ~Producing' => \/ ~Producing /\ writer' = writer
                                               /\ sent' = sent /\ got' = got
                                            \/ ~writer' /\ sent' = got'
  PROVE  NoneLost'
<1> SUFFICES ASSUME kind.emits = "all" PROVE NoneLost'
  BY DEF NoneLost
<1>1. /\ ~Unspawned'
      /\ \A g \in Goroutines :
           /\ \A a : Has(todo'[g], a) => Has(todo[g], a)
           /\ \A T : Of(todo[g], T) => Of(todo'[g], T)
  BY AdvanceKeeps
<1>2. \A g \in Goroutines : Of(todo'[g], Kept)
  BY <1>1 DEF NoneLost, Kept
<1>3. Has(todo'["out"], "produce") => Of(todo'["main"], {"done"})
  BY <1>1 DEF NoneLost, Goroutines
<1>4. ASSUME ~failed' 
      PROVE  /\ taken' = got' + (IF hand' THEN 1 ELSE 0)
             /\ ~writer' => ~Copying'
             /\ ~Copying' => inClosed'
             /\ ~Producing' => ~writer' /\ sent' = got'
  <2>1. /\ ~writer => ~Copying
        /\ ~Copying => inClosed
        /\ ~Producing => ~writer /\ sent = got
    BY <1>4 DEF NoneLost
  <2>2. Copying' => Copying BY <1>1 DEF Copying, Goroutines
  <2> QED BY <2>1, <2>2, <1>4
<1> QED BY <1>1, <1>2, <1>3, <1>4 DEF NoneLost, Kept

-----------------------------------------------------------------------------
(* A goroutine that does its next step *)

LEMMA AtStep ==
  ASSUME TypeOK, InProgram, NEW g \in Goroutines, NEW x, At(g, x)
  PROVE  /\ Has(todo[g], x) /\ x \in Steps
         /\ \A T : Of(todo[g], T) => x \in T
         /\ \A a : OnlyFirst(todo[g], a) /\ a # x => ~Has(todo[g], a)
         /\ \A a, B : Never(todo[g], a, B) /\ a = x =>
              \A b \in B : Has(todo[g], b) => b = x
         /\ x \in {"closeOut", "produce"} => g \in {"main", "out"}
         /\ x = "drain" => g \in {"in", "main"}
         /\ g = "in" /\ x # "copy" => ~Copying
<1>1. todo[g] \in Seq(Steps) /\ todo[g] # <<>> /\ Head(todo[g]) = x
  BY DEF TypeOK, At
<1>2. /\ Has(todo[g], x)
      /\ \A T : Of(todo[g], T) => x \in T
      /\ \A a : OnlyFirst(todo[g], a) /\ a # x => ~Has(todo[g], a)
  BY <1>1, TailHas, TailKeeps
<1>3. \A a, B : Never(todo[g], a, B) /\ a = x =>
        \A b \in B : Has(todo[g], b) => b = x
  BY <1>1, TailHas, TailKeeps
<1>4. x \in Steps BY <1>1
<1>5. /\ x \in {"closeOut", "produce"} => g \in {"main", "out"}
      /\ x = "drain" => g \in {"in", "main"}
  BY <1>2 DEF InProgram, CopyOrder, ProduceOrder, RunOrder, Goroutines
<1>6. g = "in" /\ x # "copy" => ~Copying
  BY <1>2 DEF InProgram, CopyOrder, Copying
<1> QED BY <1>2, <1>3, <1>4, <1>5, <1>6

LEMMA GoKeeps ==
  ASSUME IInv, NEW g \in Goroutines, NEW x, At(g, x), Go(g),
         x \notin {"setup", "spawn", "request", "response", "sync"},
         x = "drain" => inClosed,
         x = "join" => todo["in"] = <<>> /\ todo["out"] = <<>>,
         x = "produce" => ~reply,
         hand' => hand /\ ~(g = "in" /\ x = "copy"),
         UNCHANGED <<kind, inVars, got, wire, reply, sent, loop>>
  PROVE  /\ Advances /\ ~Unspawned
         /\ todo' \in [Goroutines -> Seq(Steps)]
         /\ InProgram' /\ Counts' /\ DrainsAtLast' /\ WaitsFor'
         /\ x # "closeOut" /\ UNCHANGED outClosed => OneCloser'
<1> USE DEF IInv
<1>1. /\ Advances
      /\ todo'[g] = Tail(todo[g])
      /\ \A h \in Goroutines \ {g} : todo'[h] = todo[h]
      /\ \A a : Has(todo[g], a) <=> a = x \/ Has(todo'[g], a)
  BY GoAdvances
<1>2. ~Unspawned BY PastSpawn
<1>3. \A h \in Goroutines : \A a : Has(todo[h], a) =>
        Has(todo'[h], a) \/ (h = g /\ a = x)
  BY <1>1
<1>4. \A h \in Goroutines : \A a : At(h, a) => At(h, a)' \/ (h = g /\ a = x)
  BY <1>1 DEF At
<1>5. /\ todo' \in [Goroutines -> Seq(Steps)]
      /\ InProgram'
  BY <1>1, <1>2, AdvanceKeeps DEF Advances
<1>6. Counts'
  <2>1. hand' => At("in", "copy")'
    BY <1>4 DEF Counts, Goroutines
  <2>2. got' + wire' + (IF hand' THEN 1 ELSE 0) <= taken'
    BY DEF Counts, TypeOK, inVars
  <2> QED BY <2>1, <2>2 DEF Counts, inVars
<1>7. ASSUME x # "closeOut", UNCHANGED outClosed PROVE OneCloser'
  <2>1. reply' => \E h \in Goroutines : At(h, "produce")'
    BY <1>4 DEF OneCloser
  <2>2. Has(todo["out"], "closeOut") => Has(todo'["out"], "closeOut")
    BY <1>3, <1>7 DEF Goroutines
  <2>3. Has(todo["main"], "join") => Has(todo'["main"], "join") \/ todo["out"] = <<>>
    BY <1>3 DEF Goroutines
  <2> QED BY <1>1, <1>2, <1>7, <2>1, <2>2, <2>3, AdvanceOneCloser
<1>8. DrainsAtLast'
  <2>1. \A h \in {"in", "main"} : Has(todo[h], "drain") =>
          inClosed' \/ Has(todo'[h], "drain") \/ Has(todo'["main"], "drain")
    BY <1>3 DEF Goroutines, inVars
  <2> QED BY <1>1, <1>2, <2>1, AdvanceDrains DEF inVars
<1>9. WaitsFor'
  <2>1. Has(todo["main"], "join") =>
          Has(todo'["main"], "join") \/ (todo["in"] = <<>> /\ todo["out"] = <<>>)
    BY <1>3 DEF Goroutines
  <2>2. Has(todo["main"], "sync") => Has(todo'["main"], "sync") \/ todo'["in"] = <<>>
    BY <1>3 DEF Goroutines
  <2> QED BY <1>1, <1>2, <2>1, <2>2, AdvanceWaits
<1> QED BY <1>1, <1>2, <1>5, <1>6, <1>7, <1>8, <1>9

(* All goroutines stay where they are. *)
LEMMA StayKeeps ==
  ASSUME IInv, UNCHANGED <<kind, todo, outClosed, loop>>,
         inClosed => inClosed',
         reply' => \E g \in Goroutines : At(g, "produce")
  PROVE  /\ todo' \in [Goroutines -> Seq(Steps)]
         /\ InProgram' /\ OneCloser' /\ DrainsAtLast' /\ WaitsFor'
         /\ Unspawned' = Unspawned /\ Copying' = Copying /\ Producing' = Producing
<1>1. todo' \in [Goroutines -> Seq(Steps)] BY DEF IInv, TypeOK
<1>2. Unspawned' = Unspawned /\ Copying' = Copying /\ Producing' = Producing
  BY DEF Unspawned, Copying, Producing
<1>3. InProgram' BY DEF IInv, InProgram, Unspawned
<1>4. OneCloser' BY DEF IInv, OneCloser, Closer, Unspawned, At
<1>5. DrainsAtLast' BY DEF IInv, DrainsAtLast, Unspawned
<1>6. WaitsFor' BY DEF IInv, WaitsFor, AllDone
<1> QED BY <1>1, <1>2, <1>3, <1>4, <1>5, <1>6

(* A stream that keeps every payload: its pipe holds none, its sender has  *)
(* closed once somebody drains, and it was read once its writer is closed. *)
LEMMA KeptStream ==
  ASSUME IInv, kind.emits = "all"
  PROVE  /\ kind.far = "self" /\ kind.giveUp = <<>>
         /\ kind.room = 0 /\ wire = 0 /\ ~cancelled
         /\ \A g \in Goroutines : \A x : At(g, x) => x \in Kept
         /\ ~failed => \A x : At("in", x) /\ x # "copy" => inClosed
         /\ ~failed => \A x \in {"closeWriter", "drain", "sync"} : At("main", x) =>
              ~Producing /\ ~writer /\ sent = got /\ ~Copying /\ inClosed
<1> USE DEF IInv
<1>1. KindOk(kind) BY KindsOk DEF TypeOK
<1>2. kind.far = "self" /\ kind.giveUp = <<>> /\ kind.room = 0
  BY <1>1 DEF KindOk, KindKeepsAll
<1>3. wire = 0 BY <1>2 DEF TypeOK
<1>4. ~cancelled /\ \A g \in Goroutines : Of(todo[g], Kept)
  BY DEF NoneLost, Kept
<1>5. \A g \in Goroutines : \A x : At(g, x) => x \in Kept
  BY <1>4, AtStep
<1>6. ASSUME ~failed, NEW x, At("in", x), x # "copy" PROVE inClosed
  <2>1. ~Copying BY <1>6, AtStep DEF Goroutines
  <2>2. ~Unspawned BY <1>6 DEF InProgram, At, Goroutines
  <2> QED BY <1>6, <2>1, <2>2 DEF NoneLost
<1>7. ASSUME ~failed, NEW x \in {"closeWriter", "drain", "sync"}, At("main", x)
      PROVE  ~Producing /\ ~writer /\ sent = got /\ ~Copying /\ inClosed
  <2>1. ~Unspawned BY <1>7, PastSpawn DEF Goroutines
  <2>2. Never(todo["main"], x, {"produce"}) BY <1>7 DEF InProgram, MainOrder
  <2>3. ~Has(todo["main"], "produce") BY <1>7, <2>2, AtStep DEF Goroutines
  <2>4. ~Of(todo["main"], {"done"}) BY <1>7, AtStep DEF Goroutines
  <2>5. ~Producing BY <2>1, <2>3, <2>4 DEF NoneLost, Producing
  <2> QED BY <1>7, <2>1, <2>5 DEF NoneLost
<1> QED BY <1>2, <1>3, <1>4, <1>5, <1>6, <1>7

(* A step that reads and writes nothing *)
LEMMA GoNoneLost ==
  ASSUME IInv, NEW g \in Goroutines, NEW x, At(g, x), Go(g), Advances, ~Unspawned,
         x \notin {"copy", "produce", "cancel"},
         kind.emits = "all" => UNCHANGED cancelled /\ (failed => failed'),
         writer' => writer,
         ~writer' => ~writer \/ x = "closeWriter" \/ x = "closeConn",
         UNCHANGED <<kind, inVars, hand, got, sent>>
  PROVE  NoneLost'
<1>1. \A h \in Goroutines : \A a : Has(todo[h], a) =>
        Has(todo'[h], a) \/ (h = g /\ a = x)
  BY GoAdvances DEF IInv
<1>2. (Copying => Copying') /\ (Producing => Producing')
  BY <1>1 DEF Copying, Producing, Goroutines
<1>3. Copying' => Copying
  BY AdvanceKeeps DEF Copying, IInv, Goroutines
<1>4. ASSUME kind.emits = "all", ~failed'
      PROVE  /\ taken' = got' + (IF hand' THEN 1 ELSE 0)
             /\ ~writer' => ~writer \/ ~Copying'
  <2>1. ~failed BY <1>4
  <2>2. taken = got + (IF hand THEN 1 ELSE 0) BY <1>4, <2>1 DEF IInv, NoneLost
  <2>3. x # "closeConn" BY <1>4, KeptStream DEF Kept
  <2>4. ASSUME x = "closeWriter", Copying PROVE ~writer
    <3>1. CASE g = "in" BY <3>1, <2>4, AtStep DEF IInv
    <3>2. CASE g = "main" BY <3>2, <2>4, <1>4, <2>1, KeptStream
    <3>3. ASSUME g = "out" PROVE FALSE
      BY <3>3, <2>4, AtStep DEF IInv, InProgram, ProduceOrder, Goroutines
    <3>4. ASSUME g = "run" PROVE FALSE
      BY <3>4, <2>4, AtStep DEF IInv, InProgram, RunOrder, Goroutines
    <3> QED BY <3>1, <3>2, <3>3, <3>4 DEF Goroutines
  <2> QED BY <1>3, <2>2, <2>3, <2>4 DEF inVars
<1>5. ASSUME kind.emits = "all", ~failed', ~Producing'
      PROVE  \/ ~Producing /\ writer' = writer /\ sent' = sent /\ got' = got
             \/ ~writer' /\ sent' = got'
  <2>1. ~failed /\ ~Producing BY <1>5, <1>2
  <2>2. ~writer /\ sent = got BY <1>5, <2>1 DEF IInv, NoneLost
  <2> QED BY <2>2
<1> QED BY <1>2, <1>4, <1>5, AdvanceNoneLost, KeptStream DEF IInv, inVars

-----------------------------------------------------------------------------
(* Each action keeps the invariant. *)

(* A step that touches neither the pipe nor a channel *)
LEMMA PureStepKeeps ==
  ASSUME IInv, NEW g \in Goroutines, NEW x, At(g, x), Go(g),
         x \notin {"setup", "spawn", "request", "response", "sync", "copy",
                   "produce", "closeOut", "cancel"},
         x = "drain" => inClosed,
         x = "join" => todo["in"] = <<>> /\ todo["out"] = <<>>,
         UNCHANGED <<kind, inVars, pipeVars, outVars, cancelled, failed, loop, panic>>
  PROVE  IInv'
<1> USE DEF inVars, pipeVars, outVars
<1>1. /\ Advances /\ ~Unspawned
      /\ todo' \in [Goroutines -> Seq(Steps)]
      /\ InProgram' /\ Counts' /\ DrainsAtLast' /\ WaitsFor' /\ OneCloser'
  BY GoKeeps
<1>2. TypeOK' BY <1>1 DEF IInv, TypeOK
<1>3. NoneLost' BY <1>1, GoNoneLost
<1> QED BY <1>1, <1>2, <1>3 DEF IInv

LEMMA ReturnKeeps == ASSUME IInv, NEW g \in Goroutines, Return(g) PROVE IInv'
BY PureStepKeeps DEF Return

LEMMA JoinKeeps == ASSUME IInv, Join PROVE IInv'
BY PureStepKeeps DEF Join, Goroutines

LEMMA AwaitKeeps == ASSUME IInv, AwaitCancel \/ AwaitPeer \/ Goahead \/ Exit PROVE IInv'
<1>1. CASE AwaitCancel BY <1>1, PureStepKeeps DEF AwaitCancel, Goroutines
<1>2. CASE AwaitPeer BY <1>2, PureStepKeeps DEF AwaitPeer, Goroutines
<1>3. CASE Goahead BY <1>3, PureStepKeeps DEF Goahead, Goroutines
<1>4. CASE Exit BY <1>4, PureStepKeeps DEF Exit, Goroutines
<1> QED BY <1>1, <1>2, <1>3, <1>4

LEMMA CloseKeeps == ASSUME IInv, NEW g \in Goroutines, Close(g) PROVE IInv'
<1> USE DEF inVars, outVars
<1>1. PICK x \in {"closeWriter", "closeReader", "closeConn"} :
        /\ At(g, x) /\ (writer' => writer)
        /\ ~writer' => ~writer \/ x = "closeWriter" \/ x = "closeConn"
        /\ writer' \in BOOLEAN /\ reader' \in {"idle", "open", "closed"}
  <2>1. writer \in BOOLEAN /\ reader \in {"idle", "open", "closed"}
    BY DEF IInv, TypeOK
  <2>2. CASE At(g, "closeWriter") /\ writer' = FALSE /\ UNCHANGED reader
    BY <2>1, <2>2
  <2>3. CASE At(g, "closeReader") /\ reader' = "closed" /\ UNCHANGED writer
    BY <2>1, <2>3
  <2>4. CASE At(g, "closeConn") /\ reader' = "closed" /\ writer' = FALSE
    BY <2>1, <2>4
  <2> QED BY <2>2, <2>3, <2>4 DEF Close
<1>2. /\ Go(g)
      /\ UNCHANGED <<kind, inVars, hand, wire, got, outVars, cancelled, failed,
                     loop, panic>>
  BY DEF Close
<1>3. /\ Advances /\ ~Unspawned
      /\ todo' \in [Goroutines -> Seq(Steps)]
      /\ InProgram' /\ Counts' /\ DrainsAtLast' /\ WaitsFor' /\ OneCloser'
  BY <1>1, <1>2, GoKeeps
<1>4. TypeOK' BY <1>1, <1>2, <1>3 DEF IInv, TypeOK
<1>5. NoneLost' BY <1>1, <1>2, <1>3, GoNoneLost
<1> QED BY <1>3, <1>4, <1>5 DEF IInv

LEMMA CancelKeeps == ASSUME IInv, NEW g \in Goroutines, Cancel(g) PROVE IInv'
<1> USE DEF inVars, pipeVars, outVars, Cancel
<1>1. /\ Advances /\ ~Unspawned
      /\ todo' \in [Goroutines -> Seq(Steps)]
      /\ InProgram' /\ Counts' /\ DrainsAtLast' /\ WaitsFor' /\ OneCloser'
  BY GoKeeps
<1>2. TypeOK' BY <1>1 DEF IInv, TypeOK
<1>3. kind.emits # "all" BY KeptStream DEF Kept
<1>4. NoneLost' BY <1>3 DEF NoneLost
<1> QED BY <1>1, <1>2, <1>4 DEF IInv

LEMMA CloseOutKeeps == ASSUME IInv, NEW g \in Goroutines, CloseOut(g) PROVE IInv'
<1> USE DEF inVars, pipeVars, CloseOut
<1>1. /\ Advances /\ ~Unspawned
      /\ todo' \in [Goroutines -> Seq(Steps)]
      /\ InProgram' /\ Counts' /\ DrainsAtLast' /\ WaitsFor'
  BY GoKeeps
<1>2. TypeOK' BY <1>1 DEF IInv, TypeOK
<1>3. NoneLost' BY <1>1, GoNoneLost
<1>4. OneCloser'
  <2>1. /\ todo'[g] = Tail(todo[g])
        /\ \A h \in Goroutines \ {g} : todo'[h] = todo[h]
    BY GoAdvances DEF IInv
  <2>2. g \in {"main", "out"} /\ Has(todo[g], "closeOut") /\ Closer(g)
    BY AtStep DEF IInv, Closer
  <2>3. todo[g] \in Seq(Steps) /\ todo[g] # <<>> /\ Head(todo[g]) = "closeOut"
    BY DEF IInv, TypeOK, At
  <2>4. ~Has(todo'[g], "closeOut") /\ ~Has(todo'[g], "produce")
    <3>1. Never(todo[g], "closeOut", {"closeOut", "produce"}) \/
          Never(todo[g], "closeOut", {"closeOut", "produce", "request", "response"})
      BY <2>2 DEF IInv, InProgram, MainOrder, ProduceOrder
    <3> QED BY <2>1, <2>3, <3>1, TailKeeps
  <2>5. g = "main" => ~Has(todo'[g], "request") /\ ~Has(todo'[g], "response")
    BY <2>1, <2>3, TailKeeps DEF IInv, InProgram, MainOrder
  <2>6. /\ ~Unspawned'
        /\ \A h \in Goroutines : \A a : Has(todo'[h], a) => Has(todo[h], a)
        /\ Then(todo["main"], "join", "closeOut") =>
             Then(todo'["main"], "join", "closeOut")
    BY <1>1, AdvanceKeeps DEF IInv, Goroutines
  <2>7. \A h \in Goroutines : ~Closer(h)'
    <3>1. ~Closer(g)' BY <2>4, <2>5, <2>6 DEF Closer
    <3>2. ASSUME NEW h \in Goroutines \ {g}, Closer(h)' PROVE FALSE
      <4>1. Closer(h) BY <3>2, <2>6 DEF Closer, Goroutines
      <4> QED BY <4>1, <2>2, <3>2 DEF IInv, OneCloser
    <3> QED BY <3>1, <3>2
  <2>8. ASSUME Has(todo'["out"], "produce")
        PROVE  \/ Has(todo'["out"], "closeOut")
               \/ Has(todo'["main"], "join") /\ Then(todo'["main"], "join", "closeOut")
    <3>1. g = "main" /\ todo'["out"] = todo["out"]
      BY <2>1, <2>2, <2>4, <2>8 DEF Goroutines
    <3>2. Has(todo["main"], "join") => Has(todo'["main"], "join")
      BY <3>1, GoAdvances DEF IInv
    <3> QED BY <3>1, <3>2, <2>6, <2>8 DEF IInv, OneCloser
  <2>9. reply' => \E h \in Goroutines : At(h, "produce")'
    BY <2>1, <2>3 DEF IInv, OneCloser, At
  <2> QED BY <2>7, <2>8, <2>9 DEF OneCloser
<1> QED BY <1>1, <1>2, <1>3, <1>4 DEF IInv

LEMMA DrainKeeps == ASSUME IInv, NEW g \in Goroutines, Drain(g) PROVE IInv'
<1> USE DEF inVars, pipeVars, outVars
<1>1. CASE inClosed /\ Go(g) /\ UNCHANGED inVars
  BY <1>1, PureStepKeeps DEF Drain
<1>2. CASE offer /\ offer' = FALSE /\ taken' = taken + 1 /\ UNCHANGED <<todo, inClosed>>
  <2> USE <1>2 DEF Drain
  <2>1. /\ todo' \in [Goroutines -> Seq(Steps)]
        /\ InProgram' /\ OneCloser' /\ DrainsAtLast' /\ WaitsFor'
        /\ Unspawned' = Unspawned /\ Copying' = Copying /\ Producing' = Producing
    BY StayKeeps DEF IInv, OneCloser
  <2>2. /\ taken \in Nat /\ got \in Nat /\ wire \in Nat /\ taken < Payloads
        /\ got + wire + (IF hand THEN 1 ELSE 0) <= taken
    <3>1. kind.room \in Nat BY KindsOk DEF KindOk, KindSteps, IInv, TypeOK
    <3> QED BY <3>1 DEF IInv, TypeOK, Counts
  <2>3. TypeOK'
    <3>1. taken' \in 0..Payloads /\ got' \in 0..taken'
      BY <2>2, PipedStreamAssumption DEF IInv, TypeOK
    <3> QED BY <3>1, <2>1 DEF IInv, TypeOK
  <2>4. Counts' BY <2>2 DEF IInv, Counts, At
  <2>5. ASSUME kind.emits = "all" PROVE failed
    <3>1. g \in {"in", "main"} BY AtStep DEF IInv
    <3>2. ~failed => inClosed BY <2>5, <3>1, KeptStream
    <3> QED BY <3>2 DEF IInv, Counts
  <2>6. NoneLost' BY <2>1, <2>5 DEF IInv, NoneLost
  <2> QED BY <2>1, <2>3, <2>4, <2>6 DEF IInv
<1> QED BY <1>1, <1>2 DEF Drain

(* The steps of goroutine `in' *)
LEMMA InputEndsKeeps ==
  ASSUME IInv, InputEnds \/ Cancelled \/ PingFails PROVE IInv'
<1> USE DEF inVars, pipeVars, outVars
<1>1. /\ At("in", "copy") /\ ~hand /\ Go("in")
      /\ UNCHANGED <<kind, inVars, pipeVars, outVars, cancelled, loop, panic>>
      /\ failed' \in BOOLEAN /\ (failed => failed')
      /\ inClosed \/ cancelled \/ failed'
  BY DEF InputEnds, Cancelled, PingFails, IInv, TypeOK
<1>2. /\ Advances /\ ~Unspawned
      /\ todo' \in [Goroutines -> Seq(Steps)]
      /\ InProgram' /\ Counts' /\ DrainsAtLast' /\ WaitsFor' /\ OneCloser'
  BY <1>1, GoKeeps DEF Goroutines
<1>3. TypeOK' BY <1>1, <1>2 DEF IInv, TypeOK
<1>4. Producing' = Producing
  BY <1>1, GoAdvances DEF IInv, Producing, Goroutines
<1>5. Copying' => Copying BY <1>2, <1>1, AdvanceKeeps DEF IInv, Copying, Goroutines
<1>6. ASSUME kind.emits = "all", ~failed'
      PROVE  /\ taken' = got' + (IF hand' THEN 1 ELSE 0)
             /\ ~writer' => ~writer
             /\ ~Copying' => inClosed
             /\ ~Producing' => ~writer' /\ sent' = got'
  BY <1>1, <1>2, <1>4, <1>6, KeptStream DEF IInv, NoneLost
<1>7. NoneLost' BY <1>1, <1>2, <1>4, <1>5, <1>6, KeptStream, AdvanceNoneLost DEF IInv
<1> QED BY <1>2, <1>3, <1>7 DEF IInv

LEMMA WriteFailsKeeps == ASSUME IInv, WriteFails PROVE IInv'
<1> USE DEF inVars, outVars, WriteFails
<1>1. At("in", "copy") BY DEF IInv, Counts
<1>2. /\ Advances /\ ~Unspawned
      /\ todo' \in [Goroutines -> Seq(Steps)]
      /\ InProgram' /\ Counts' /\ DrainsAtLast' /\ WaitsFor' /\ OneCloser'
  BY <1>1, GoKeeps DEF Goroutines
<1>3. TypeOK' BY <1>2 DEF IInv, TypeOK
<1>4. NoneLost' BY <1>2, KeptStream, AdvanceNoneLost DEF IInv
<1> QED BY <1>2, <1>3, <1>4 DEF IInv

LEMMA ProducedKeeps == ASSUME IInv, NEW g \in Goroutines, Produced(g) PROVE IInv'
<1> USE DEF inVars, pipeVars, outVars
<1>1. /\ At(g, "produce") /\ ~reply /\ Go(g)
      /\ UNCHANGED <<kind, inVars, pipeVars, outVars, cancelled, loop, panic>>
      /\ failed' \in BOOLEAN /\ (failed => failed')
      /\ ~failed' /\ kind.far = "self" => AtEof /\ Flushed
  <2>1. failed \in BOOLEAN BY DEF IInv, TypeOK
  <2>2. CASE (kind.far = "self" => AtEof /\ Flushed) /\ UNCHANGED failed
    BY <2>1, <2>2 DEF Produced
  <2>3. CASE failed' = TRUE BY <2>3 DEF Produced
  <2> QED BY <2>2, <2>3 DEF Produced
<1>2. /\ Advances /\ ~Unspawned
      /\ todo' \in [Goroutines -> Seq(Steps)]
      /\ InProgram' /\ Counts' /\ DrainsAtLast' /\ WaitsFor' /\ OneCloser'
  BY <1>1, GoKeeps
<1>3. TypeOK' BY <1>1, <1>2 DEF IInv, TypeOK
<1>4. g # "in" BY <1>1, AtStep DEF IInv
<1>5. Copying' = Copying
  BY <1>1, <1>4, GoAdvances DEF IInv, Copying, Goroutines
<1>6. ASSUME kind.emits = "all", ~failed'
      PROVE  /\ taken' = got' + (IF hand' THEN 1 ELSE 0)
             /\ ~writer' /\ sent' = got'
  BY <1>1, <1>6, KeptStream DEF IInv, NoneLost, AtEof, Flushed
<1>7. NoneLost' BY <1>1, <1>2, <1>5, <1>6, KeptStream, AdvanceNoneLost DEF IInv
<1> QED BY <1>2, <1>3, <1>7 DEF IInv

(* The neighbours and the pipe: no goroutine goes on. *)
LEMMA NeighboursKeep ==
  ASSUME IInv, Offer \/ CloseInput \/ Deliver PROVE IInv'
<1> USE DEF inVars, pipeVars, outVars
<1>1. CASE Offer
  <2> USE <1>1 DEF Offer
  <2>1. /\ todo' \in [Goroutines -> Seq(Steps)]
        /\ InProgram' /\ OneCloser' /\ DrainsAtLast' /\ WaitsFor'
        /\ Unspawned' = Unspawned /\ Copying' = Copying /\ Producing' = Producing
    BY StayKeeps DEF IInv, OneCloser
  <2>2. TypeOK' BY <2>1 DEF IInv, TypeOK
  <2>3. Counts' BY DEF IInv, Counts, At
  <2>4. NoneLost' BY <2>1 DEF IInv, NoneLost
  <2> QED BY <2>1, <2>2, <2>3, <2>4 DEF IInv
<1>2. CASE CloseInput
  <2> USE <1>2 DEF CloseInput
  <2>1. /\ todo' \in [Goroutines -> Seq(Steps)]
        /\ InProgram' /\ OneCloser' /\ DrainsAtLast' /\ WaitsFor'
        /\ Unspawned' = Unspawned /\ Copying' = Copying /\ Producing' = Producing
    BY StayKeeps DEF IInv, OneCloser
  <2>2. TypeOK' BY <2>1 DEF IInv, TypeOK
  <2>3. Counts' BY DEF IInv, Counts, At
  <2>4. NoneLost' BY <2>1 DEF IInv, NoneLost
  <2> QED BY <2>1, <2>2, <2>3, <2>4 DEF IInv
<1>3. CASE Deliver
  <2> USE <1>3 DEF Deliver
  <2>1. /\ todo' \in [Goroutines -> Seq(Steps)]
        /\ InProgram' /\ OneCloser' /\ DrainsAtLast' /\ WaitsFor'
        /\ Unspawned' = Unspawned /\ Copying' = Copying /\ Producing' = Producing
    BY StayKeeps DEF IInv, OneCloser
  <2>2. /\ sent \in Nat /\ got \in Nat /\ got <= Payloads
        /\ sent + 1 <= got \/ sent + 1 <= Replies
    BY PipedStreamAssumption DEF IInv, TypeOK, Counts
  <2>3. TypeOK'
    <3>1. sent' \in 0..(Payloads + Replies) BY <2>2, PipedStreamAssumption
    <3>2. TypeOK BY DEF IInv
    <3>3. /\ reply' = FALSE
          /\ UNCHANGED <<kind, taken, offer, inClosed, hand, wire, writer,
                         reader, got, outClosed, cancelled, failed, loop, panic>>
      OBVIOUS
    <3> HIDE <1>3 DEF Deliver
    <3> QED BY <2>1, <3>1, <3>2, <3>3 DEF TypeOK
  <2>4. Counts' BY <2>2 DEF IInv, Counts, At
  <2>5. Producing
    <3>1. PICK g \in Goroutines : At(g, "produce") BY DEF IInv, OneCloser
    <3> QED BY <3>1, AtStep DEF IInv, Producing
  <2>6. NoneLost' BY <2>1, <2>5 DEF IInv, NoneLost
  <2> QED BY <2>1, <2>3, <2>4, <2>6 DEF IInv
<1> QED BY <1>1, <1>2, <1>3

LEMMA TakeKeeps == ASSUME IInv, Take PROVE IInv'
<1> USE DEF outVars, Take
<1>1. /\ todo' \in [Goroutines -> Seq(Steps)]
      /\ InProgram' /\ OneCloser' /\ DrainsAtLast' /\ WaitsFor'
      /\ Unspawned' = Unspawned /\ Copying' = Copying /\ Producing' = Producing
  BY StayKeeps DEF IInv, OneCloser
<1>2. /\ taken \in Nat /\ got \in Nat /\ wire \in Nat /\ taken < Payloads
      /\ got + wire <= taken
  <2>1. kind.room \in Nat BY KindsOk DEF KindOk, KindSteps, IInv, TypeOK
  <2> QED BY <2>1 DEF IInv, TypeOK, Counts
<1>3. TypeOK'
  <2>1. taken' \in 0..Payloads /\ got' \in 0..taken'
    BY <1>2, PipedStreamAssumption DEF IInv, TypeOK
  <2> QED BY <1>1, <2>1 DEF IInv, TypeOK
<1>4. Counts' BY <1>2 DEF IInv, Counts, At
<1>5. NoneLost' BY <1>1, <1>2 DEF IInv, NoneLost
<1> QED BY <1>1, <1>3, <1>4, <1>5 DEF IInv

LEMMA WriteKeeps == ASSUME IInv, Write PROVE IInv'
<1> USE DEF inVars, outVars, Write
<1>1. /\ todo' \in [Goroutines -> Seq(Steps)]
      /\ InProgram' /\ OneCloser' /\ DrainsAtLast' /\ WaitsFor'
      /\ Unspawned' = Unspawned /\ Copying' = Copying /\ Producing' = Producing
  BY StayKeeps DEF IInv, OneCloser
<1>2. kind.room \in Nat BY KindsOk DEF KindOk, KindSteps, IInv, TypeOK
<1>3. TypeOK'
  <2>1. wire' \in 0..kind.room' BY <1>2 DEF IInv, TypeOK
  <2> QED BY <1>1, <2>1 DEF IInv, TypeOK
<1>4. Counts' BY <1>2 DEF IInv, Counts, At, TypeOK
<1>5. kind.emits # "all" BY <1>2, KeptStream
<1>6. NoneLost' BY <1>5 DEF NoneLost
<1> QED BY <1>1, <1>3, <1>4, <1>6 DEF IInv

LEMMA ReadKeeps == ASSUME IInv, NEW g \in Goroutines, Read(g) PROVE IInv'
<1> USE DEF inVars, outVars, Read
<1>1. /\ todo' \in [Goroutines -> Seq(Steps)]
      /\ InProgram' /\ OneCloser' /\ DrainsAtLast' /\ WaitsFor'
      /\ Unspawned' = Unspawned /\ Copying' = Copying /\ Producing' = Producing
  BY StayKeeps DEF IInv, OneCloser
<1>2. kind.room \in Nat BY KindsOk DEF KindOk, KindSteps, IInv, TypeOK
<1>3. /\ wire \in 0..kind.room /\ got \in Nat /\ taken \in Nat
      /\ got + wire + (IF hand THEN 1 ELSE 0) <= taken
  BY DEF IInv, TypeOK, Counts
<1>4. /\ wire' \in 0..kind.room /\ hand' \in BOOLEAN /\ (hand' => hand)
      /\ wire' + (IF hand' THEN 1 ELSE 0) = wire + (IF hand THEN 1 ELSE 0) - 1
      /\ kind.room = 0 => hand /\ ~hand'
  <2>1. hand \in BOOLEAN BY DEF IInv, TypeOK
  <2>2. CASE wire > 0 /\ wire' = wire - 1 /\ UNCHANGED hand
    BY <1>2, <1>3, <2>1, <2>2
  <2>3. CASE kind.room = 0 /\ hand /\ writer /\ hand' = FALSE /\ UNCHANGED wire
    <3>1. wire = 0 /\ wire' = 0 /\ wire' \in 0..kind.room BY <1>3, <2>3
    <3>2. (IF hand THEN 1 ELSE 0) = 1 /\ (IF hand' THEN 1 ELSE 0) = 0 BY <2>3
    <3>3. 0 + 0 = 0 + 1 - 1 OBVIOUS
    <3>4. wire' + (IF hand' THEN 1 ELSE 0) = wire + (IF hand THEN 1 ELSE 0) - 1
      BY <3>1, <3>2, <3>3
    <3>5. hand' = FALSE /\ hand BY <2>3
    <3> QED BY <3>1, <3>4, <3>5
  <2> QED BY <2>2, <2>3 DEF Consume
<1>5. got' + wire' + (IF hand' THEN 1 ELSE 0) <= taken' /\ got' \in 0..taken'
  <2> DEFINE held == IF hand THEN 1 ELSE 0
             left == IF hand' THEN 1 ELSE 0
  <2>1. held \in {0, 1} /\ left \in {0, 1} OBVIOUS
  <2>2. wire \in Nat /\ wire' \in Nat BY <1>2, <1>3, <1>4
  <2>3. wire' + left = wire + held - 1 /\ got + wire + held <= taken BY <1>3, <1>4
  <2> HIDE DEF held, left
  <2>4. got \in Nat /\ taken \in Nat /\ got' = got + 1 BY <1>3
  <2>5. \A n, m, w, v, a, b \in Nat :
          /\ b \in {0, 1} /\ v + b = w + a - 1 /\ n + w + a <= m
          => n + 1 + v + b <= m /\ n + 1 \in 0..m
    OBVIOUS
  <2>6. held \in Nat /\ left \in Nat BY <2>1
  <2>7. got + 1 + wire' + left <= taken /\ got + 1 \in 0..taken
    BY <2>1, <2>2, <2>3, <2>4, <2>5, <2>6
  <2> QED BY <2>4, <2>7 DEF left
<1>6. TypeOK' BY <1>1, <1>4, <1>5 DEF IInv, TypeOK
<1>7. Counts' 
  <2>1. kind.emits \in {"all", "some"} => sent + (IF reply THEN 1 ELSE 0) <= got'
    BY <1>3 DEF IInv, TypeOK, Counts
  <2> QED BY <2>1, <1>4, <1>5 DEF IInv, Counts, At
<1>8. ASSUME kind.emits = "all"
      PROVE  Producing /\ (taken = got + (IF hand THEN 1 ELSE 0) =>
                             taken' = got' + (IF hand' THEN 1 ELSE 0))
  <2>1. At(g, "produce") BY <1>8, KeptStream DEF Reads
  <2>2. Producing BY <2>1, AtStep DEF IInv, Producing
  <2> QED BY <2>2, <1>3, <1>4, <1>8, KeptStream
<1>9. NoneLost' BY <1>1, <1>8 DEF IInv, NoneLost
<1> QED BY <1>1, <1>6, <1>7, <1>9 DEF IInv

LEMMA EmitKeeps == ASSUME IInv, NEW g \in Goroutines, Emit(g) PROVE IInv'
<1> USE DEF inVars, pipeVars, Emit
<1>1. /\ todo' \in [Goroutines -> Seq(Steps)]
      /\ InProgram' /\ OneCloser' /\ DrainsAtLast' /\ WaitsFor'
      /\ Unspawned' = Unspawned /\ Copying' = Copying /\ Producing' = Producing
  BY StayKeeps
<1>2. reply' \in BOOLEAN /\ panic' \in {"none", "channel", "nil"}
  BY DEF IInv, TypeOK
<1>3. TypeOK' BY <1>1, <1>2 DEF IInv, TypeOK
<1>4. kind.emits \in {"all", "some", "none", "any"}
  BY KindsOk DEF KindOk, KindSteps, IInv, TypeOK
<1>5. Counts'
  <2>1. sent \in Nat /\ got \in Nat BY DEF IInv, TypeOK
  <2>2. ASSUME kind.emits \in {"all", "some"}
        PROVE  sent + (IF reply' THEN 1 ELSE 0) <= got
    <3>1. sent < got BY <2>2 DEF HasOutput
    <3> QED BY <2>1, <3>1
  <2>3. ASSUME kind.emits \notin {"all", "some"}
        PROVE  sent + (IF reply' THEN 1 ELSE 0) <= Replies
    <3>1. kind.emits = "any" BY <1>4, <2>3 DEF HasOutput
    <3>2. sent < Replies BY <3>1 DEF HasOutput
    <3> QED BY <2>1, <3>2, PipedStreamAssumption
  <2> QED BY <2>2, <2>3 DEF IInv, Counts, At
<1>6. NoneLost' BY <1>1 DEF IInv, NoneLost
<1> QED BY <1>1, <1>3, <1>5, <1>6 DEF IInv

LEMMA FarClosesKeeps == ASSUME IInv, FarCloses PROVE IInv'
<1> USE DEF inVars, outVars, FarCloses
<1>1. /\ todo' \in [Goroutines -> Seq(Steps)]
      /\ InProgram' /\ OneCloser' /\ DrainsAtLast' /\ WaitsFor'
  BY StayKeeps DEF IInv, OneCloser
<1>2. TypeOK' BY <1>1 DEF IInv, TypeOK
<1>3. Counts' BY DEF IInv, Counts, At
<1>4. kind.emits # "all" BY KeptStream
<1>5. NoneLost' BY <1>4 DEF NoneLost
<1> QED BY <1>1, <1>2, <1>3, <1>5 DEF IInv

LEMMA TerminateKeeps == ASSUME IInv, Terminate PROVE IInv'
<1> USE DEF inVars, pipeVars, outVars, Terminate
<1>1. Waited => ("main" \in kind.counted => AllDone)
  <2> SUFFICES ASSUME Waited, "main" \in kind.counted, NEW g \in Goroutines
               PROVE  todo[g] = <<>>
    BY DEF AllDone
  <2>1. todo["main"] = <<>> BY DEF Waited
  <2>2. ~Has(todo["main"], "join") /\ ~Has(todo["main"], "sync")
    BY <2>1, EmptyHas
  <2> QED BY <2>1, <2>2 DEF IInv, WaitsFor, Waited
<1>2. InProgram' /\ Unspawned' = Unspawned BY DEF IInv, InProgram, Unspawned
<1>3. OneCloser' BY DEF IInv, OneCloser, Closer, Unspawned, At
<1>4. DrainsAtLast' BY DEF IInv, DrainsAtLast, Unspawned
<1>5. WaitsFor' BY <1>1 DEF IInv, WaitsFor, AllDone
<1>6. TypeOK' BY DEF IInv, TypeOK
<1>7. Counts' BY DEF IInv, Counts, At
<1>8. NoneLost' BY <1>2 DEF IInv, NoneLost, Copying, Producing
<1> QED BY <1>2, <1>3, <1>4, <1>5, <1>6, <1>7, <1>8 DEF IInv

(* Two goroutines that meet: the handler goes on with another. *)
LEMMA TellKeeps == ASSUME IInv, Tell PROVE IInv'
<1> USE DEF inVars, pipeVars, outVars
<1>1. CASE At("in", "awaitCancel") /\ Go("main")
  BY <1>1, PureStepKeeps DEF Tell, Goroutines
<1>2. CASE /\ At("in", "copy") /\ ~hand
           /\ todo' = [todo EXCEPT !["main"] = Tail(@), !["in"] = Tail(@)]
  <2> USE <1>2 DEF Tell
  <2>1. /\ todo'["main"] = Tail(todo["main"]) /\ todo'["in"] = Tail(todo["in"])
        /\ \A g \in Goroutines \ {"main", "in"} : todo'[g] = todo[g]
    BY DEF IInv, TypeOK, Goroutines
  <2>2. \A g \in {"main", "in"} : todo[g] \in Seq(Steps) /\ todo[g] # <<>>
    BY DEF IInv, TypeOK, Goroutines, At
  <2>3. todo' \in [Goroutines -> Seq(Steps)]
    <3>1. Tail(todo["main"]) \in Seq(Steps) /\ Tail(todo["in"]) \in Seq(Steps)
      BY <2>2
    <3> QED BY <3>1 DEF IInv, TypeOK, Goroutines
  <2>4. Advances BY <2>1, <2>2, <2>3 DEF Advances, Goroutines
  <2>5. ~Unspawned BY PastSpawn DEF IInv, Goroutines
  <2>6. /\ \A a : Has(todo["main"], a) => a = "tell" \/ Has(todo'["main"], a)
        /\ \A a : Has(todo["in"], a) => a = "copy" \/ Has(todo'["in"], a)
    BY <2>1, <2>2, TailHas DEF At
  <2>7. InProgram' BY <2>4, <2>5, AdvanceKeeps DEF IInv
  <2>8. OneCloser'
    <3>1. reply' => \E g \in Goroutines : At(g, "produce")'
      BY <2>1 DEF IInv, OneCloser, At, Goroutines
    <3>2. todo'["out"] = todo["out"] BY <2>1 DEF Goroutines
    <3> QED BY <2>4, <2>5, <2>6, <3>1, <3>2, AdvanceOneCloser DEF IInv
  <2>9. DrainsAtLast' BY <2>4, <2>5, <2>6, AdvanceDrains DEF IInv
  <2>10. WaitsFor' BY <2>4, <2>5, <2>6, AdvanceWaits DEF IInv
  <2>11. TypeOK' BY <2>3 DEF IInv, TypeOK
  <2>12. Counts' BY DEF IInv, Counts
  <2>13. kind.emits # "all" BY KeptStream DEF Kept, Goroutines
  <2>14. NoneLost' BY <2>13 DEF NoneLost
  <2> QED BY <2>7, <2>8, <2>9, <2>10, <2>11, <2>12, <2>14 DEF IInv
<1> QED BY <1>1, <1>2 DEF Tell

LEMMA SyncKeeps == ASSUME IInv, Sync PROVE IInv'
<1> USE DEF inVars, pipeVars, outVars, Sync
<1>1. /\ todo'["main"] = Tail(todo["main"]) /\ todo'["in"] = <<>>
      /\ \A g \in Goroutines \ {"main", "in"} : todo'[g] = todo[g]
  BY DEF IInv, TypeOK, Goroutines
<1>2. todo["main"] \in Seq(Steps) /\ todo["main"] # <<>>
  BY DEF IInv, TypeOK, Goroutines, At
<1>3. todo' \in [Goroutines -> Seq(Steps)]
  <2>1. Tail(todo["main"]) \in Seq(Steps) /\ <<>> \in Seq(Steps) BY <1>2
  <2> QED BY <2>1 DEF IInv, TypeOK, Goroutines
<1>4. Advances BY <1>1, <1>2, <1>3 DEF Advances, Goroutines
<1>5. ~Unspawned BY PastSpawn DEF IInv, Goroutines
<1>6. \A a : Has(todo["main"], a) => a = "sync" \/ Has(todo'["main"], a)
  BY <1>1, <1>2, TailHas DEF At
<1>7. Has(todo'["main"], "drain")
  BY <1>1, <1>2, TailKeeps DEF IInv, InProgram, MainOrder, At
<1>8. todo'["out"] = todo["out"] BY <1>1 DEF Goroutines
<1>9. ~hand BY DEF IInv, Counts, At
<1>10. InProgram' BY <1>4, <1>5, AdvanceKeeps DEF IInv
<1>11. OneCloser'
  <2>1. reply' => \E g \in Goroutines : At(g, "produce")'
    <3>1. \A g \in Goroutines : At(g, "produce") => g \in {"main", "out"}
      BY AtStep DEF IInv
    <3>2. ~At("main", "produce") BY DEF At
    <3>3. reply => At("out", "produce") BY <3>1, <3>2 DEF IInv, OneCloser
    <3> QED BY <1>8, <3>3 DEF At, Goroutines
  <2> QED BY <1>4, <1>5, <1>6, <1>8, <2>1, AdvanceOneCloser DEF IInv
<1>12. DrainsAtLast' BY <1>7 DEF DrainsAtLast
<1>13. WaitsFor' BY <1>1, <1>4, <1>5, <1>6, AdvanceWaits DEF IInv
<1>14. TypeOK'
  <2>1. TypeOK BY DEF IInv
  <2>2. UNCHANGED <<kind, taken, offer, inClosed, hand, wire, writer, reader,
                    got, reply, sent, outClosed, cancelled, failed, loop, panic>>
    OBVIOUS
  <2> HIDE DEF Sync
  <2> QED BY <1>3, <2>1, <2>2 DEF TypeOK
<1>15. Counts' BY <1>9 DEF IInv, Counts
<1>16. NoneLost'
  <2>1. Producing' => Producing
    BY <1>4, <1>5, AdvanceKeeps DEF IInv, Producing, Goroutines
  <2>2. ASSUME kind.emits = "all", ~failed'
        PROVE  /\ taken' = got' + (IF hand' THEN 1 ELSE 0)
               /\ inClosed /\ ~writer /\ ~Copying /\ ~Producing
    BY <2>2, KeptStream DEF IInv, NoneLost
  <2> QED BY <1>4, <1>5, <2>1, <2>2, KeptStream, AdvanceNoneLost DEF IInv
<1> QED BY <1>10, <1>11, <1>12, <1>13, <1>14, <1>15, <1>16 DEF IInv

(* The handler starts, or gives up: no goroutine runs yet. *)
LEMMA SetupKeeps == ASSUME IInv, Setup PROVE IInv'
<1> USE DEF inVars, pipeVars, outVars
<1>1. At("main", "setup") BY DEF Setup
<1>2. KindOk(kind) BY KindsOk DEF IInv, TypeOK
<1>3. PICK s \in Seq(Steps) :
        /\ Leaving("main", Whole(s))
        /\ MainOrder(s) /\ ~Has(s, "setup")
        /\ \/ s = kind.main /\ UNCHANGED failed
           \/ ~Has(s, "spawn") /\ Has(s, "drain") /\ failed' = TRUE /\ kind.giveUp # <<>>
  <2>1. CASE Leaving("main", Whole(kind.main)) /\ UNCHANGED failed
    BY <1>2, <2>1 DEF KindOk, KindSteps
  <2>2. CASE kind.giveUp # <<>> /\ Leaving("main", Whole(kind.giveUp)) /\ failed' = TRUE
    BY <1>2, <2>2 DEF KindOk, KindSteps, KindGivesUp
  <2> QED BY <2>1, <2>2 DEF Setup
<1>4. UNCHANGED <<kind, inVars, pipeVars, outVars, cancelled, loop, panic>>
  BY DEF Setup
<1>5. Unspawned /\ todo["main"] # <<>> /\ todo["main"] \in Seq(Steps)
  <2>1. Has(todo["main"], "setup") BY <1>1, AtStep DEF IInv, Goroutines
  <2> QED BY <1>1, <2>1 DEF Unspawned, IInv, TypeOK, At, Goroutines
<1>6. /\ todo'["main"] = Whole(s)
      /\ \A g \in Goroutines \ {"main"} : todo'[g] = <<>> /\ todo[g] = <<>>
  BY <1>3, <1>5 DEF Leaving, IInv, TypeOK, InProgram, Goroutines
<1>7. ~reply /\ ~outClosed /\ ~hand
  <2>1. ~reply BY <1>1, <1>6 DEF IInv, OneCloser, At
  <2>2. ~outClosed BY <1>5 DEF IInv, OneCloser, Closer, Goroutines
  <2>3. ~hand BY <1>6 DEF IInv, Counts, At, Goroutines
  <2> QED BY <2>1, <2>2, <2>3
<1>8. TypeOK'
  <2>1. todo' \in [Goroutines -> Seq(Steps)]
    <3>1. Whole(s) \in Seq(Steps) BY WholeHas
    <3> QED BY <1>3, <3>1 DEF Leaving, IInv, TypeOK
  <2>2. failed' \in BOOLEAN BY <1>3 DEF IInv, TypeOK
  <2> QED BY <1>4, <2>1, <2>2 DEF IInv, TypeOK
<1>9. /\ MainOrder(Whole(s)) /\ Then(Whole(s), "closeOut", "done")
      /\ \A a : Has(Whole(s), a) <=> Has(s, a) \/ a = "done"
  BY <1>3, OrdersOfWhole, WholeHas
<1>10. InProgram'
  <2>1. ~Has(todo'["main"], "setup") BY <1>3, <1>6, <1>9
  <2>2. Has(todo'["main"], "spawn") => todo'["main"] = Whole(kind.main)
    BY <1>3, <1>6, <1>9
  <2>3. \A g \in Goroutines : Then(todo'[g], "closeOut", "done")
    BY <1>6, <1>9, EmptyHas
  <2> QED BY <1>4, <1>6, <1>9, <2>1, <2>2, <2>3, OrdersOfNothing
          DEF InProgram, Goroutines
<1>11. Counts' BY <1>4, <1>7 DEF IInv, Counts
<1>12. OneCloser'
  <2>1. \A g \in Goroutines : Closer(g)' => g = "main"
    BY <1>6, EmptyHas DEF Closer
  <2>2. ~Has(todo'["out"], "produce") BY <1>6, EmptyHas DEF Goroutines
  <2> QED BY <1>4, <1>7, <2>1, <2>2 DEF OneCloser
<1>13. DrainsAtLast'
  <2>1. CASE s = kind.main
    <3>1. Has(s, "spawn") BY <1>2, <2>1 DEF KindOk, KindSteps
    <3> QED BY <1>6, <1>9, <3>1 DEF DrainsAtLast, Unspawned
  <2>2. CASE Has(s, "drain") BY <1>6, <1>9, <2>2 DEF DrainsAtLast
  <2> QED BY <1>3, <2>1, <2>2
<1>14. WaitsFor'
  <2>1. ~(loop = "terminated" /\ "main" \in kind.counted)
    BY <1>5 DEF IInv, WaitsFor, AllDone, Goroutines
  <2> QED BY <1>4, <1>6, <2>1 DEF WaitsFor
<1>15. NoneLost'
  <2> SUFFICES ASSUME kind.emits = "all" PROVE NoneLost'
    BY <1>4 DEF NoneLost
  <2>1. s = kind.main /\ UNCHANGED failed BY <1>3, KeptStream
  <2>2. Of(s, Kept) /\ Has(s, "spawn")
    BY <1>2, <2>1 DEF KindOk, KindSteps, KindKeepsAll, Kept
  <2>3. \A g \in Goroutines : Of(todo'[g], Kept)
    <3>1. Of(Whole(s), Kept) BY <2>2, WholeHas DEF Kept
    <3> QED BY <1>6, <3>1, EmptyHas
  <2>4. Unspawned' BY <1>6, <1>9, <2>2 DEF Unspawned
  <2>5. ~failed => writer /\ taken = got + (IF hand THEN 1 ELSE 0)
    BY <1>5 DEF IInv, NoneLost
  <2> QED BY <1>4, <2>1, <2>3, <2>4, <2>5, KeptStream DEF NoneLost, Kept
<1> QED BY <1>8, <1>10, <1>11, <1>12, <1>13, <1>14, <1>15 DEF IInv

(* What a list with "done" behind it keeps, for all lists at once *)
LEMMA WholeKeeps ==
  \A s \in Seq(Steps) :
    /\ Whole(s) \in Seq(Steps)
    /\ \A a : a # "done" => (Has(Whole(s), a) <=> Has(s, a))
    /\ Then(Whole(s), "closeOut", "done")
    /\ \A T : "done" \in T /\ Of(s, T) => Of(Whole(s), T)
<1> SUFFICES ASSUME NEW s \in Seq(Steps)
             PROVE  /\ Whole(s) \in Seq(Steps)
                    /\ \A a : a # "done" => (Has(Whole(s), a) <=> Has(s, a))
                    /\ Then(Whole(s), "closeOut", "done")
                    /\ \A T : "done" \in T /\ Of(s, T) => Of(Whole(s), T)
  OBVIOUS
<1> QED BY WholeHas

(* The goroutines the handler starts have the lists of its kind to do, and *)
(* the handler has what follows "spawn" in its own.                        *)
LEMMA SpawnStarts ==
  ASSUME IInv, Spawn
  PROVE  /\ KindOk(kind) /\ Unspawned
         /\ \A g \in Goroutines \ {"main"} : todo[g] = <<>>
         /\ todo["main"] # <<>>
         /\ todo' \in [Goroutines -> Seq(Steps)]
         /\ MainOrder(todo'["main"]) /\ CopyOrder(todo'["in"])
         /\ ProduceOrder(todo'["out"]) /\ RunOrder(todo'["run"])
         /\ \A g \in Goroutines : Then(todo'[g], "closeOut", "done")
         /\ ~Unspawned'
         /\ \A a : a \notin {"spawn", "done"} =>
              /\ Has(todo'["main"], a) <=> Has(kind.main, a)
              /\ Has(todo'["in"], a) <=> Has(kind.in, a)
              /\ Has(todo'["out"], a) <=> Has(kind.out, a)
              /\ Has(todo'["run"], a) <=> Has(kind.run, a)
         /\ kind.out = <<>> => todo'["out"] = <<>>
         /\ kind.run = <<>> => todo'["run"] = <<>>
         /\ Then(kind.main, "join", "closeOut") =>
              Then(todo'["main"], "join", "closeOut")
         /\ \A T : "done" \in T =>
              /\ Of(kind.main, T) => Of(todo'["main"], T)
              /\ Of(Tail(kind.main), T) => Of(todo'["main"], T)
              /\ Of(kind.in, T) => Of(todo'["in"], T)
              /\ Of(kind.out, T) => Of(todo'["out"], T)
              /\ Of(kind.run, T) => Of(todo'["run"], T)
<1>1. KindOk(kind) BY KindsOk DEF IInv, TypeOK
<1>2. /\ kind.main \in Seq(Steps) /\ kind.in \in Seq(Steps)
      /\ kind.out \in Seq(Steps) /\ kind.run \in Seq(Steps)
      /\ MainOrder(kind.main) /\ CopyOrder(kind.in) /\ ProduceOrder(kind.out)
      /\ RunOrder(kind.run)
  BY <1>1 DEF KindOk, KindSteps
<1>3. At("main", "spawn") BY DEF Spawn
<1>4. Has(todo["main"], "spawn") /\ ~Has(todo["main"], "setup")
  BY <1>3, AtStep DEF IInv, InProgram, MainOrder, Goroutines
<1>5. Unspawned /\ todo["main"] = Whole(kind.main)
  BY <1>4 DEF Unspawned, IInv, InProgram
<1>6. /\ \A g \in Goroutines \ {"main"} : todo[g] = <<>>
      /\ todo["main"] # <<>> /\ Head(todo["main"]) = "spawn"
      /\ Whole(kind.main) \in Seq(Steps)
  BY <1>2, <1>3, <1>5, WholeHas DEF IInv, InProgram, At
<1>7. /\ todo'["main"] = Tail(Whole(kind.main))
      /\ todo'["in"] = Whole(kind.in)
      /\ todo'["out"] = IF kind.out = <<>> THEN <<>> ELSE Whole(kind.out)
      /\ todo'["run"] = IF kind.run = <<>> THEN <<>> ELSE Whole(kind.run)
  BY <1>5 DEF Spawn, Program, Goroutines
<1>8. todo' \in [Goroutines -> Seq(Steps)]
  <2>1. /\ Tail(Whole(kind.main)) \in Seq(Steps) /\ Whole(kind.in) \in Seq(Steps)
        /\ Whole(kind.out) \in Seq(Steps) /\ Whole(kind.run) \in Seq(Steps)
        /\ <<>> \in Seq(Steps)
    <3>1. Tail(Whole(kind.main)) \in Seq(Steps) BY <1>5, <1>6
    <3> QED BY <1>2, <3>1, WholeKeeps
  <2>2. \A g \in Goroutines : todo'[g] \in Seq(Steps) BY <1>7, <2>1 DEF Goroutines
  <2>3. todo' = [g \in Goroutines |-> Program(g)] BY DEF Spawn
  <2> QED BY <2>2, <2>3
<1>9. \A a : Has(Whole(kind.main), a) <=> a = "spawn" \/ Has(todo'["main"], a)
  BY <1>5, <1>6, <1>7, TailHas
<1>10. /\ MainOrder(todo'["main"]) /\ ~Has(todo'["main"], "spawn")
       /\ ~Has(todo'["main"], "setup")
  <2>1. MainOrder(Whole(kind.main)) /\ Whole(kind.main) # <<>>
    BY <1>2, <1>5, <1>6, OrdersOfWhole
  <2>2. MainOrder(todo'["main"]) BY <1>6, <1>7, <2>1, OrdersLast
  <2>3. OnlyFirst(Whole(kind.main), "spawn") BY <2>1 DEF MainOrder
  <2>4. ~Has(todo'["main"], "spawn") BY <1>6, <1>7, <2>1, <2>3, TailKeeps
  <2> QED BY <1>4, <1>5, <1>9, <2>2, <2>4
<1>11. \A a : a \notin {"spawn", "done"} =>
         /\ Has(todo'["main"], a) <=> Has(kind.main, a)
         /\ Has(todo'["in"], a) <=> Has(kind.in, a)
         /\ Has(todo'["out"], a) <=> Has(kind.out, a)
         /\ Has(todo'["run"], a) <=> Has(kind.run, a)
  <2>1. \A a : a \notin {"spawn", "done"} =>
          (Has(todo'["main"], a) <=> Has(kind.main, a))
    BY <1>2, <1>9, WholeKeeps
  <2>2. \A a : a # "done" => (Has(todo'["in"], a) <=> Has(kind.in, a))
    BY <1>2, <1>7, WholeKeeps
  <2>3. \A a : a # "done" => (Has(todo'["out"], a) <=> Has(kind.out, a))
    BY <1>2, <1>7, WholeKeeps
  <2>4. \A a : a # "done" => (Has(todo'["run"], a) <=> Has(kind.run, a))
    BY <1>2, <1>7, WholeKeeps
  <2> QED BY <2>1, <2>2, <2>3, <2>4
<1>12. CopyOrder(todo'["in"]) /\ ProduceOrder(todo'["out"]) /\ RunOrder(todo'["run"])
  BY <1>2, <1>7, OrdersOfWhole, OrdersOfNothing
<1>13. \A a, b : a # "done" =>
         /\ Then(Whole(kind.main), a, b) => Then(todo'["main"], a, b)
  BY <1>5, <1>6, <1>7, TailKeeps
<1>14. \A g \in Goroutines : Then(todo'[g], "closeOut", "done")
  <2>1. Then(todo'["main"], "closeOut", "done") BY <1>2, <1>13, WholeHas
  <2>2. \A g \in {"in", "out", "run"} : Then(todo'[g], "closeOut", "done")
    BY <1>2, <1>7, WholeKeeps, EmptyHas
  <2> QED BY <2>1, <2>2 DEF Goroutines
<1>15. Then(kind.main, "join", "closeOut") => Then(todo'["main"], "join", "closeOut")
  BY <1>2, <1>13, WholeHas
<1>16. ASSUME NEW T, "done" \in T
       PROVE  /\ Of(kind.main, T) => Of(todo'["main"], T)
              /\ Of(Tail(kind.main), T) => Of(todo'["main"], T)
              /\ Of(kind.in, T) => Of(todo'["in"], T)
              /\ Of(kind.out, T) => Of(todo'["out"], T)
              /\ Of(kind.run, T) => Of(todo'["run"], T)
  <2>1. Of(kind.main, T) => Of(todo'["main"], T)
    <3>1. Of(kind.main, T) => Of(Whole(kind.main), T) BY <1>2, <1>16, WholeKeeps
    <3>2. Whole(kind.main) # <<>> BY <1>5, <1>6
    <3> QED BY <1>6, <1>7, <3>1, <3>2, TailKeeps
  <2>2. ASSUME Of(Tail(kind.main), T) PROVE Of(todo'["main"], T)
    <3> DEFINE m == kind.main
               w == Whole(kind.main)
    <3>1. Len(m) \in Nat /\ m \in Seq(Steps) /\ m # <<>>
      BY <1>1, <1>2, EmptyHas DEF KindOk, KindSteps
    <3>2. /\ Len(w) = Len(m) + 1 /\ w \in Seq(Steps) /\ w # <<>>
          /\ w[Len(m) + 1] = "done"
          /\ \A i \in 1..Len(m) : w[i] = m[i]
      BY <1>2, WholeHas
    <3> HIDE DEF m, w
    <3>3. Len(Tail(w)) = Len(m) /\ \A i \in 1..Len(m) : Tail(w)[i] = w[i + 1]
      BY <3>1, <3>2
    <3>4. Len(Tail(m)) = Len(m) - 1
          /\ \A i \in 1..(Len(m) - 1) : Tail(m)[i] = m[i + 1]
      BY <3>1
    <3>5. \A i \in 1..(Len(m) - 1) : m[i + 1] \in T
      BY <2>2, <3>1, <3>4 DEF Of, m
    <3>6. ASSUME NEW i \in 1..Len(m) PROVE Tail(w)[i] \in T
      <4>1. CASE i = Len(m) BY <3>2, <3>3, <4>1, <1>16
      <4>2. CASE i # Len(m)
        <5>1. i \in 1..(Len(m) - 1) /\ i + 1 \in 1..Len(m) BY <3>1, <4>2
        <5> QED BY <5>1, <3>2, <3>3, <3>5
      <4> QED BY <4>1, <4>2
    <3> QED BY <1>7, <3>3, <3>6 DEF Of, w
  <2>3. /\ Of(kind.in, T) => Of(todo'["in"], T)
        /\ Of(kind.out, T) => Of(todo'["out"], T)
        /\ Of(kind.run, T) => Of(todo'["run"], T)
    BY <1>2, <1>7, <1>16, WholeKeeps, EmptyHas
  <2> QED BY <2>1, <2>2, <2>3
<1>17. ~Unspawned' BY <1>10 DEF Unspawned
<1>18. (kind.out = <<>> => todo'["out"] = <<>>) /\ (kind.run = <<>> => todo'["run"] = <<>>)
  BY <1>7
<1> QED BY <1>1, <1>5, <1>6, <1>8, <1>10, <1>11, <1>12, <1>14, <1>15, <1>16, <1>17, <1>18

LEMMA SpawnKeeps == ASSUME IInv, Spawn PROVE IInv'
<1> USE DEF inVars, pipeVars, outVars
<1>1. UNCHANGED <<kind, inVars, pipeVars, outVars, cancelled, failed, loop, panic>>
  BY DEF Spawn
<1>2. /\ KindOk(kind) /\ Unspawned /\ ~Unspawned'
      /\ todo["main"] # <<>> /\ todo' \in [Goroutines -> Seq(Steps)]
      /\ \A g \in Goroutines \ {"main"} : todo[g] = <<>>
  BY SpawnStarts
<1>3. /\ Has(todo'["main"], "join") <=> Has(kind.main, "join")
      /\ Has(todo'["main"], "sync") <=> Has(kind.main, "sync")
      /\ Has(todo'["main"], "drain") <=> Has(kind.main, "drain")
      /\ Has(todo'["main"], "closeOut") <=> Has(kind.main, "closeOut")
      /\ Has(todo'["main"], "produce") <=> Has(kind.main, "produce")
      /\ Has(todo'["main"], "request") <=> Has(kind.main, "request")
      /\ Has(todo'["main"], "response") <=> Has(kind.main, "response")
  BY SpawnStarts
<1>4. /\ Has(todo'["in"], "drain") <=> Has(kind.in, "drain")
      /\ Has(todo'["in"], "copy") <=> Has(kind.in, "copy")
      /\ Has(todo'["out"], "closeOut") <=> Has(kind.out, "closeOut")
      /\ Has(todo'["out"], "produce") <=> Has(kind.out, "produce")
  BY SpawnStarts
<1>5. /\ CopyOrder(todo'["in"]) /\ RunOrder(todo'["run"]) BY SpawnStarts
<1>6. ~hand /\ ~reply /\ ~outClosed
  <2>1. ~hand BY <1>2 DEF IInv, Counts, At, Goroutines
  <2>2. ~reply BY <1>2 DEF IInv, OneCloser, At, Spawn
  <2>3. ~outClosed BY <1>2 DEF IInv, OneCloser, Closer, Goroutines
  <2> QED BY <2>1, <2>2, <2>3
<1>7. TypeOK' BY <1>1, <1>2 DEF IInv, TypeOK
<1>8. InProgram'
  <2>1. ~Has(todo'["main"], "setup") /\ ~Has(todo'["main"], "spawn")
    BY <1>2 DEF Unspawned
  <2> QED BY <1>2, <2>1, SpawnStarts DEF InProgram
<1>9. Counts' BY <1>1, <1>6 DEF IInv, Counts
<1>10. OneCloser'
  <2>1. ~Has(todo'["in"], "closeOut") /\ ~Has(todo'["run"], "closeOut")
    BY <1>5 DEF CopyOrder, RunOrder, Of, Has
  <2>2. \A g \in Goroutines : Closer(g)' =>
          \/ g = "out" /\ Has(kind.out, "closeOut")
          \/ g = "main" /\ (\/ Has(kind.main, "closeOut") \/ Has(kind.main, "request")
                            \/ Has(kind.main, "response"))
    BY <1>2, <1>3, <1>4, <2>1 DEF Closer, Goroutines
  <2>3. ~(Has(kind.out, "closeOut") /\ (\/ Has(kind.main, "closeOut")
                                        \/ Has(kind.main, "request")
                                        \/ Has(kind.main, "response")))
    BY <1>2 DEF KindOk, KindRoles
  <2>4. \A g, h \in Goroutines : Closer(g)' /\ Closer(h)' => g = h
    BY <2>2, <2>3
  <2>5. Has(todo'["out"], "produce") =>
          \/ Has(todo'["out"], "closeOut")
          \/ Has(todo'["main"], "join") /\ Then(todo'["main"], "join", "closeOut")
    <3>1. Has(kind.out, "produce") =>
            \/ Has(kind.out, "closeOut")
            \/ Has(kind.main, "join") /\ Then(kind.main, "join", "closeOut")
      BY <1>2 DEF KindOk, KindRoles
    <3>2. Then(kind.main, "join", "closeOut") =>
            Then(todo'["main"], "join", "closeOut")
      BY SpawnStarts
    <3> QED BY <1>3, <1>4, <3>1, <3>2
  <2> QED BY <1>1, <1>6, <2>4, <2>5 DEF OneCloser
<1>11. DrainsAtLast'
  BY <1>2, <1>3, <1>4 DEF KindOk, KindRoles, DrainsAtLast
<1>12. WaitsFor'
  <2>1. ~(loop = "terminated" /\ "main" \in kind.counted)
    BY <1>2 DEF IInv, WaitsFor, AllDone, Goroutines
  <2>2. /\ "in" \notin kind.counted => Has(kind.main, "join") \/ Has(kind.main, "sync")
        /\ "out" \notin kind.counted /\ kind.out # <<>> => Has(kind.main, "join")
        /\ "run" \notin kind.counted => kind.run = <<>>
    BY <1>2 DEF KindOk, KindRoles
  <2>3. (kind.out = <<>> => todo'["out"] = <<>>) /\ (kind.run = <<>> => todo'["run"] = <<>>)
    BY SpawnStarts
  <2>4. ASSUME NEW g \in Goroutines \ ({"main"} \cup kind.counted), todo'[g] # <<>>
        PROVE  /\ g \in {"in", "out"}
               /\ Has(todo'["main"], "join") \/ (g = "in" /\ Has(todo'["main"], "sync"))
    BY <1>3, <2>2, <2>3, <2>4 DEF Goroutines
  <2> QED BY <1>1, <2>1, <2>4 DEF WaitsFor
<1>13. NoneLost'
  <2> SUFFICES ASSUME kind.emits = "all" PROVE NoneLost'
    BY <1>1 DEF NoneLost
  <2>1. KindKeepsAll(kind) BY <1>2 DEF KindOk
  <2>2. \A g \in Goroutines : Of(todo'[g], Kept)
    <3>1. /\ Of(kind.main, Kept) /\ Of(kind.in, Kept) /\ Of(kind.out, Kept)
          /\ Of(kind.run, Kept) /\ "done" \in Kept
      BY <2>1 DEF KindKeepsAll, Kept
    <3> QED BY <3>1, SpawnStarts DEF Goroutines
  <2>3. Has(todo'["out"], "produce") => Of(todo'["main"], {"done"})
    <3>1. Has(kind.out, "produce") => Of(Tail(kind.main), {"done"})
      BY <2>1 DEF KindKeepsAll
    <3>2. "done" \in {"done"} OBVIOUS
    <3>3. Of(Tail(kind.main), {"done"}) => Of(todo'["main"], {"done"})
      BY <3>2, SpawnStarts
    <3> QED BY <1>4, <3>1, <3>3
  <2>4. Copying' /\ Producing'
    BY <1>3, <1>4, <2>1 DEF KindKeepsAll, Copying, Producing
  <2>5. ~failed => writer /\ taken = got + (IF hand THEN 1 ELSE 0)
    BY <1>2 DEF IInv, NoneLost
  <2> QED BY <1>1, <2>2, <2>3, <2>4, <2>5, KeptStream DEF NoneLost, Kept
<1> QED BY <1>7, <1>8, <1>9, <1>10, <1>11, <1>12, <1>13 DEF IInv

(* http: what the handler still does depends on how its request goes. *)
LEMMA RequestTurns ==
  ASSUME IInv, At("main", "request") \/ At("main", "response"),
         NEW s \in {Unsent, Answered, <<"response">>}, Leaving("main", s),
         failed' \in BOOLEAN, reader' \in {"idle", "open", "closed"},
         UNCHANGED <<kind, inVars, hand, wire, writer, got, outVars, cancelled,
                     loop, panic>>
  PROVE  IInv'
<1> USE DEF inVars, outVars
<1>1. /\ s \in Seq(Steps) /\ s # <<>> /\ Then(s, "closeOut", "done")
      /\ ~Has(s, "setup") /\ ~Has(s, "spawn")
      /\ Has(s, "closeOut") \/ Has(s, "response")
  <2>1. CASE s = Unsent BY <2>1 DEF Unsent, Steps, Then, Has
  <2>2. CASE s = Answered BY <2>2 DEF Answered, Steps, Then, Has
  <2>3. CASE s = <<"response">> BY <2>3 DEF Steps, Then, Has
  <2> QED BY <2>1, <2>2, <2>3
<1>2. MainOrder(s)
  <2>1. CASE s = Unsent
    BY <2>1 DEF Unsent, MainOrder, OnlyFirst, Never, Then, Has
  <2>2. CASE s = Answered
    BY <2>2 DEF Answered, MainOrder, OnlyFirst, Never, Then, Has
  <2>3. CASE s = <<"response">>
    BY <2>3 DEF MainOrder, OnlyFirst, Never, Then, Has
  <2> QED BY <2>1, <2>2, <2>3
<1>3. /\ ~Unspawned /\ todo["main"] # <<>>
      /\ Has(todo["main"], "request") \/ Has(todo["main"], "response")
  BY PastSpawn, AtStep DEF IInv, Goroutines, At
<1>4. \A a \in {"drain", "join", "sync", "closeOut"} : ~Has(todo["main"], a)
  BY <1>3 DEF IInv, InProgram, MainOrder
<1>5. todo'["main"] = s /\ \A g \in Goroutines \ {"main"} : todo'[g] = todo[g]
  BY DEF Leaving, IInv, TypeOK, Goroutines
<1>6. todo' \in [Goroutines -> Seq(Steps)]
  BY <1>1 DEF Leaving, IInv, TypeOK
<1>7. TypeOK' BY <1>6 DEF IInv, TypeOK
<1>8. ~Unspawned' BY <1>1, <1>5 DEF Unspawned
<1>9. InProgram'
  BY <1>1, <1>2, <1>5, <1>8 DEF IInv, InProgram, Unspawned, Goroutines
<1>10. Counts' BY <1>5 DEF IInv, Counts, At, Goroutines
<1>11. Closer("main") BY <1>3 DEF Closer
<1>12. OneCloser'
  <2>1. \A g \in Goroutines : Closer(g)' => Closer(g)
    BY <1>5, <1>11 DEF Closer
  <2>2. ~outClosed BY <1>11 DEF IInv, OneCloser, Goroutines
  <2>3. Has(todo'["out"], "produce") => Has(todo'["out"], "closeOut")
    BY <1>4, <1>5 DEF IInv, OneCloser, Goroutines
  <2>4. reply' => \E g \in Goroutines : At(g, "produce")'
    BY <1>5 DEF IInv, OneCloser, At, Goroutines
  <2> QED BY <2>1, <2>2, <2>3, <2>4 DEF IInv, OneCloser
<1>13. DrainsAtLast'
  BY <1>3, <1>4, <1>5 DEF IInv, DrainsAtLast, Goroutines
<1>14. WaitsFor'
  <2>1. ~(loop = "terminated" /\ "main" \in kind.counted)
    BY <1>3 DEF IInv, WaitsFor, AllDone, Goroutines
  <2>2. \A g \in Goroutines \ ({"main"} \cup kind.counted) : todo[g] = <<>>
    BY <1>4 DEF IInv, WaitsFor
  <2>3. \A g \in Goroutines \ ({"main"} \cup kind.counted) : todo'[g] = <<>>
    BY <1>5, <2>2
  <2> QED BY <2>1, <2>3 DEF WaitsFor
<1>15. kind.emits # "all" BY KeptStream DEF Kept, Goroutines
<1>16. NoneLost' BY <1>15 DEF NoneLost
<1> QED BY <1>7, <1>9, <1>10, <1>12, <1>13, <1>14, <1>16 DEF IInv

(* The goroutine that dereferences nil ends the program where it stands. *)
LEMMA PanicKeeps ==
  ASSUME IInv, failed' = TRUE, panic' = "nil",
         UNCHANGED <<kind, todo, inVars, pipeVars, outVars, cancelled, loop>>
  PROVE  IInv'
<1> USE DEF inVars, pipeVars, outVars
<1>1. /\ todo' \in [Goroutines -> Seq(Steps)]
      /\ InProgram' /\ OneCloser' /\ DrainsAtLast' /\ WaitsFor'
      /\ Unspawned' = Unspawned /\ Copying' = Copying /\ Producing' = Producing
  <2>1. reply => \E g \in Goroutines : At(g, "produce") BY DEF IInv, OneCloser
  <2> QED BY <2>1, StayKeeps
<1>2. TypeOK' BY <1>1 DEF IInv, TypeOK
<1>3. Counts' BY DEF IInv, Counts, At
<1>4. NoneLost' BY <1>1 DEF IInv, NoneLost
<1> QED BY <1>1, <1>2, <1>3, <1>4 DEF IInv

LEMMA RequestKeeps == ASSUME IInv, Request \/ Response PROVE IInv'
<1>1. failed \in BOOLEAN /\ reader \in {"idle", "open", "closed"}
  BY DEF IInv, TypeOK
<1>2. CASE Request
  <2>1. CASE Leaving("main", Unsent) /\ failed' = TRUE /\ UNCHANGED reader
    BY <1>1, <1>2, <2>1, RequestTurns DEF Request
  <2>2. CASE reader' = "open" /\ Leaving("main", <<"response">>) /\ UNCHANGED failed
    BY <1>1, <1>2, <2>2, RequestTurns DEF Request
  <2> QED BY <1>2, <2>1, <2>2 DEF Request
<1>3. CASE Response
  <2>1. CASE Leaving("main", Unsent) /\ failed' = TRUE /\ UNCHANGED panic
    BY <1>1, <1>3, <2>1, RequestTurns DEF Response, pipeVars
  <2>2. CASE Leaving("main", Answered) /\ UNCHANGED <<failed, panic>>
    BY <1>1, <1>3, <2>2, RequestTurns DEF Response, pipeVars
  <2>3. CASE failed' = TRUE /\ panic' = "nil" /\ UNCHANGED todo
    <3>1. /\ UNCHANGED <<kind, todo, inVars, pipeVars, outVars, cancelled, loop>>
          /\ failed' = TRUE /\ panic' = "nil"
      BY <1>3, <2>3 DEF Response
    <3> QED BY <3>1, PanicKeeps
  <2> QED BY <1>3, <2>1, <2>2, <2>3 DEF Response
<1> QED BY <1>2, <1>3
-----------------------------------------------------------------------------
(* The theorems *)

LEMMA InitHolds == ASSUME Init PROVE IInv
<1> USE DEF Init
<1>1. KindOk(kind) BY KindsOk
<1>2. kind.room \in Nat BY <1>1 DEF KindOk, KindSteps
<1>3. /\ todo["main"] = <<"setup">>
      /\ \A g \in Goroutines \ {"main"} : todo[g] = <<>>
  BY DEF Goroutines
<1>4. TypeOK
  <2>1. <<"setup">> \in Seq(Steps) /\ <<>> \in Seq(Steps) BY DEF Steps
  <2>2. todo \in [Goroutines -> Seq(Steps)] BY <2>1
  <2>3. /\ wire \in 0..kind.room /\ taken \in 0..Payloads /\ got \in 0..taken
        /\ sent \in 0..(Payloads + Replies)
    BY <1>2, PipedStreamAssumption
  <2>4. reader \in {"idle", "open", "closed"} /\ kind \in Kinds OBVIOUS
  <2>5. /\ offer \in BOOLEAN /\ inClosed \in BOOLEAN /\ hand \in BOOLEAN
        /\ writer \in BOOLEAN /\ reply \in BOOLEAN /\ outClosed \in BOOLEAN
        /\ cancelled \in BOOLEAN /\ failed \in BOOLEAN
        /\ panic \in {"none", "channel", "nil"}
        /\ loop \in {"wait", "terminated"}
    OBVIOUS
  <2> HIDE DEF Init
  <2> QED BY <2>2, <2>3, <2>4, <2>5 DEF TypeOK
<1>5. MainOrder(<<"setup">>) /\ Then(<<"setup">>, "closeOut", "done")
  BY DEF MainOrder, OnlyFirst, Never, Then, Has
<1>6. /\ Has(<<"setup">>, "setup")
      /\ \A a : a # "setup" => ~Has(<<"setup">>, a)
  BY DEF Has
<1>7. Unspawned BY <1>3, <1>6 DEF Unspawned
<1>8. InProgram
  <2>1. \A g \in Goroutines : Then(todo[g], "closeOut", "done")
    BY <1>3, <1>5, EmptyHas
  <2> QED BY <1>3, <1>5, <1>6, <2>1, OrdersOfNothing DEF InProgram, Goroutines
<1>9. Counts BY PipedStreamAssumption DEF Counts
<1>10. OneCloser
  <2>1. \A g \in Goroutines : Closer(g) => g = "main"
    BY <1>3, EmptyHas DEF Closer
  <2>2. ~Has(todo["out"], "produce") BY <1>3, EmptyHas DEF Goroutines
  <2> QED BY <2>1, <2>2 DEF OneCloser
<1>11. DrainsAtLast BY <1>7 DEF DrainsAtLast
<1>12. WaitsFor BY <1>3 DEF WaitsFor
<1>13. NoneLost
  <2> SUFFICES ASSUME kind.emits = "all" PROVE NoneLost
    BY DEF NoneLost
  <2>1. \A g \in Goroutines : Of(todo[g], Kept)
    <3>1. Of(<<"setup">>, Kept) BY DEF Of, Kept
    <3> QED BY <1>3, <3>1, EmptyHas
  <2> QED BY <1>7, <2>1 DEF NoneLost, Kept
<1> QED BY <1>4, <1>8, <1>9, <1>10, <1>11, <1>12, <1>13 DEF IInv

LEMMA NextKeeps == ASSUME IInv, [Next \/ Ended]_vars PROVE IInv'
<1>1. ASSUME NEW g \in Goroutines, Goroutine(g) PROVE IInv'
  <2>1. CASE Return(g) BY <2>1, ReturnKeeps
  <2>2. CASE Drain(g) BY <2>2, DrainKeeps
  <2>3. CASE Produced(g) BY <2>3, ProducedKeeps
  <2>4. CASE Emit(g) BY <2>4, EmitKeeps
  <2>5. CASE CloseOut(g) BY <2>5, CloseOutKeeps
  <2>6. CASE Close(g) BY <2>6, CloseKeeps
  <2>7. CASE Cancel(g) BY <2>7, CancelKeeps
  <2>8. CASE Read(g) BY <2>8, ReadKeeps
  <2> QED BY <1>1, <2>1, <2>2, <2>3, <2>4, <2>5, <2>6, <2>7, <2>8 DEF Goroutine
<1>2. CASE Main
  BY <1>2, SetupKeeps, SpawnKeeps, JoinKeeps, AwaitKeeps, RequestKeeps, TellKeeps,
     SyncKeeps DEF Main
<1>3. CASE Copier
  BY <1>3, TakeKeeps, InputEndsKeeps, WriteKeeps, WriteFailsKeeps, AwaitKeeps
     DEF Copier
<1>4. CASE Far BY <1>4, ReadKeeps DEF Far, Goroutines
<1>5. CASE Exit \/ FarCloses BY <1>5, AwaitKeeps, FarClosesKeeps
<1>6. CASE Offer \/ CloseInput \/ Deliver \/ Terminate
  BY <1>6, NeighboursKeep, TerminateKeeps
<1>7. CASE UNCHANGED vars
  <2> USE <1>7 DEF vars, inVars, pipeVars, outVars
  <2>1. /\ todo' \in [Goroutines -> Seq(Steps)]
        /\ InProgram' /\ OneCloser' /\ DrainsAtLast' /\ WaitsFor'
        /\ Unspawned' = Unspawned /\ Copying' = Copying /\ Producing' = Producing
    BY StayKeeps DEF IInv, OneCloser
  <2>2. TypeOK' BY DEF IInv, TypeOK
  <2>3. Counts' BY DEF IInv, Counts, At
  <2>4. NoneLost' BY <2>1 DEF IInv, NoneLost
  <2> QED BY <2>1, <2>2, <2>3, <2>4 DEF IInv
<1> QED BY <1>1, <1>2, <1>3, <1>4, <1>5, <1>6, <1>7 DEF Next, Ended

LEMMA InvariantHolds == Spec => []IInv
<1>1. Init => IInv BY InitHolds
<1>2. IInv /\ [Next \/ Ended]_vars => IInv' BY NextKeeps
<1> QED BY <1>1, <1>2, PTL DEF Spec

(* A stream's variables have their types, for every kind of handler and    *)
(* any number of payloads.                                                 *)
THEOREM TypesCorrect == Spec => []TypeOK
BY InvariantHolds, PTL DEF IInv

(* What entered the pipe of a codec has come out when its handler returns, *)
(* unless it reported an error (base64.go:124-161).                        *)
THEOREM EndsComplete == Spec => []Complete
<1>1. ASSUME IInv PROVE Complete
  <2> SUFFICES ASSUME AllDone, ~failed, kind.emits = "all" PROVE sent = taken
    BY DEF Complete
  <2>1. \A g \in Goroutines : \A a : ~Has(todo[g], a)
    BY EmptyHas DEF AllDone
  <2>2. ~Unspawned /\ ~Producing
    BY <2>1 DEF Unspawned, Producing, Goroutines
  <2>3. ~hand BY <1>1 DEF IInv, Counts, At, AllDone, Goroutines
  <2> QED BY <1>1, <2>2, <2>3 DEF IInv, NoneLost, TypeOK
<1> QED BY <1>1, InvariantHolds, PTL

(* A module says Terminate only when its streams are over (gunzip.go:55,   *)
(* fork.go:67).                                                            *)
THEOREM EndsLast == Spec => []TerminatesLast
<1>1. IInv => TerminatesLast BY DEF IInv, WaitsFor, TerminatesLast
<1> QED BY <1>1, InvariantHolds, PTL

(* Whoever sends on `outc' does so before it is closed. *)
LEMMA SendersOpen ==
  ASSUME IInv, NEW g \in Goroutines, At(g, "produce")
  PROVE  /\ ~outClosed
         /\ \A h \in Goroutines : ~At(h, "closeOut")
<1>1. g \in {"main", "out"} /\ Has(todo[g], "produce") BY AtStep DEF IInv
<1>2. todo[g] \in Seq(Steps) /\ todo[g] # <<>> /\ Head(todo[g]) = "produce"
  BY DEF IInv, TypeOK, At
<1>3. CASE Has(todo[g], "closeOut")
  <2>1. Closer(g) BY <1>3 DEF Closer
  <2>2. ASSUME NEW h \in Goroutines, At(h, "closeOut") PROVE FALSE
    <3>1. Closer(h) BY <2>2, AtStep DEF IInv, Closer
    <3>2. h = g BY <2>1, <3>1 DEF IInv, OneCloser
    <3> QED BY <2>2, <3>2 DEF At
  <2> QED BY <2>1, <2>2 DEF IInv, OneCloser
<1>4. CASE ~Has(todo[g], "closeOut")
  <2>1. g = "out"
    <3>1. ASSUME g = "main" PROVE FALSE
      <4>1. Then(todo["main"], "produce", "closeOut") BY DEF IInv, InProgram, MainOrder
      <4>2. Has(Tail(todo["main"]), "closeOut") BY <1>2, <3>1, <4>1, TailKeeps
      <4> QED BY <1>2, <1>4, <3>1, <4>2, TailHas
    <3> QED BY <1>1, <3>1
  <2>2. Has(todo["main"], "join") /\ Then(todo["main"], "join", "closeOut")
    BY <1>1, <1>4, <2>1 DEF IInv, OneCloser
  <2>3. todo["main"] \in Seq(Steps) /\ todo["main"] # <<>>
    BY <2>2, EmptyHas DEF IInv, TypeOK, Goroutines
  <2>4. Has(todo["main"], "closeOut") BY <2>2 DEF Then, Has
  <2>5. Closer("main") BY <2>4 DEF Closer
  <2>6. ASSUME NEW h \in Goroutines, At(h, "closeOut") PROVE FALSE
    <3>1. Closer(h) BY <2>6, AtStep DEF IInv, Closer
    <3>2. h = "main" BY <2>5, <3>1 DEF IInv, OneCloser, Goroutines
    <3>3. Head(todo["main"]) = "closeOut" BY <2>6, <3>2 DEF At
    <3>4. Has(Tail(todo["main"]), "join") BY <2>2, <2>3, <3>3, TailHas
    <3>5. Then(Tail(todo["main"]), "join", "closeOut") BY <2>2, <2>3, TailKeeps
    <3>6. Has(Tail(todo["main"]), "closeOut")
      <4> HIDE DEF IInv
      <4> QED BY <3>4, <3>5 DEF Then, Has
    <3>7. Never(todo["main"], "closeOut", {"closeOut", "produce", "request", "response"})
      BY DEF IInv, InProgram, MainOrder
    <3> QED BY <2>3, <3>3, <3>6, <3>7, TailKeeps
  <2> QED BY <2>5, <2>6 DEF IInv, OneCloser, Goroutines
<1> QED BY <1>3, <1>4

(* No goroutine panics on the channel of its stream: nothing is sent after *)
(* close(outc), which comes once (tcp.go:194-200, gunzip.go:82).           *)
THEOREM ClosesAfterSends == Spec => []SentBeforeClosed
<1> USE DEF SentBeforeClosed
<1>1. Init => SentBeforeClosed BY DEF Init
<1>2. ASSUME IInv, SentBeforeClosed, [Next \/ Ended]_vars PROVE SentBeforeClosed'
  <2>1. ASSUME NEW g \in Goroutines, Emit(g) PROVE SentBeforeClosed'
    <3>1. ~outClosed BY <1>2, <2>1, SendersOpen DEF Emit
    <3> QED BY <1>2, <2>1, <3>1 DEF Emit
  <2>2. ASSUME NEW g \in Goroutines, CloseOut(g) PROVE SentBeforeClosed'
    <3>1. At(g, "closeOut") BY <2>2 DEF CloseOut
    <3>2. Closer(g) BY <1>2, <3>1, AtStep DEF IInv, Closer
    <3>3. ~outClosed BY <1>2, <3>2 DEF IInv, OneCloser
    <3>4. ~reply BY <1>2, <3>1, SendersOpen DEF IInv, OneCloser
    <3> QED BY <1>2, <2>2, <3>3, <3>4 DEF CloseOut
  <2>3. ASSUME NEW g \in Goroutines, Goroutine(g) PROVE SentBeforeClosed'
    BY <1>2, <2>1, <2>2, <2>3
       DEF Goroutine, Return, Drain, Produced, Close, Cancel, Read
  <2>4. CASE Main
    BY <1>2, <2>4 DEF Main, Setup, Spawn, Join, Goahead, Request, Response, Tell, Sync
  <2>5. CASE Copier
    BY <1>2, <2>5 DEF Copier, Take, InputEnds, Cancelled, Write, WriteFails,
                      PingFails, AwaitCancel, AwaitPeer
  <2>6. CASE Far \/ Exit \/ FarCloses
    BY <1>2, <2>6 DEF Far, Read, Exit, FarCloses
  <2>7. CASE Offer \/ CloseInput \/ Deliver \/ Terminate
    BY <1>2, <2>7 DEF Offer, CloseInput, Deliver, Terminate
  <2>8. CASE UNCHANGED vars BY <1>2, <2>8 DEF vars
  <2> QED BY <1>2, <2>3, <2>4, <2>5, <2>6, <2>7, <2>8 DEF Next, Ended
<1> QED BY <1>1, <1>2, InvariantHolds, PTL DEF Spec
-----------------------------------------------------------------------------
(* The contract of a handler *)

(* Somebody is to close `outc' as long as it is open: a step that is not   *)
(* the close leaves it to whoever had to.                                  *)
LEMMA GoStillCloses ==
  ASSUME IInv, ClosesAtLast, NEW g \in Goroutines, NEW x, At(g, x), Go(g),
         x \notin {"setup", "spawn", "request", "response", "closeOut"},
         UNCHANGED <<kind, outClosed>>
  PROVE  ClosesAtLast'
<1>1. \A h \in Goroutines : \A a : Has(todo[h], a) =>
        Has(todo'[h], a) \/ (h = g /\ a = x)
  BY GoAdvances DEF IInv
<1>2. ~Unspawned BY PastSpawn DEF IInv
<1>3. \A h \in Goroutines : Closer(h) => Closer(h)'
  BY <1>1, <1>2 DEF Closer, Goroutines
<1> QED BY <1>3 DEF ClosesAtLast

LEMMA StillCloses ==
  ASSUME ClosesWhenGivingUp, IInv, ClosesAtLast, [Next \/ Ended]_vars
  PROVE  ClosesAtLast'
<1> USE DEF inVars, pipeVars, outVars
<1>1. ASSUME UNCHANGED <<kind, todo, outClosed>> PROVE ClosesAtLast'
  BY <1>1 DEF ClosesAtLast, Closer, Unspawned
<1>2. ASSUME NEW g \in Goroutines, Goroutine(g) PROVE ClosesAtLast'
  <2>1. CASE Return(g) BY <2>1, GoStillCloses DEF Return
  <2>2. CASE Drain(g)
    <3>1. CASE Go(g) BY <2>2, <3>1, GoStillCloses DEF Drain
    <3>2. CASE UNCHANGED todo BY <1>1, <2>2, <3>2 DEF Drain
    <3> QED BY <2>2, <3>1, <3>2 DEF Drain
  <2>3. CASE Produced(g) BY <2>3, GoStillCloses DEF Produced
  <2>4. CASE Emit(g) BY <1>1, <2>4 DEF Emit
  <2>5. CASE CloseOut(g) BY <2>5 DEF CloseOut, ClosesAtLast
  <2>6. CASE Close(g)
    <3>1. PICK x \in {"closeWriter", "closeReader", "closeConn"} : At(g, x)
      BY <2>6 DEF Close
    <3> QED BY <2>6, <3>1, GoStillCloses DEF Close
  <2>7. CASE Cancel(g) BY <2>7, GoStillCloses DEF Cancel
  <2>8. CASE Read(g) BY <1>1, <2>8 DEF Read
  <2> QED BY <1>2, <2>1, <2>2, <2>3, <2>4, <2>5, <2>6, <2>7, <2>8 DEF Goroutine
<1>3. CASE Setup
  <2>1. KindOk(kind) /\ kind \in Kinds BY KindsOk DEF IInv, TypeOK
  <2>2. PICK s \in {kind.main, kind.giveUp} :
          /\ Leaving("main", Whole(s))
          /\ Has(s, "spawn") \/ Has(s, "closeOut")
    BY <1>3, <2>1 DEF Setup, KindOk, KindSteps, ClosesWhenGivingUp
  <2>3. s \in Seq(Steps) BY <2>1 DEF KindOk, KindSteps
  <2>4. todo'["main"] = Whole(s)
    BY <2>2 DEF Leaving, IInv, TypeOK, Goroutines
  <2>5. Has(todo'["main"], "spawn") \/ Has(todo'["main"], "closeOut")
    BY <2>2, <2>3, <2>4, WholeKeeps
  <2> QED BY <2>5 DEF ClosesAtLast, Closer, Unspawned, Goroutines
<1>4. CASE Spawn
  <2>1. Has(kind.out, "closeOut") \/ Has(kind.main, "closeOut") \/ Has(kind.main, "request")
    BY <1>4, SpawnStarts DEF KindOk, KindRoles
  <2>2. \/ Has(todo'["out"], "closeOut") \/ Has(todo'["main"], "closeOut")
        \/ Has(todo'["main"], "request")
    BY <1>4, <2>1, SpawnStarts
  <2> QED BY <2>2 DEF ClosesAtLast, Closer, Goroutines
<1>5. CASE Join BY <1>5, GoStillCloses DEF Join, Goroutines
<1>6. CASE Goahead BY <1>6, GoStillCloses DEF Goahead, Goroutines
<1>7. ASSUME NEW s \in {Unsent, Answered, <<"response">>}, Leaving("main", s)
      PROVE  ClosesAtLast'
  <2>1. Has(s, "closeOut") \/ Has(s, "response")
    <3>1. CASE s = Unsent BY <3>1 DEF Unsent, Has
    <3>2. CASE s = Answered BY <3>2 DEF Answered, Has
    <3>3. CASE s = <<"response">> BY <3>3 DEF Has
    <3> QED BY <3>1, <3>2, <3>3
  <2>2. todo'["main"] = s BY <1>7 DEF Leaving, IInv, TypeOK, Goroutines
  <2> QED BY <2>1, <2>2 DEF ClosesAtLast, Closer, Goroutines
<1>8. CASE Request \/ Response
  <2>1. CASE Request BY <1>7, <2>1 DEF Request
  <2>2. CASE Response BY <1>1, <1>7, <2>2 DEF Response
  <2> QED BY <1>8, <2>1, <2>2
<1>9. CASE Tell
  <2>1. CASE Go("main") BY <1>9, <2>1, GoStillCloses DEF Tell, Goroutines
  <2>2. CASE /\ At("in", "copy")
             /\ todo' = [todo EXCEPT !["main"] = Tail(@), !["in"] = Tail(@)]
    <3>1. /\ todo'["main"] = Tail(todo["main"]) /\ todo'["in"] = Tail(todo["in"])
          /\ \A g \in Goroutines \ {"main", "in"} : todo'[g] = todo[g]
      BY <2>2 DEF IInv, TypeOK, Goroutines
    <3>2. \A g \in {"main", "in"} : todo[g] \in Seq(Steps) /\ todo[g] # <<>>
      BY <1>9, <2>2 DEF Tell, IInv, TypeOK, Goroutines, At
    <3>3. /\ \A a : Has(todo["main"], a) => a = "tell" \/ Has(todo'["main"], a)
          /\ \A a : Has(todo["in"], a) => a = "copy" \/ Has(todo'["in"], a)
      BY <1>9, <2>2, <3>1, <3>2, TailHas DEF Tell, At
    <3>4. ~Unspawned BY <2>2, PastSpawn DEF IInv, Goroutines
    <3>5. \A g \in Goroutines : Closer(g) => Closer(g)'
      BY <3>1, <3>3, <3>4 DEF Closer, Goroutines
    <3> QED BY <1>9, <3>5 DEF Tell, ClosesAtLast
  <2> QED BY <1>9, <2>1, <2>2 DEF Tell
<1>10. CASE Sync
  <2>1. /\ todo'["main"] = Tail(todo["main"])
        /\ \A g \in Goroutines \ {"main", "in"} : todo'[g] = todo[g]
    BY <1>10 DEF Sync, IInv, TypeOK, Goroutines
  <2>2. todo["main"] \in Seq(Steps) /\ todo["main"] # <<>>
    BY <1>10 DEF Sync, IInv, TypeOK, Goroutines, At
  <2>3. \A a : Has(todo["main"], a) => a = "sync" \/ Has(todo'["main"], a)
    BY <1>10, <2>1, <2>2, TailHas DEF Sync, At
  <2>4. ~Unspawned BY <1>10, PastSpawn DEF Sync, IInv, Goroutines
  <2>5. ~Closer("in")
    BY DEF Closer, IInv, InProgram, CopyOrder, Of, Has
  <2>6. \A g \in Goroutines : Closer(g) => Closer(g)'
    BY <2>1, <2>3, <2>4, <2>5 DEF Closer, Goroutines
  <2> QED BY <1>10, <2>6 DEF Sync, ClosesAtLast
<1>11. CASE Main
  BY <1>11, <1>3, <1>4, <1>5, <1>6, <1>8, <1>9, <1>10 DEF Main
<1>12. CASE Copier
  <2>1. CASE Take \/ Write BY <1>1, <2>1 DEF Take, Write
  <2>2. CASE InputEnds \/ Cancelled \/ PingFails
    BY <2>2, GoStillCloses DEF InputEnds, Cancelled, PingFails, Goroutines
  <2>3. CASE WriteFails
    <3>1. At("in", "copy") BY <2>3 DEF WriteFails, IInv, Counts
    <3> QED BY <2>3, <3>1, GoStillCloses DEF WriteFails, Goroutines
  <2>4. CASE AwaitCancel BY <2>4, GoStillCloses DEF AwaitCancel, Goroutines
  <2>5. CASE AwaitPeer BY <2>5, GoStillCloses DEF AwaitPeer, Goroutines
  <2> QED BY <1>12, <2>1, <2>2, <2>3, <2>4, <2>5 DEF Copier
<1>13. CASE Far \/ FarCloses BY <1>1, <1>13 DEF Far, Read, FarCloses
<1>14. CASE Exit BY <1>14, GoStillCloses DEF Exit, Goroutines
<1>15. CASE Offer \/ CloseInput \/ Deliver \/ Terminate
  BY <1>1, <1>15 DEF Offer, CloseInput, Deliver, Terminate
<1>16. CASE UNCHANGED vars BY <1>1, <1>16 DEF vars
<1> QED BY <1>2, <1>11, <1>12, <1>13, <1>14, <1>15, <1>16 DEF Next, Ended

(* A handler that has returned does nothing more. *)
LEMMA OverStays ==
  ASSUME IInv, AllDone, [Next \/ Ended]_vars
  PROVE  AllDone'
<1>1. ASSUME UNCHANGED todo PROVE AllDone'
  BY <1>1 DEF AllDone
<1>2. \A g \in Goroutines : \A x : ~At(g, x)
  BY DEF AllDone, At
<1>3. ASSUME NEW g \in Goroutines, Goroutine(g) PROVE UNCHANGED todo
  BY <1>2, <1>3 DEF Goroutine, Return, Drain, Produced, Emit, CloseOut, Close,
                    Cancel, Read
<1>4. ~Main
  BY <1>2 DEF Main, Setup, Spawn, Join, Goahead, Request, Response, Tell, Sync,
              Goroutines
<1>5. CASE Copier
  <2>1. ~hand BY <1>2 DEF IInv, Counts, Goroutines
  <2> QED BY <1>2, <1>5, <2>1
          DEF Copier, Take, InputEnds, Cancelled, Write, WriteFails, PingFails,
              AwaitCancel, AwaitPeer, Goroutines
<1>6. CASE Far \/ Exit \/ FarCloses
  BY <1>1, <1>2, <1>6 DEF Far, Read, Exit, FarCloses, Goroutines
<1>7. CASE Offer \/ CloseInput \/ Deliver \/ Terminate
  BY <1>1, <1>7 DEF Offer, CloseInput, Deliver, Terminate
<1>8. CASE UNCHANGED vars BY <1>1, <1>8 DEF vars
<1> QED BY <1>1, <1>3, <1>4, <1>5, <1>6, <1>7, <1>8 DEF Next, Ended

(* A step of the handler that moves no payload and ends no channel leaves  *)
(* the contract where it is, or is the return.                             *)
LEMMA QuietStep ==
  ASSUME IInv, IInv', ClosesAtLast', [Next \/ Ended]_vars,
         UNCHANGED <<taken, sent, inClosed, outClosed>>
  PROVE  [Contract!Next]_Contract!streamVars
<1>1. CASE AllDone
  <2>1. AllDone' BY <1>1, OverStays
  <2>2. AllDone' = AllDone BY <1>1, <2>1
  <2> QED BY <2>2 DEF Contract!streamVars
<1>2. CASE ~AllDone /\ ~AllDone'
  <2>1. AllDone' = AllDone BY <1>2 DEF AllDone
  <2> QED BY <2>1 DEF Contract!streamVars
<1>3. CASE ~AllDone /\ AllDone'
  <2>1. inClosed' /\ outClosed'
    <3>1. \A g \in Goroutines : \A a : ~Has(todo'[g], a)
      BY <1>3, EmptyHas DEF AllDone
    <3>2. ~Unspawned' /\ \A g \in Goroutines : ~Closer(g)'
      BY <3>1 DEF Unspawned, Closer, Goroutines
    <3> QED BY <3>1, <3>2 DEF IInv, DrainsAtLast, ClosesAtLast, Goroutines
  <2>2. AllDone' = TRUE BY <1>3
  <2>3. Contract!Return BY <1>3, <2>1, <2>2 DEF Contract!Return
  <2> QED BY <2>3 DEF Contract!Next
<1> QED BY <1>1, <1>2, <1>3

LEMMA StepKeepsContract ==
  ASSUME IInv, IInv', ClosesAtLast', [Next \/ Ended]_vars
  PROVE  [Contract!Next]_Contract!streamVars
<1>1. ASSUME Take \/ \E g \in Goroutines : Drain(g) /\ UNCHANGED todo
      PROVE  Contract!Next \/ UNCHANGED <<taken, sent, inClosed, outClosed>>
  <2>1. CASE offer /\ taken' = taken + 1
    <3>1. UNCHANGED <<todo, sent, inClosed, outClosed>> /\ ~AllDone
      BY <1>1 DEF Take, Drain, inVars, outVars, AllDone, At, Goroutines
    <3>2. AllDone' = AllDone BY <3>1 DEF AllDone
    <3>3. ~inClosed /\ taken < Payloads BY <2>1 DEF IInv, Counts
    <3>4. Contract!Take BY <2>1, <3>1, <3>2, <3>3 DEF Contract!Take
    <3> QED BY <3>4 DEF Contract!Next
  <2>2. CASE UNCHANGED <<taken, sent, inClosed, outClosed>>
    BY <2>2
  <2> QED BY <1>1, <2>1, <2>2 DEF Take, Drain, inVars, outVars
<1>2. ASSUME NEW g \in Goroutines, CloseOut(g) PROVE Contract!Next
  <2>1. At(g, "closeOut") /\ Has(todo[g], "closeOut") /\ Closer(g)
    BY <1>2, AtStep DEF CloseOut, IInv, Closer
  <2>2. ~outClosed /\ ~AllDone
    BY <2>1 DEF IInv, OneCloser, AllDone, At
  <2>3. ~AllDone'
    <3>1. todo[g] \in Seq(Steps) /\ todo[g] # <<>> /\ Head(todo[g]) = "closeOut"
      BY <2>1 DEF IInv, TypeOK, At
    <3>2. todo'[g] = Tail(todo[g]) BY <1>2 DEF CloseOut, Go, IInv, TypeOK
    <3>3. Has(todo'[g], "done")
      BY <3>1, <3>2, TailKeeps DEF IInv, InProgram
    <3> QED BY <3>3, EmptyHas DEF AllDone
  <2>4. AllDone' = AllDone BY <2>2, <2>3 DEF AllDone
  <2>5. Contract!EndOutput
    BY <1>2, <2>2, <2>4 DEF Contract!EndOutput, CloseOut, inVars
  <2> QED BY <2>5 DEF Contract!Next
<1>3. ASSUME CloseInput PROVE Contract!Next
  <2>1. AllDone' = AllDone BY <1>3 DEF CloseInput, AllDone
  <2>2. Contract!EndInput
    BY <1>3, <2>1 DEF CloseInput, Contract!EndInput, outVars
  <2> QED BY <2>2 DEF Contract!Next
<1>4. ASSUME Deliver PROVE Contract!Next
  <2>1. PICK g \in Goroutines : At(g, "produce")
    BY <1>4 DEF Deliver, IInv, OneCloser
  <2>2. ~outClosed /\ ~AllDone BY <2>1, SendersOpen DEF AllDone, At
  <2>3. AllDone' = AllDone BY <1>4 DEF Deliver, AllDone
  <2>4. Contract!Hand
    BY <1>4, <2>2, <2>3 DEF Deliver, Contract!Hand, inVars
  <2> QED BY <2>4 DEF Contract!Next
<1>5. \/ Take \/ CloseInput \/ Deliver
      \/ \E g \in Goroutines : Drain(g) /\ UNCHANGED todo
      \/ \E g \in Goroutines : CloseOut(g)
      \/ UNCHANGED <<taken, sent, inClosed, outClosed>>
  <2> USE DEF inVars, outVars, pipeVars
  <2>1. ASSUME NEW g \in Goroutines, Goroutine(g)
        PROVE  \/ Drain(g) /\ UNCHANGED todo
               \/ CloseOut(g)
               \/ UNCHANGED <<taken, sent, inClosed, outClosed>>
    <3>1. CASE Drain(g) BY <3>1 DEF Drain
    <3>2. CASE Return(g) \/ Produced(g) \/ Emit(g)
      BY <3>2 DEF Return, Produced, Emit
    <3>3. CASE Close(g) \/ Cancel(g) \/ Read(g)
      BY <3>3 DEF Close, Cancel, Read
    <3> QED BY <2>1, <3>1, <3>2, <3>3 DEF Goroutine
  <2>2. CASE Main
    BY <2>2 DEF Main, Setup, Spawn, Join, Goahead, Request, Response, Tell, Sync
  <2>3. CASE Copier
    BY <2>3 DEF Copier, InputEnds, Cancelled, Write, WriteFails,
                PingFails, AwaitCancel, AwaitPeer
  <2>4. CASE Far \/ Exit \/ FarCloses
    BY <2>4 DEF Far, Read, Exit, FarCloses
  <2>5. CASE Offer \/ CloseInput \/ Deliver \/ Terminate
    BY <2>5 DEF Offer, Terminate
  <2>6. CASE UNCHANGED vars BY <2>6 DEF vars
  <2> QED BY <2>1, <2>2, <2>3, <2>4, <2>5, <2>6 DEF Next, Ended
<1> QED BY <1>1, <1>2, <1>3, <1>4, <1>5, QuietStep

(* Every handler that closes its channel when it gives up implements the   *)
(* safety part of its contract with its neighbours (message.go:29): it     *)
(* takes payloads until its sender closes, closes its own channel once     *)
(* with nothing sent after it, and returns when both channels have ended.  *)
THEOREM ImplementsContract ==
  ASSUME ClosesWhenGivingUp
  PROVE  Spec => Contract!Init /\ [][Contract!Next]_Contract!streamVars
<1>1. Init => IInv /\ ClosesAtLast /\ Contract!Init
  <2> SUFFICES ASSUME Init PROVE ClosesAtLast /\ Contract!Init
    BY InitHolds
  <2>1. todo["main"] = <<"setup">> BY DEF Init, Goroutines
  <2>2. Has(<<"setup">>, "setup") BY DEF Has
  <2>3. ClosesAtLast
    BY <2>1, <2>2 DEF ClosesAtLast, Closer, Unspawned, Goroutines
  <2>4. AllDone = FALSE
    <3>1. <<"setup">> # <<>> OBVIOUS
    <3>2. "main" \in Goroutines BY DEF Goroutines
    <3> QED BY <2>1, <3>1, <3>2 DEF AllDone
  <2>5. Contract!Init BY <2>4 DEF Init, Contract!Init
  <2> QED BY <2>3, <2>5
<1>2. IInv /\ ClosesAtLast /\ [Next \/ Ended]_vars => IInv' /\ ClosesAtLast'
  BY NextKeeps, StillCloses
<1>3. IInv /\ IInv' /\ ClosesAtLast' /\ [Next \/ Ended]_vars =>
        [Contract!Next]_Contract!streamVars
  BY StepKeepsContract
<1> QED BY <1>1, <1>2, <1>3, PTL DEF Spec
=============================================================================
