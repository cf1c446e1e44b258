---------------------------- MODULE ReaderProofs ----------------------------
(***************************************************************************)
(* Theorems about the readers for every stream, however long, cut into     *)
(* payloads of any lengths, and for every --message-size, --skip-messages  *)
(* and --max-messages.  They leave out what the code gets wrong: ReadLine, *)
(* and hex payloads of odd and of even lengths in one stream, where an     *)
(* even one may come behind a kept digit.                                  *)
(***************************************************************************)
EXTENDS Readers, SequenceTheorems, TLAPS

(* The inputs the theorems are about *)
InPairs ==
  /\ "line" \notin Kinds
  /\ \A ls \in HexLengths : Even(ls) \/ \A n \in ls : n = 0 \/ Odd(n)

(* What the operators on sequences give. *)
LEMMA UpToOne == \A n \in Nat : n <= 1 => n = 0 \/ n = 1
OBVIOUS

LEMMA ShortSeq ==
  ASSUME NEW q \in Seq(Byte), Len(q) <= 1, q # <<>>
  PROVE  Len(q) = 1
<1>1. Len(q) \in Nat \ {0} BY EmptySeq
<1> QED BY <1>1, UpToOne

LEMMA PayloadGives ==
  ASSUME NEW n \in Nat, StreamOK, Arrives(n)
  PROVE  /\ Payload(n) \in Seq(Byte) /\ Len(Payload(n)) = n
         /\ InPlace(Payload(n), fed)
         /\ fed \in Nat /\ fed' = fed + n /\ fed' \in 0..Limit
<1>1. fed \in Nat /\ fed' = fed + n /\ fed' \in 0..Limit
  BY ReadersAssumption DEF StreamOK, Arrives
<1>2. \A i \in 1..n : fed + i \in Byte
  BY <1>1, ReadersAssumption DEF Byte
<1> QED BY <1>1, <1>2 DEF Payload, InPlace

LEMMA PartsGive ==
  ASSUME NEW q \in Seq(Byte), NEW n \in 0..Len(q), NEW at \in Int,
         InPlace(q, at)
  PROVE  /\ First(q, n) \in Seq(Byte) /\ Len(First(q, n)) = n
         /\ InPlace(First(q, n), at)
         /\ Rest(q, n) \in Seq(Byte) /\ Len(Rest(q, n)) = Len(q) - n
         /\ InPlace(Rest(q, n), at + n)
<1>1. Len(q) \in Nat /\ \A i \in 1..Len(q) : q[i] \in Byte OBVIOUS
<1>2. /\ \A i \in 1..n : q[i] \in Byte
      /\ \A i \in (n + 1)..Len(q) : q[i] \in Byte
  BY <1>1
<1>3. /\ First(q, n) \in Seq(Byte) /\ Len(First(q, n)) = n
      /\ \A i \in 1..n : First(q, n)[i] = q[i]
  BY <1>1, <1>2, SubSeqProperties DEF First
<1>4. /\ Rest(q, n) \in Seq(Byte) /\ Len(Rest(q, n)) = Len(q) - n
      /\ \A i \in 1..(Len(q) - n) : Rest(q, n)[i] = q[n + i]
  BY <1>1, <1>2, SubSeqProperties DEF Rest
<1>5. InPlace(First(q, n), at) BY <1>1, <1>3 DEF InPlace
<1>6. InPlace(Rest(q, n), at + n)
  <2>1. \A i \in 1..(Len(q) - n) : q[n + i] = at + (n + i)
    BY <1>1 DEF InPlace
  <2> QED BY <1>1, <1>4, <2>1 DEF InPlace
<1> QED BY <1>3, <1>4, <1>5, <1>6

LEMMA JoinGives ==
  ASSUME NEW p \in Seq(Byte), NEW q \in Seq(Byte), NEW at \in Int,
         InPlace(p, at), InPlace(q, at + Len(p))
  PROVE  /\ p \o q \in Seq(Byte) /\ Len(p \o q) = Len(p) + Len(q)
         /\ InPlace(p \o q, at)
<1>1. /\ p \o q \in Seq(Byte) /\ Len(p \o q) = Len(p) + Len(q)
      /\ \A i \in 1..(Len(p) + Len(q)) :
           (p \o q)[i] = IF i <= Len(p) THEN p[i] ELSE q[i - Len(p)]
  BY ConcatProperties
<1>2. Len(p) \in Nat /\ Len(q) \in Nat OBVIOUS
<1>3. ASSUME NEW i \in 1..(Len(p) + Len(q)) PROVE (p \o q)[i] = at + i
  <2>1. CASE i <= Len(p) BY <2>1, <1>1, <1>2 DEF InPlace
  <2>2. CASE i > Len(p)
    <3>1. i - Len(p) \in 1..Len(q) BY <2>2, <1>2
    <3>2. q[i - Len(p)] = at + Len(p) + (i - Len(p)) BY <3>1 DEF InPlace
    <3> QED BY <3>2, <2>2, <1>1, <1>2
  <2> QED BY <2>1, <2>2, <1>2
<1> QED BY <1>1, <1>3 DEF InPlace

(* A message that continues what was sent on extends it without a gap. *)
LEMMA PassGives ==
  ASSUME StreamOK, Divided, NEW at \in Int,
         InPlace(passed, at - Len(passed)),
         NEW message \in Seq(Byte), InPlace(message, at),
         Len(message) <= Limit, Cut(Len(message)), kind' = kind,
         Pass(message)
  PROVE  /\ passed' \in Seq(Byte) /\ Len(passed') = Len(passed) + Len(message)
         /\ InPlace(passed', at - Len(passed))
         /\ cuts' \in Seq(0..Limit) /\ Len(cuts') = Len(cuts) + 1
         /\ Divided'
<1>1. /\ Len(passed) \in Nat /\ Len(message) \in 0..Limit
      /\ passed \in Seq(Byte) /\ cuts \in Seq(0..Limit)
  BY ReadersAssumption DEF StreamOK
<1>2. at - Len(passed) \in Int /\ (at - Len(passed)) + Len(passed) = at BY <1>1
<1>3. /\ passed' \in Seq(Byte) /\ Len(passed') = Len(passed) + Len(message)
      /\ InPlace(passed', at - Len(passed))
  BY <1>1, <1>2, JoinGives DEF Pass
<1>4. /\ cuts' \in Seq(0..Limit) /\ Len(cuts') = Len(cuts) + 1
      /\ cuts'[Len(cuts) + 1] = Len(message)
      /\ \A i \in 1..Len(cuts) : cuts'[i] = cuts[i]
  BY <1>1 DEF Pass
<1>5. \A i \in 1..Len(cuts') : i \in 1..Len(cuts) \/ i = Len(cuts) + 1
  BY <1>1, <1>4
<1>6. Divided' BY <1>4, <1>5 DEF Divided, Cut
<1> QED BY <1>3, <1>4, <1>6

-----------------------------------------------------------------------------
(* Every action keeps the invariant. *)

(* The decoder completes a pair with the digit it kept, or keeps the last. *)
LEMMA HexGives ==
  ASSUME InPairs, Flow, NEW n \in Nat, n # 0, HexDecode(n)
  PROVE  LET message == HexMessage(Payload(n)) IN
         /\ message \in Seq(Byte) /\ InPlace(message, Before)
         /\ Len(message) <= Limit /\ ~Odd(Len(message))
         /\ Pass(message)
         /\ crumb' \in Seq(Byte) /\ Len(crumb') <= 1
         /\ InPlace(crumb', fed' - Len(crumb'))
         /\ Len(crumb) + n = Len(message) + Len(crumb')
         /\ Even(lengths) => crumb' = <<>>
<1> DEFINE p == Payload(n)
           message == HexMessage(p)
<1>1. /\ kind = "hex" /\ Arrives(n)
      /\ \/ ~Odd(n) /\ crumb = <<>>
         \/ Odd(n) /\ ~Even(lengths)
  <2>1. /\ kind = "hex" /\ n \in lengths /\ lengths \in HexLengths
        /\ Arrives(n)
    BY DEF HexDecode, Comes, Flow, StreamOK
  <2>2. CASE Even(lengths)
    <3>1. ~Odd(n) BY <2>1, <2>2 DEF Even
    <3>2. crumb = <<>> BY <2>1, <2>2 DEF Flow, Accounted
    <3> QED BY <2>1, <3>1, <3>2
  <2>3. CASE ~Even(lengths)
    <3>1. Odd(n) BY <2>1, <2>3 DEF InPairs
    <3> QED BY <2>1, <2>3, <3>1
  <2> QED BY <2>2, <2>3
<1>2. /\ p \in Seq(Byte) /\ Len(p) = n /\ InPlace(p, fed)
      /\ fed \in Nat /\ fed' = fed + n /\ fed' \in 0..Limit
  BY <1>1, PayloadGives DEF Flow
<1>3. /\ crumb \in Seq(Byte) /\ Len(crumb) \in Nat /\ Len(crumb) <= 1
      /\ Len(crumb) <= fed
      /\ InPlace(crumb, Before) /\ Before = fed - Len(crumb) /\ Limit \in Nat
  <2>1. /\ crumb \in Seq(Byte) /\ Len(crumb) <= 1
        /\ Before = Len(passed) /\ passed \in Seq(Byte)
        /\ InPlace(crumb, Before)
    BY <1>1 DEF Flow, StreamOK, Accounted, Aligned
  <2>2. Len(crumb) \in Nat /\ Len(passed) \in Nat BY <2>1
  <2>3. Before = fed - Len(crumb) BY DEF Before
  <2>4. Len(crumb) <= fed BY <2>1, <2>2, <2>3, <1>2
  <2>5. Limit \in Nat BY ReadersAssumption
  <2> QED BY <2>1, <2>2, <2>3, <2>4, <2>5
<1>4. Pass(message) /\ crumb' = HexCrumb(p) BY DEF HexDecode
<1> HIDE DEF p
<1>5. CASE crumb # <<>>
  <2>0. Odd(n) BY <1>1, <1>5
  <2>1. message = crumb \o p /\ crumb' = <<>>
    BY <2>0, <1>2, <1>4, <1>5 DEF HexMessage, HexCrumb
  <2>2. Len(crumb) = 1 BY <1>3, <1>5, ShortSeq
  <2>3. InPlace(p, Before + Len(crumb)) BY <1>2, <1>3
  <2>4. /\ message \in Seq(Byte) /\ Len(message) = 1 + n
        /\ InPlace(message, Before)
    <3>1. Before \in Int BY <1>2, <1>3
    <3> HIDE DEF message
    <3> QED BY <2>1, <2>2, <2>3, <3>1, <1>2, <1>3, JoinGives
  <2>5. ~Odd(1 + n) BY <2>0 DEF Odd
  <2>6. /\ crumb' \in Seq(Byte) /\ Len(crumb') = 0
        /\ InPlace(crumb', fed' - Len(crumb'))
    BY <2>1 DEF InPlace
  <2>7. Len(message) <= Limit BY <2>4, <2>2, <1>2, <1>3
  <2> HIDE DEF message
  <2> QED BY <2>2, <2>4, <2>5, <2>6, <2>7, <1>4 DEF p, message
<1>6. CASE crumb = <<>> /\ Odd(n)
  <2>1. message = First(p, n - 1) /\ crumb' = <<p[n]>>
    BY <1>2, <1>4, <1>6 DEF HexMessage, HexCrumb, EvenKept
  <2>2. n - 1 \in 0..Len(p) /\ Len(crumb) = 0 /\ Before = fed
    BY <1>2, <1>3, <1>6
  <2>3. /\ message \in Seq(Byte) /\ Len(message) = n - 1
        /\ InPlace(message, Before)
    <3>1. Before \in Int BY <1>2, <1>3
    <3> HIDE DEF message
    <3> QED BY <2>1, <2>2, <3>1, <1>2, PartsGive
  <2>4. p[n] \in Byte /\ p[n] = fed + n BY <1>2 DEF InPlace
  <2>5. /\ crumb' \in Seq(Byte) /\ Len(crumb') = 1
        /\ InPlace(crumb', fed' - Len(crumb'))
    BY <2>1, <2>4, <1>2 DEF InPlace
  <2>6. ~Odd(n - 1) /\ n - 1 <= Limit BY <1>2, <1>3, <1>6 DEF Odd
  <2>7. ~Even(lengths) BY <1>1, <1>6
  <2> HIDE DEF message
  <2> QED BY <2>2, <2>3, <2>5, <2>6, <2>7, <1>4 DEF p, message
<1>7. CASE crumb = <<>> /\ ~Odd(n)
  <2>1. message = p /\ crumb' = <<>>
    BY <1>2, <1>4, <1>7 DEF HexMessage, HexCrumb
  <2>2. InPlace(p, Before) /\ n <= Limit /\ Len(crumb) = 0
    BY <1>2, <1>3, <1>7
  <2>3. Len(crumb') = 0 /\ crumb' \in Seq(Byte) BY <2>1
  <2>4. InPlace(crumb', fed' - Len(crumb')) BY <2>1 DEF InPlace
  <2> HIDE DEF message
  <2> QED BY <2>1, <2>2, <2>3, <2>4, <1>2, <1>4, <1>7 DEF p, message
<1> QED BY <1>5, <1>6, <1>7

LEMMA HexKeeps ==
  ASSUME InPairs, Flow, NEW n \in Nat, HexDecode(n)
  PROVE  Flow'
<1>0. /\ kind = "hex" /\ Arrives(n) /\ StreamOK
      /\ UNCHANGED <<kind, newlines, lengths, skip, max, over, skipped, count,
                     stopped>>
      /\ ~stopped
  BY DEF HexDecode, Comes, Arrives, asked, counted, Flow
<1>1. max = 0 /\ skip = 0 /\ Before = Len(passed)
  BY <1>0, ReadersAssumption DEF Flow, Ahead, Accounted, StreamOK
<1>2. CASE n = 0
  <2>1. UNCHANGED <<crumb, passed, cuts, fed>>
    <3>1. fed' = fed + n /\ fed \in Nat BY <1>0, PayloadGives
    <3> QED BY <3>1, <1>2 DEF HexDecode, output
  <2> QED BY <2>1, <1>0
          DEF Flow, StreamOK, Aligned, Accounted, Divided, Ahead, Ended,
              Before, Cut, Skipping, HasFull
<1>3. CASE n # 0
  <2> DEFINE message == HexMessage(Payload(n))
  <2>1. /\ message \in Seq(Byte) /\ InPlace(message, Before)
        /\ Len(message) <= Limit /\ ~Odd(Len(message))
        /\ Pass(message)
        /\ crumb' \in Seq(Byte) /\ Len(crumb') <= 1
        /\ InPlace(crumb', fed' - Len(crumb'))
        /\ Len(crumb) + n = Len(message) + Len(crumb')
        /\ Even(lengths) => crumb' = <<>>
    BY <1>3, HexGives
  <2>2. /\ fed \in Nat /\ fed' = fed + n /\ fed' \in 0..Limit
    BY <1>0, PayloadGives
  <2>3. /\ Len(crumb) \in Nat /\ Before = fed - Len(crumb)
        /\ InPlace(passed, Before - Len(passed)) /\ Len(passed) \in Nat
        /\ Divided /\ ~Odd(Len(passed))
    BY <1>0, <2>2 DEF Flow, StreamOK, Aligned, Before, Accounted
  <2>4. Cut(Len(message)) BY <2>1, <1>0 DEF Cut
  <2> HIDE DEF message
  <2>5. /\ passed' \in Seq(Byte) /\ Len(passed') = Len(passed) + Len(message)
        /\ InPlace(passed', Before - Len(passed))
        /\ cuts' \in Seq(0..Limit) /\ Len(cuts') = Len(cuts) + 1
        /\ Divided'
    BY <2>1, <2>2, <2>3, <2>4, <1>0, PassGives
  <2>6. Len(message) \in Nat /\ Len(crumb') \in Nat /\ Len(passed') \in Nat
    BY <2>1, <2>5
  <2>7. Before' = Len(passed')
    BY <2>1, <2>2, <2>3, <2>5, <2>6, <1>1 DEF Before
  <2>8. Before' - Len(passed') = Before - Len(passed)
    BY <2>7, <2>6, <2>3, <1>1
  <2>9. Aligned' BY <2>1, <2>5, <2>8, <1>0, <1>1 DEF Aligned, Before, Skipping
  <2>10. Accounted'
    <3>1. ASSUME NEW a \in Nat, NEW b \in Nat, ~Odd(a), ~Odd(b)
          PROVE  ~Odd(a + b)
      BY <3>1 DEF Odd
    <3>2. ~Odd(Len(passed')) BY <3>1, <2>1, <2>3, <2>5, <2>6
    <3>3. Even(lengths)' => crumb' = <<>> BY <2>1, <1>0 DEF Even
    <3> QED BY <3>2, <3>3, <2>1, <2>7, <1>0, <1>1 DEF Accounted
  <2>11. StreamOK'
    BY <2>1, <2>2, <2>5, <1>0 DEF StreamOK
  <2>12. Ahead' /\ Ended' BY <1>0, <1>1 DEF Ahead, Ended
  <2> QED BY <2>5, <2>9, <2>10, <2>11, <2>12 DEF Flow
<1> QED BY <1>2, <1>3

(* startByteHandler skips a message, ignores it or sends it on. *)
LEMMA HandleGives ==
  ASSUME StreamOK, Divided, Ahead, ~stopped,
         kind' = kind, skip' = skip, max' = max,
         kind \in {"full", "message"},
         NEW at \in Int, InPlace(passed, at - Len(passed)),
         Skipping => passed = <<>>,
         NEW message \in Seq(Byte), InPlace(message, at),
         Len(message) <= Limit, Cut(Len(message)), Handle(message)
  PROVE  /\ passed' \in Seq(Byte) /\ cuts' \in Seq(0..Limit)
         /\ skipped' \in 0..skip /\ count' \in Nat \ {0}
         /\ stopped' \in BOOLEAN /\ (stopped' => max > 0)
         /\ Divided' /\ Ahead' /\ (Skipping' => passed' = <<>>)
         /\ InPlace(passed', (at + Len(message)) - Len(passed'))
         /\ \/ /\ skipped' = skipped + 1
               /\ UNCHANGED <<passed, cuts>>
            \/ /\ message = <<>>
               /\ UNCHANGED <<skipped, passed, cuts>>
            \/ /\ skipped' = skipped
               /\ Len(passed') = Len(passed) + Len(message)
               /\ Len(cuts') = Len(cuts) + 1
<1>1. /\ passed \in Seq(Byte) /\ cuts \in Seq(0..Limit)
      /\ skip \in Nat /\ max \in Nat /\ skipped \in 0..skip
      /\ count \in Nat \ {0} /\ stopped = FALSE
      /\ Len(passed) \in Nat /\ Len(cuts) \in Nat /\ Len(message) \in Nat
  BY ReadersAssumption DEF StreamOK
<1>2. max > 0 => Len(cuts) < max /\ Len(cuts) < count BY DEF Ahead
<1>3. CASE Skipping /\ skipped' = skipped + 1 /\ count' = count + 1
           /\ UNCHANGED <<output, stopped>>
  <2>1. passed = <<>> /\ passed' = <<>> /\ cuts' = cuts /\ stopped' = FALSE
    BY <1>1, <1>3 DEF output
  <2>2. skipped' \in 0..skip BY <1>1, <1>3 DEF Skipping
  <2>3. Divided' BY <2>1 DEF Divided, Cut
  <2>4. Ahead' BY <2>1, <1>1, <1>2, <1>3 DEF Ahead
  <2>5. InPlace(passed', (at + Len(message)) - Len(passed'))
    BY <2>1 DEF InPlace
  <2>6. /\ count' \in Nat \ {0} /\ skipped' = skipped + 1
        /\ UNCHANGED <<passed, cuts>>
        /\ passed' \in Seq(Byte) /\ cuts' \in Seq(0..Limit)
    BY <2>1, <1>1, <1>3
  <2> QED BY <2>1, <2>2, <2>3, <2>4, <2>5, <2>6
<1>4. CASE ~Skipping /\ message = <<>> /\ count' = count + 1
           /\ UNCHANGED <<skipped, output, stopped>>
  <2>1. /\ passed' = passed /\ cuts' = cuts /\ stopped' = FALSE
        /\ skipped' = skipped /\ Len(message) = 0
    BY <1>1, <1>4 DEF output
  <2>2. Divided' /\ ~Skipping' BY <2>1, <1>4 DEF Divided, Cut, Skipping
  <2>3. Ahead' BY <2>1, <1>1, <1>2, <1>4 DEF Ahead
  <2>4. InPlace(passed', (at + Len(message)) - Len(passed'))
    <3>1. (at + Len(message)) - Len(passed') = at - Len(passed)
      BY <2>1, <1>1
    <3> QED BY <3>1, <2>1
  <2>5. /\ count' \in Nat \ {0} /\ UNCHANGED <<skipped, passed, cuts>>
        /\ passed' \in Seq(Byte) /\ cuts' \in Seq(0..Limit)
        /\ skipped' \in 0..skip /\ message = <<>>
    BY <2>1, <1>1, <1>4
  <2> QED BY <2>1, <2>2, <2>3, <2>4, <2>5
<1>5. CASE /\ ~Skipping /\ Pass(message) /\ stopped' = Reached
           /\ count' = IF Reached THEN count ELSE count + 1
           /\ UNCHANGED skipped
  <2>1. /\ passed' \in Seq(Byte) /\ Len(passed') = Len(passed) + Len(message)
        /\ InPlace(passed', at - Len(passed))
        /\ cuts' \in Seq(0..Limit) /\ Len(cuts') = Len(cuts) + 1
        /\ Divided'
    BY <1>5, PassGives
  <2>2. (at + Len(message)) - Len(passed') = at - Len(passed) BY <2>1, <1>1
  <2>3. ~Skipping' BY <1>5 DEF Skipping
  <2>4. Ahead'
    <3>1. SUFFICES ASSUME max > 0
                   PROVE  /\ Len(cuts') <= max
                          /\ ~stopped' => Len(cuts') < max /\ Len(cuts') < count'
      BY DEF Ahead
    <3>2. Len(cuts) < max /\ Len(cuts) < count BY <3>1, <1>2
    <3>3. Len(cuts') = Len(cuts) + 1 BY <2>1
    <3>4. CASE count >= max
      <4>1. stopped' BY <3>1, <3>4, <1>5 DEF Reached
      <4> QED BY <4>1, <3>2, <3>3, <1>1
    <3>5. CASE ~(count >= max)
      <4>1. count' = count + 1 BY <3>5, <1>5 DEF Reached
      <4> QED BY <4>1, <3>2, <3>3, <3>5, <1>1
    <3> QED BY <3>4, <3>5
  <2>5. stopped' \in BOOLEAN /\ (stopped' => max > 0) BY <1>5 DEF Reached
  <2>6. count' \in Nat \ {0} BY <1>1, <1>5
  <2> QED BY <2>1, <2>2, <2>3, <2>4, <2>5, <2>6, <1>1, <1>5
<1> QED BY <1>3, <1>4, <1>5 DEF Handle

LEMMA ReadMessageKeeps ==
  ASSUME Flow, NEW n \in Nat, ReadMessage(n)
  PROVE  Flow'
<1> DEFINE message == Payload(n)
<1>0. /\ kind = "message" /\ Arrives(n) /\ ~stopped /\ Handle(message)
      /\ UNCHANGED <<kind, newlines, lengths, skip, max, crumb, over>>
      /\ StreamOK /\ Divided /\ Ahead
      /\ fed' = fed + n
  BY DEF ReadMessage, Comes, Arrives, asked, Flow
<1>1. /\ message \in Seq(Byte) /\ Len(message) = n /\ InPlace(message, fed)
      /\ fed \in Nat /\ fed' \in 0..Limit
  BY <1>0, PayloadGives
<1>2. /\ crumb = <<>> /\ Len(crumb) = 0 /\ Before = fed
      /\ InPlace(passed, fed - Len(passed))
      /\ (Skipping => passed = <<>>)
  BY <1>0, <1>1 DEF Flow, Aligned, Before
<1>3. Cut(Len(message)) BY <1>0 DEF Cut
<1>4. Len(message) <= Limit BY <1>0, <1>1, ReadersAssumption
<1>5. fed \in Int BY <1>1
<1> HIDE DEF message
<1>6. /\ passed' \in Seq(Byte) /\ cuts' \in Seq(0..Limit)
      /\ skipped' \in 0..skip /\ count' \in Nat \ {0}
      /\ stopped' \in BOOLEAN /\ (stopped' => max > 0)
      /\ Divided' /\ Ahead' /\ (Skipping' => passed' = <<>>)
      /\ InPlace(passed', (fed + Len(message)) - Len(passed'))
      /\ \/ skipped' = skipped + 1
         \/ message = <<>> /\ UNCHANGED passed
         \/ Len(passed') = Len(passed) + Len(message)
  BY <1>0, <1>1, <1>2, <1>3, <1>4, <1>5, HandleGives
<1>7. Aligned'
  <2>1. Before' = fed + Len(message) BY <1>0, <1>1, <1>2 DEF Before
  <2>2. InPlace(crumb', Before') BY <1>0, <1>2 DEF InPlace
  <2> QED BY <2>1, <2>2, <1>0, <1>2, <1>6 DEF Aligned
<1>8. StreamOK' BY <1>0, <1>1, <1>6 DEF StreamOK
<1>9. Accounted'
  <2>1. ASSUME skip = 0 PROVE Before' = Len(passed')
    <3>1. Before = Len(passed) BY <2>1, <1>0 DEF Flow, Accounted
    <3>2. ~(skipped' = skipped + 1) BY <2>1, <1>0, <1>6 DEF StreamOK
    <3>3. Before' = fed + Len(message) BY <1>0, <1>1, <1>2 DEF Before
    <3>4. Len(passed') = Len(passed) + Len(message)
      <4>1. Len(passed) \in Nat BY <1>0 DEF StreamOK
      <4> QED BY <3>2, <4>1, <1>6
    <3> QED BY <3>1, <3>3, <3>4, <1>2
  <2> QED BY <2>1, <1>0 DEF Accounted
<1>10. Ended' BY <1>0, <1>6, ReadersAssumption DEF Ended, StreamOK
<1> QED BY <1>6, <1>7, <1>8, <1>9, <1>10 DEF Flow

LEMMA ReceiveKeeps ==
  ASSUME Flow, NEW n \in Nat, Receive(n)
  PROVE  Flow'
<1>0. /\ kind = "full" /\ Arrives(n) /\ StreamOK /\ ~stopped
      /\ crumb' = crumb \o Payload(n)
      /\ UNCHANGED <<kind, newlines, lengths, skip, max, over, skipped, count,
                     passed, cuts, stopped>>
  BY DEF Receive, Comes, Arrives, asked, counted, output, Flow
<1>1. /\ Payload(n) \in Seq(Byte) /\ Len(Payload(n)) = n
      /\ InPlace(Payload(n), fed)
      /\ fed \in Nat /\ fed' = fed + n /\ fed' \in 0..Limit
  BY <1>0, PayloadGives
<1>2. /\ crumb \in Seq(Byte) /\ Len(crumb) \in Nat
      /\ Before \in Int /\ InPlace(crumb, Before) /\ Before + Len(crumb) = fed
  BY <1>0, <1>1 DEF Flow, StreamOK, Aligned, Before
<1>3. /\ crumb' \in Seq(Byte) /\ Len(crumb') = Len(crumb) + n
      /\ InPlace(crumb', Before)
  BY <1>0, <1>1, <1>2, JoinGives
<1>4. Before' = Before BY <1>1, <1>2, <1>3 DEF Before
<1>5. StreamOK' BY <1>0, <1>1, <1>3 DEF StreamOK
<1>6. Aligned' BY <1>0, <1>3, <1>4 DEF Flow, Aligned, Skipping
<1>7. Accounted' BY <1>0, <1>4 DEF Flow, Accounted
<1>8. Divided' /\ Ahead' /\ Ended'
  BY <1>0 DEF Flow, Divided, Cut, Ahead, Ended
<1> QED BY <1>5, <1>6, <1>7, <1>8 DEF Flow

LEMMA ReadFullKeeps ==
  ASSUME Flow, ReadFull
  PROVE  Flow'
<1> DEFINE message == First(crumb, Size)
<1>0. /\ kind = "full" /\ ~stopped /\ Handle(message)
      /\ crumb' = Rest(crumb, Size) /\ Len(crumb) >= Size
      /\ UNCHANGED <<kind, newlines, lengths, skip, max, fed, over>>
      /\ StreamOK /\ Divided /\ Ahead
  BY DEF ReadFull, HasFull, asked, input, Flow
<1>1. /\ crumb \in Seq(Byte) /\ fed \in 0..Limit /\ fed \in Nat
      /\ Size \in Nat /\ Limit \in Nat
      /\ Len(crumb) \in Nat /\ Size \in 0..Len(crumb)
      /\ Len(passed) \in Nat /\ Len(cuts) \in Nat /\ skipped \in Nat
      /\ Before = fed - Len(crumb) /\ Before \in Int
  BY <1>0, ReadersAssumption DEF StreamOK, Before
<1>2. /\ InPlace(crumb, Before) /\ InPlace(passed, Before - Len(passed))
      /\ (Skipping => passed = <<>>)
      /\ Before = skipped * Size + Len(passed)
      /\ Len(passed) = Len(cuts) * Size
  BY <1>0 DEF Flow, Aligned, Accounted
<1>3. /\ message \in Seq(Byte) /\ Len(message) = Size
      /\ InPlace(message, Before)
      /\ crumb' \in Seq(Byte) /\ Len(crumb') = Len(crumb) - Size
      /\ InPlace(crumb', Before + Size)
  BY <1>0, <1>1, <1>2, PartsGive
<1>4. Cut(Len(message)) BY <1>0, <1>3 DEF Cut
<1>5. Len(message) <= Limit
  <2>1. skipped * Size \in Nat BY <1>1
  <2>2. Before >= 0 BY <2>1, <1>1, <1>2
  <2> QED BY <2>2, <1>1, <1>3
<1> HIDE DEF message
<1>6. /\ passed' \in Seq(Byte) /\ cuts' \in Seq(0..Limit)
      /\ skipped' \in 0..skip /\ count' \in Nat \ {0}
      /\ stopped' \in BOOLEAN /\ (stopped' => max > 0)
      /\ Divided' /\ Ahead' /\ (Skipping' => passed' = <<>>)
      /\ InPlace(passed', (Before + Len(message)) - Len(passed'))
      /\ \/ /\ skipped' = skipped + 1
            /\ UNCHANGED <<passed, cuts>>
         \/ /\ message = <<>>
            /\ UNCHANGED <<skipped, passed, cuts>>
         \/ /\ skipped' = skipped
            /\ Len(passed') = Len(passed) + Len(message)
            /\ Len(cuts') = Len(cuts) + 1
  BY <1>0, <1>1, <1>2, <1>3, <1>4, <1>5, HandleGives
<1>7. Before' = Before + Size BY <1>0, <1>1, <1>3 DEF Before
<1>8. StreamOK' BY <1>0, <1>1, <1>3, <1>6 DEF StreamOK
<1>9. Aligned' BY <1>0, <1>3, <1>6, <1>7 DEF Aligned
<1>10. Accounted'
  <2>1. CASE skipped' = skipped + 1 /\ UNCHANGED <<passed, cuts>>
    <3>1. (skipped + 1) * Size = skipped * Size + Size BY <1>1
    <3>2. skipped * Size \in Nat BY <1>1
    <3>3. Before' = skipped' * Size + Len(passed')
      <4>1. skipped' * Size = skipped * Size + Size BY <2>1, <3>1
      <4>2. Before' = (skipped * Size + Len(passed)) + Size BY <1>2, <1>7
      <4>3. \A x, y, z \in Nat : (x + y) + z = (x + z) + y OBVIOUS
      <4>4. Len(passed') = Len(passed) BY <2>1
      <4> QED BY <4>1, <4>2, <4>3, <4>4, <3>2, <1>1
    <3>4. Len(passed') = Len(cuts') * Size BY <2>1, <1>2
    <3> QED BY <3>3, <3>4, <1>0 DEF Accounted
  <2>2. CASE message = <<>>
    <3>1. Size = 0 BY <2>2, <1>3
    <3> QED BY <3>1, ReadersAssumption
  <2>3. CASE /\ skipped' = skipped
             /\ Len(passed') = Len(passed) + Len(message)
             /\ Len(cuts') = Len(cuts) + 1
    <3>1. (Len(cuts) + 1) * Size = Len(cuts) * Size + Size BY <1>1
    <3>2. skipped * Size \in Nat /\ Len(cuts) * Size \in Nat BY <1>1
    <3>3. Before' = skipped * Size + Len(passed')
      <4>1. Len(passed') = Len(passed) + Size BY <2>3, <1>3
      <4>2. \A x, y, z \in Nat : (x + y) + z = x + (y + z) OBVIOUS
      <4> QED BY <4>1, <4>2, <3>2, <1>1, <1>2, <1>7
    <3>4. Len(passed') = Len(cuts') * Size
      BY <2>3, <3>1, <3>2, <1>1, <1>2, <1>3
    <3> QED BY <2>3, <3>3, <3>4, <1>0 DEF Accounted
  <2> QED BY <2>1, <2>2, <2>3, <1>6
<1>11. Ended' BY <1>0, <1>6, ReadersAssumption DEF Ended, StreamOK
<1> QED BY <1>6, <1>8, <1>9, <1>10, <1>11 DEF Flow

(* Into a buffer that shrank away ReadBytesStep reads nothing. *)
LEMMA ReadStepKeeps ==
  ASSUME Flow, NEW n \in Nat, ReadStep(n) \/ ReadStepLast(n)
  PROVE  Flow'
<1>0. /\ kind = "step" /\ StreamOK /\ ~stopped /\ Divided
      /\ UNCHANGED <<kind, newlines, lengths, skip, max, crumb, skipped, count>>
      /\ over' \in BOOLEAN /\ stopped' \in BOOLEAN /\ (stopped' => over')
  <2>1. /\ kind = "step" /\ StreamOK /\ Divided
        /\ UNCHANGED <<kind, newlines, lengths, skip, max, crumb, skipped, count>>
    BY DEF ReadStep, ReadStepLast, asked, counted, Flow
  <2>2. ~stopped BY DEF ReadStep, ReadStepLast, Comes, Arrives
  <2>3. \/ over' = over /\ stopped' = stopped
        \/ over' = TRUE /\ stopped' = TRUE
    BY DEF ReadStep, ReadStepLast, Comes, input
  <2>4. over \in BOOLEAN /\ stopped \in BOOLEAN BY <2>1 DEF StreamOK
  <2>5. /\ over' \in BOOLEAN /\ stopped' \in BOOLEAN
        /\ stopped' => over'
    <3>1. CASE over' = over /\ stopped' = stopped BY <3>1, <2>2, <2>4
    <3>2. CASE over' = TRUE /\ stopped' = TRUE BY <3>2
    <3> QED BY <3>1, <3>2, <2>3
  <2> QED BY <2>1, <2>2, <2>5
<1>1. /\ max = 0 /\ skip = 0 /\ crumb = <<>> /\ Before = Len(passed)
      /\ fed \in Nat /\ passed \in Seq(Byte) /\ Len(passed) \in Nat
  BY <1>0, ReadersAssumption DEF Flow, Ahead, Accounted, Aligned, StreamOK
<1>2. Before = fed /\ Len(crumb) = 0 BY <1>1 DEF Before
<1>3. CASE UNCHANGED <<input, output>>
  BY <1>0, <1>3 DEF Flow, StreamOK, Aligned, Accounted, Divided, Ahead, Ended,
                    Before, Cut, Skipping, HasFull, input, output
<1>4. CASE Arrives(n) /\ Pass(Payload(n))
  <2> DEFINE message == Payload(n)
  <2>1. /\ message \in Seq(Byte) /\ Len(message) = n /\ InPlace(message, fed)
        /\ fed' = fed + n /\ fed' \in 0..Limit
    BY <1>0, <1>4, PayloadGives
  <2>2. /\ InPlace(passed, fed - Len(passed)) /\ fed \in Int
        /\ Cut(Len(message)) /\ Len(message) <= Limit
    BY <1>0, <1>1, <1>2, <2>1, ReadersAssumption DEF Flow, Aligned, Cut
  <2>3. Pass(message) BY <1>4
  <2> HIDE DEF message
  <2>4. /\ passed' \in Seq(Byte) /\ Len(passed') = Len(passed) + Len(message)
        /\ InPlace(passed', fed - Len(passed))
        /\ cuts' \in Seq(0..Limit) /\ Len(cuts') = Len(cuts) + 1
        /\ Divided'
    BY <2>1, <2>2, <2>3, <1>0, PassGives
  <2>5. /\ Before' = fed' /\ Len(passed') = fed'
        /\ Before' - Len(passed') = fed - Len(passed)
    BY <2>1, <2>4, <1>0, <1>1, <1>2 DEF Before
  <2>6. InPlace(crumb', Before') BY <1>0, <1>1 DEF InPlace
  <2>7. Aligned' BY <2>4, <2>5, <2>6, <1>0, <1>1 DEF Aligned, Skipping
  <2>8. StreamOK' BY <2>1, <2>4, <1>0 DEF StreamOK
  <2>9. Accounted' BY <2>5, <1>0, <1>1 DEF Accounted
  <2>10. Ahead' /\ Ended' BY <1>0, <1>1 DEF Ahead, Ended
  <2> QED BY <2>4, <2>7, <2>8, <2>9, <2>10 DEF Flow
<1> QED BY <1>3, <1>4 DEF ReadStep, ReadStepLast, Comes

(* The end of the stream and of the reader touch nothing that was cut. *)
LEMMA EndKeeps ==
  ASSUME Flow, Ends \/ AtEof \/ ReadStepEof
  PROVE  Flow'
<1>1. UNCHANGED <<kind, newlines, lengths, skip, max, fed, crumb, skipped,
                  count, passed, cuts>>
  BY DEF Ends, AtEof, ReadStepEof, asked, input, counted, output
<1>2. over' \in BOOLEAN /\ stopped' \in BOOLEAN /\ (stopped => stopped')
  BY DEF Ends, AtEof, ReadStepEof, input, Flow, StreamOK
<1>3. StreamOK' /\ Aligned' /\ Accounted' /\ Divided'
  BY <1>1, <1>2 DEF Flow, StreamOK, Aligned, Accounted, Divided, Before, Cut,
                    Skipping
<1>4. Ahead' BY <1>1, <1>2 DEF Flow, Ahead
<1>5. Ended'
  BY <1>1 DEF Flow, Ended, HasFull, Ends, AtEof, ReadStepEof, input
<1> QED BY <1>3, <1>4, <1>5 DEF Flow

LEMMA AlwaysFlow ==
  ASSUME InPairs
  PROVE  Spec => []Flow
<1>1. Init => Flow
  <2> SUFFICES ASSUME Init PROVE Flow
    OBVIOUS
  <2>1. /\ Len(crumb) = 0 /\ Len(passed) = 0 /\ Len(cuts) = 0
        /\ crumb = <<>> /\ passed = <<>> /\ cuts = <<>>
        /\ fed = 0 /\ skipped = 0 /\ count = 1 /\ over = FALSE
        /\ stopped = Nothing
    BY DEF Init
  <2>2. /\ kind \in Kinds /\ newlines \subseteq Nat
        /\ skip \in Skips \cup {0} /\ max \in Maxima \cup {0}
        /\ skip \in Nat /\ max \in Nat /\ Size \in Nat
        /\ kind \notin {"full", "message"} => skip = 0 /\ max = 0
        /\ kind \in {"hex", "full", "message", "line", "step"}
        /\ lengths \in IF kind = "hex" THEN HexLengths ELSE {Lengths}
    <3>1. newlines \subseteq Nat BY ReadersAssumption DEF Init
    <3> QED BY <3>1, ReadersAssumption DEF Init
  <2>3. StreamOK
    <3>1. stopped \in BOOLEAN BY <2>1 DEF Nothing
    <3>2. crumb \in Seq(Byte) /\ passed \in Seq(Byte) /\ cuts \in Seq(0..Limit)
      BY <2>1
    <3>3. fed \in 0..Limit /\ skipped \in 0..skip /\ count \in Nat \ {0}
      BY <2>1, <2>2, ReadersAssumption
    <3> QED BY <3>1, <3>2, <3>3, <2>1, <2>2 DEF StreamOK
  <2>4. Before = 0 BY <2>1 DEF Before
  <2>5. Aligned BY <2>1, <2>4 DEF Aligned, InPlace
  <2>6. Accounted
    <3>1. 0 * Size = 0 BY <2>2
    <3> QED BY <3>1, <2>1, <2>2, <2>4 DEF Accounted, Odd
  <2>7. Divided /\ Ahead /\ Ended
    <3>1. Divided BY <2>1 DEF Divided
    <3>2. stopped => max > 0 BY <2>1 DEF Nothing
    <3>3. Ended BY <3>2, <2>2 DEF Ended
    <3>4. ASSUME max > 0
          PROVE  kind \in {"full", "message"} /\ 0 <= max /\ 0 < max /\ 0 < 1
      BY <3>4, <2>2
    <3>5. Ahead BY <3>4, <2>1 DEF Ahead
    <3> QED BY <3>1, <3>3, <3>5
  <2> QED BY <2>3, <2>5, <2>6, <2>7 DEF Flow
<1>2. Flow /\ [Next \/ Returned]_vars => Flow'
  <2> SUFFICES ASSUME Flow, Next \/ UNCHANGED vars PROVE Flow'
    BY DEF Returned
  <2>1. CASE UNCHANGED vars
    BY <2>1 DEF vars, asked, input, counted, output, Flow, StreamOK, Aligned,
                Accounted, Divided, Ahead, Ended, Before, Cut, Skipping, HasFull
  <2>2. ASSUME NEW n \in 0..Limit,
               \/ HexDecode(n) \/ ReadMessage(n) \/ Receive(n)
               \/ ReadLine(n) \/ ReadStep(n) \/ ReadStepLast(n)
        PROVE  Flow'
    <3>1. n \in Nat BY ReadersAssumption
    <3>2. ~ReadLine(n) BY DEF ReadLine, InPairs, Flow, StreamOK
    <3> QED BY <2>2, <3>1, <3>2, HexKeeps, ReadMessageKeeps, ReceiveKeeps,
               ReadStepKeeps
  <2> QED BY <2>1, <2>2, ReadFullKeeps, EndKeeps DEF Next, Feed
<1> QED BY <1>1, <1>2, PTL DEF Spec

(* The buffer of ReadBytesStep leaves its sizes by one step only. *)
LEMMA Sizing ==
  ASSUME BufferOK, NEW n \in Nat, ReadStep(n)
  PROVE  BufferOK' /\ (power > MaxPower => power' <= MaxPower)
<1>1. /\ MaxPower \in Nat /\ MaxUint \in Nat /\ MaxPower < MaxUint
      /\ power \in (0..MaxPower) \cup {MaxUint} /\ down \in Nat
  BY ReadersAssumption DEF BufferOK
<1>2. /\ power' = CASE Grows(n)   -> Uint(power + 1)
                    [] Shrinks(n) -> Uint(power - 1)
                    [] OTHER      -> power
      /\ down' = CASE Grows(n)   -> down
                   [] Shrinks(n) -> 0
                   [] OTHER      -> down + 1
  BY DEF ReadStep
<1>3. down' \in Nat BY <1>1, <1>2
<1>g. ~(Grows(n) /\ Shrinks(n)) BY DEF Shrinks
<1>4. CASE power = MaxUint
  <2>1. power > MaxPower BY <1>1, <1>4
  <2>2. Buffer = 0 BY <2>1 DEF Buffer
  <2>3. n = 0 /\ Grows(n)
    <3>1. n = 0 BY <2>2 DEF ReadStep
    <3>2. power # MaxPower BY <1>1, <1>4
    <3> QED BY <3>1, <3>2, <2>2 DEF Grows
  <2>4. power' = (MaxUint + 1) % (MaxUint + 1)
    BY <2>3, <1>2, <1>4, <1>g DEF Uint
  <2>5. \A m \in Nat : (m + 1) % (m + 1) = 0 OBVIOUS
  <2>6. power' = 0 BY <2>4, <2>5, <1>1
  <2> QED BY <2>6, <1>1, <1>3 DEF BufferOK
<1>5. CASE power \in 0..MaxPower
  <2>1. ~(power > MaxPower) BY <1>1, <1>5
  <2>2. ASSUME NEW x \in Nat, x <= MaxUint PROVE Uint(x) = x
    BY <2>2, <1>1 DEF Uint
  <2>3. CASE Grows(n)
    <3>1. power + 1 \in 0..MaxPower BY <2>3, <1>1, <1>5 DEF Grows
    <3>2. power' = Uint(power + 1) BY <2>3, <1>2, <1>g
    <3>3. power' = power + 1 BY <3>1, <3>2, <2>2, <1>1
    <3> QED BY <3>1, <3>3, <2>1, <1>3 DEF BufferOK
  <2>4. CASE Shrinks(n)
    <3>1. ~Grows(n) BY <2>4 DEF Shrinks
    <3>2. power' = Uint(power - 1) BY <3>1, <2>4, <1>2
    <3>3. CASE power = 0
      <4>1. \A m \in Nat : (0 - 1) % (m + 1) = m OBVIOUS
      <4>2. power' = MaxUint BY <3>2, <3>3, <4>1, <1>1 DEF Uint
      <4> QED BY <4>2, <2>1, <1>3 DEF BufferOK
    <3>4. CASE power # 0
      <4>1. power - 1 \in 0..MaxPower /\ power - 1 \in Nat
            /\ power - 1 <= MaxUint
        BY <3>4, <1>1, <1>5
      <4>2. power' = power - 1 BY <4>1, <3>2, <2>2
      <4> QED BY <4>1, <4>2, <2>1, <1>3 DEF BufferOK
    <3> QED BY <3>3, <3>4
  <2>5. CASE ~Grows(n) /\ ~Shrinks(n)
    <3>1. power' = power BY <2>5, <1>2
    <3> QED BY <3>1, <2>1, <1>3, <1>5 DEF BufferOK
  <2> QED BY <2>3, <2>4, <2>5
<1> QED BY <1>1, <1>4, <1>5

LEMMA SizedBySteps ==
  ASSUME BufferOK, Next \/ UNCHANGED vars
  PROVE  /\ BufferOK'
         /\ UNCHANGED sized \/ (power > MaxPower => power' <= MaxPower)
<1>1. ASSUME NEW n \in 0..Limit, ReadStep(n)
      PROVE  BufferOK' /\ (power > MaxPower => power' <= MaxPower)
  <2>1. n \in Nat BY ReadersAssumption
  <2> QED BY <1>1, <2>1, Sizing
<1>2. ASSUME ~\E n \in 0..Limit : ReadStep(n) PROVE UNCHANGED sized
  BY <1>2 DEF Next, Feed, HexDecode, ReadMessage, Receive, ReadLine,
              ReadStepLast, Ends, ReadFull, AtEof, ReadStepEof, vars
<1>3. UNCHANGED sized => BufferOK' BY DEF sized, BufferOK
<1> QED BY <1>1, <1>2, <1>3

LEMMA AlwaysSized == Spec => []BufferOK
<1>1. Init => BufferOK
  BY ReadersAssumption DEF Init, BufferOK
<1>2. BufferOK /\ [Next \/ Returned]_vars => BufferOK'
  BY SizedBySteps DEF Returned
<1> QED BY <1>1, <1>2, PTL DEF Spec

(* The invariant holds for every stream, whatever payloads it comes in     *)
(* (byte.go:65-150, hex.go:95-160, reader.go:30-100, 142-186).             *)
THEOREM InvariantHolds ==
  ASSUME InPairs
  PROVE  Spec => []IInv
<1>1. Flow /\ BufferOK => IInv BY DEF Flow, IInv, TypeOK
<1> QED BY <1>1, AlwaysFlow, AlwaysSized, PTL

(* The buffer's power may wrap below zero, for any width of a uint, but    *)
(* the very next read brings it back (reader.go:55-70).                    *)
THEOREM ComesBack == Spec => StraysOnce
<1>1. BufferOK /\ [Next \/ Returned]_vars =>
        [power > MaxPower => power' <= MaxPower]_sized
  BY SizedBySteps DEF Returned
<1> QED BY <1>1, AlwaysSized, PTL DEF Spec, StraysOnce

(* What is sent on has no gap: no byte between the first and the last that *)
(* was sent is lost, sent twice or out of place (hex.go:120-124,           *)
(* reader.go:142-186).                                                     *)
THEOREM NoGap ==
  ASSUME InPairs
  PROVE  Spec => []Contiguous
<1>1. Flow => Contiguous
  <2> SUFFICES ASSUME Flow, NEW i \in 1..(Len(passed) - 1)
               PROVE  passed[i + 1] = passed[i] + 1
    BY DEF Contiguous
  <2>1. /\ Len(passed) \in Nat /\ Len(crumb) \in Nat /\ fed \in Nat
        /\ InPlace(passed, Before - Len(passed)) /\ Before \in Int
    BY ReadersAssumption DEF Flow, StreamOK, Aligned, InPairs, Before
  <2>2. i \in 1..Len(passed) /\ i + 1 \in 1..Len(passed) BY <2>1
  <2>3. /\ passed[i] = (Before - Len(passed)) + i
        /\ passed[i + 1] = (Before - Len(passed)) + (i + 1)
    BY <2>1, <2>2 DEF InPlace
  <2> QED BY <2>1, <2>2, <2>3
<1> QED BY <1>1, AlwaysFlow, PTL

(* The cuts depend on the bytes alone: --message-size cuts at its          *)
(* multiples, behind what is skipped, and the decoder gets whole pairs     *)
(* from the first on (byte.go:241, hex.go:120-124).                        *)
THEOREM CutAsAsked ==
  ASSUME InPairs
  PROVE  Spec => []Framed
<1>1. Flow => Framed
  <2> SUFFICES ASSUME Flow PROVE Framed
    OBVIOUS
  <2>1. /\ Len(passed) \in Nat /\ Len(crumb) \in Nat /\ fed \in Nat
        /\ passed \in Seq(Byte)
        /\ InPlace(passed, Before - Len(passed)) /\ Before \in Int
        /\ skip \in Nat /\ skipped \in 0..skip /\ Size \in Nat
    BY ReadersAssumption DEF Flow, StreamOK, Aligned, InPairs, Before
  <2>2. ASSUME passed # <<>>
        PROVE  /\ passed[1] = (Before - Len(passed)) + 1
               /\ skipped = skip
    <3>1. 1 \in 1..Len(passed) BY <2>1, <2>2, EmptySeq
    <3>2. ~Skipping BY <2>2 DEF Flow, Aligned, InPairs, StreamOK
    <3>3. skipped = skip BY <3>2, <2>1 DEF Skipping
    <3> QED BY <3>1, <3>3, <2>1 DEF InPlace
  <2>3. ASSUME kind = "full"
        PROVE  /\ \A i \in 1..Len(cuts) : cuts[i] = Size
               /\ passed # <<>> => passed[1] = skip * Size + 1
    <3>1. Before = skipped * Size + Len(passed) BY <2>3 DEF Flow, Accounted
    <3>2. skipped * Size \in Nat BY <2>1
    <3>3. passed # <<>> => passed[1] = skip * Size + 1
      BY <3>1, <3>2, <2>1, <2>2
    <3> QED BY <3>3, <2>3 DEF Flow, Divided, Cut
  <2>4. ASSUME kind = "hex"
        PROVE  /\ \A i \in 1..Len(cuts) : cuts[i] % 2 = 0
               /\ passed # <<>> => passed[1] = 1
    <3>1. Before = Len(passed) BY <2>4 DEF Flow, Accounted
    <3>2. \A i \in 1..Len(cuts) : cuts[i] \in Nat /\ ~Odd(cuts[i])
      BY <2>4, ReadersAssumption DEF Flow, StreamOK, Divided, Cut
    <3>3. \A x \in Nat : ~Odd(x) => x % 2 = 0 BY DEF Odd
    <3> QED BY <3>1, <3>2, <3>3, <2>1, <2>2
  <2> QED BY <2>3, <2>4 DEF Framed
<1> QED BY <1>1, AlwaysFlow, PTL

(* --max-messages is never exceeded, also with messages skipped and empty  *)
(* ones in between (byte.go:100-125, 244).                                 *)
THEOREM NeverMore ==
  ASSUME InPairs
  PROVE  Spec => []AtMost
<1>1. Flow => AtMost BY DEF Flow, Ahead, AtMost
<1> QED BY <1>1, AlwaysFlow, PTL

LEMMA Divides ==
  ASSUME NEW a \in Nat, NEW b \in Nat, NEW s \in Nat \ {0},
         NEW r \in Nat, r < s
  PROVE  (a * s + b * s + r) \div s = a + b
<1>1. \A c \in Nat : \A e \in 0..(s - 1) : (c * s + e) \div s = c OBVIOUS
<1>2. r \in 0..(s - 1) BY SMT
<1>3. a * s + b * s = (a + b) * s OBVIOUS
<1>4. a + b \in Nat OBVIOUS
<1> QED BY <1>1, <1>2, <1>3, <1>4

(* When the reader returns at the end of the stream, all that was to be    *)
(* sent on has been (byte.go:109-119, hex.go:95-160).                      *)
THEOREM NothingMissing ==
  ASSUME InPairs
  PROVE  Spec => []Complete
<1>1. Flow => Complete
  <2> SUFFICES ASSUME Flow, stopped, max = 0
               PROVE  CASE kind = "full" ->
                             LET n == fed \div Size
                             IN Len(cuts) = IF n > skip THEN n - skip ELSE 0
                        [] kind = "hex"  -> Len(passed) = fed - (fed % 2)
                        [] kind = "step" -> Len(passed) = fed
                        [] OTHER         -> skip = 0 /\ newlines = {} =>
                                              Len(passed) = fed - Len(crumb)
    BY DEF Complete
  <2>1. /\ Len(passed) \in Nat /\ Len(crumb) \in Nat /\ Len(cuts) \in Nat
        /\ fed \in Nat /\ skip \in Nat /\ skipped \in 0..skip
        /\ Size \in Nat \ {0} /\ Before = fed - Len(crumb)
        /\ kind \in {"hex", "full", "message", "step"}
    BY ReadersAssumption DEF Flow, StreamOK, Before, InPairs
  <2>2. CASE kind = "full"
    <3>1. /\ Before = skipped * Size + Len(passed)
          /\ Len(passed) = Len(cuts) * Size
          /\ Len(crumb) < Size
      BY <2>1, <2>2 DEF Flow, Accounted, Ended, HasFull
    <3>2. skipped * Size \in Nat /\ Len(cuts) * Size \in Nat BY <2>1
    <3>3. fed = skipped * Size + Len(cuts) * Size + Len(crumb)
      BY <3>1, <3>2, <2>1
    <3>4. fed \div Size = skipped + Len(cuts) BY <3>1, <3>3, <2>1, Divides
    <3>5. skipped < skip => Len(cuts) = 0
      <4>1. skipped < skip => Len(passed) = 0
        BY <2>1, <2>2 DEF Flow, Aligned, Skipping
      <4>2. \A c \in Nat : c * Size = 0 => c = 0 BY <2>1
      <4> QED BY <4>1, <4>2, <3>1, <2>1
    <3>6. Len(cuts) = IF fed \div Size > skip THEN fed \div Size - skip ELSE 0
      BY <3>4, <3>5, <2>1
    <3> QED BY <3>6, <2>2
  <2>3. CASE kind = "hex"
    <3>1. Before = Len(passed) /\ Len(crumb) <= 1 /\ ~Odd(Len(passed))
      BY <2>3 DEF Flow, Accounted
    <3>2. Len(crumb) = 0 \/ Len(crumb) = 1 BY <3>1, <2>1, UpToOne
    <3>3. fed = Len(passed) + Len(crumb) BY <3>1, <2>1
    <3>4. \A x \in Nat : ~Odd(x) => x % 2 = 0 /\ (x + 1) % 2 = 1 BY DEF Odd
    <3>5. Len(passed) = fed - (fed % 2) BY <3>1, <3>2, <3>3, <3>4, <2>1
    <3> QED BY <3>5, <2>3
  <2>4. CASE kind = "step"
    <3>1. Before = Len(passed) /\ crumb = <<>>
      BY <2>4 DEF Flow, Accounted, Aligned
    <3>2. Len(passed) = fed BY <3>1, <2>1
    <3> QED BY <3>2, <2>4
  <2>5. CASE kind = "message"
    <3>1. skip = 0 => Before = Len(passed) BY <2>5 DEF Flow, Accounted
    <3> QED BY <3>1, <2>1, <2>5
  <2> QED BY <2>1, <2>2, <2>3, <2>4, <2>5
<1> QED BY <1>1, AlwaysFlow, PTL
=============================================================================
