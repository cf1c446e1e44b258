----------------------------- MODULE AesProofs ------------------------------
(***************************************************************************)
(* Theorems about AesStream for every width of the counter and every       *)
(* number of payloads, whatever the carrier cuts off or damages.           *)
(***************************************************************************)
EXTENDS AesStream, TLAPS

USE AesStreamAssumption

LEMMA PartsType ==
  /\ Salt \in Parts
  /\ \A p, n \in Nat : Prefix(p, n) \in Parts
  /\ \A p, c, n \in Nat : Frame(p, c, n) \in Parts
BY DEF Parts, Salt, Prefix, Frame

(* What is sent stays where it is. *)
LEMMA WriteKeeps ==
  ASSUME TypeOK, NEW part \in Parts, Write(part)
  PROVE  /\ stream' \in Seq(Parts)
         /\ Len(stream') = Len(stream) + 1
         /\ \A i \in 1..Len(stream) : stream'[i] = stream[i]
         /\ stream'[Len(stream) + 1] = part
BY DEF TypeOK, Write

LEMMA StreamType ==
  ASSUME TypeOK
  PROVE  /\ Len(stream) \in Nat
         /\ \A i \in 1..Len(stream) : /\ stream[i] \in Parts
                                      /\ stream[i].type \in {"salt", "prefix", "frame"}
                                      /\ stream[i].prefix \in Nat
                                      /\ stream[i].counter \in Nat
                                      /\ stream[i].no \in Nat
<1>1. stream \in Seq(Parts) BY DEF TypeOK
<1>2. \A part \in Parts : /\ part.type \in {"salt", "prefix", "frame"}
                          /\ part.prefix \in Nat
                          /\ part.counter \in Nat
                          /\ part.no \in Nat
  BY DEF Parts
<1>3. Len(stream) \in Nat /\ \A i \in 1..Len(stream) : stream[i] \in Parts
  BY <1>1
<1> QED BY <1>2, <1>3

LEMMA InitHolds == ASSUME Init PROVE IInv
<1>1. Len(stream) = 0 /\ Len(opened) = 0 BY DEF Init
<1>2. TypeOK
  <2>1. <<>> \in Seq(Parts) /\ <<>> \in Seq(Nat) /\ Len(<<>>) = 0 OBVIOUS
  <2>2. stream \in Seq(Parts) /\ opened \in Seq(Nat) /\ pos \in 0..Len(stream)
    BY <2>1 DEF Init
  <2>3. cut \in Nat \cup {NoCut} /\ damaged \subseteq Nat BY DEF Init
  <2>4. 0 \in 0..MaxCounter BY AesStreamAssumption
  <2>5. stream \in Seq(Parts) /\ opened \in Seq(Nat) /\ pos \in 0..Len(stream) BY <2>2
  <2> QED BY <2>3, <2>4, <2>5 DEF Init, TypeOK
<1>3. Chain /\ Fresh /\ NonceUsedOnce
  BY <1>1 DEF Init, Chain, Fresh, NonceUsedOnce
<1>4. EncryptorBehind BY <1>1 DEF Init, EncryptorBehind
<1>5. DecryptorBehind BY <1>1 DEF Init, DecryptorBehind
<1>6. Opened BY <1>1 DEF Init, Opened
<1> QED BY <1>2, <1>3, <1>4, <1>5, <1>6 DEF IInv

(* A part sent behind the last one continues the chain; whoever stands     *)
(* behind an earlier part still does.                                      *)
LEMMA WriteChain ==
  ASSUME TypeOK, Chain, NEW part \in Parts, Write(part),
         part.counter <= MaxCounter,
         IF stream = <<>> THEN part = Salt ELSE part = After(stream[Len(stream)])
  PROVE  Chain'
<1> DEFINE n == Len(stream)
<1>1. /\ n \in Nat /\ Len(stream') = n + 1
      /\ \A i \in 1..n : stream'[i] = stream[i]
      /\ stream'[n + 1] = part
  BY WriteKeeps, StreamType
<1>2. stream' # <<>> => stream'[1] = Salt
  <2>1. CASE stream = <<>> BY <2>1, <1>1
  <2>2. CASE stream # <<>>
    <3>1. 1 \in 1..n BY <2>2, <1>1 DEF TypeOK
    <3> QED BY <3>1, <2>2, <1>1 DEF Chain
  <2> QED BY <2>1, <2>2
<1>3. \A i \in 1..(Len(stream') - 1) : stream'[i + 1] = After(stream'[i])
  <2> SUFFICES ASSUME NEW i \in 1..n PROVE stream'[i + 1] = After(stream'[i])
    BY <1>1
  <2>1. After(stream'[i]) = After(stream[i]) BY <1>1 DEF After
  <2>2. CASE i = n
    <3>1. stream # <<>> BY <2>2, <1>1
    <3> QED BY <3>1, <2>1, <2>2, <1>1
  <2>3. CASE i # n
    <3>1. i \in 1..(n - 1) /\ i + 1 \in 1..n BY <2>3, <1>1
    <3> QED BY <3>1, <2>1, <1>1 DEF Chain
  <2> QED BY <2>2, <2>3
<1>4. \A i \in 1..Len(stream') : stream'[i].counter <= MaxCounter
  <2> SUFFICES ASSUME NEW i \in 1..(n + 1) PROVE stream'[i].counter <= MaxCounter
    BY <1>1
  <2>1. CASE i = n + 1 BY <2>1, <1>1
  <2>2. CASE i # n + 1
    <3>1. i \in 1..n BY <2>2, <1>1
    <3> QED BY <3>1, <1>1 DEF Chain
  <2> QED BY <2>1, <2>2
<1> QED BY <1>2, <1>3, <1>4 DEF Chain

(* The decryptor does not see what the encryptor does, but for its end. *)
LEMMA DecryptorKept ==
  ASSUME TypeOK, DecryptorBehind, Opened, UNCHANGED <<decVars, carrier>>,
         \/ UNCHANGED stream
         \/ \E part \in Parts : Write(part),
         epc # "end", epc' # "end" \/ UNCHANGED stream
  PROVE  DecryptorBehind' /\ Opened'
<1>1. /\ \A i \in 1..Len(stream) : stream'[i] = stream[i]
      /\ Len(stream') >= Len(stream)
  BY WriteKeeps, StreamType
<1>2. pos \in 0..Len(stream) BY DEF TypeOK
<1>3. /\ pos # 0 => stream'[pos] = stream[pos] /\ pos \in 1..Len(stream)
      /\ pos # 0 => pos \in 1..Len(stream')
      /\ UNCHANGED <<pos, dpc, key, dprefix, dcounter, opened, cut, damaged, fault>>
  <2>1. UNCHANGED <<pos, dpc, key, dprefix, dcounter, opened, cut, damaged, fault>>
    BY DEF decVars, carrier
  <2> QED BY <2>1, <1>1, <1>2, StreamType
<1>4. \A p, c : NextFrame(pos, p, c) => NextFrame(pos, p, c)'
  BY <1>3, StreamType DEF NextFrame, After
<1>5. \A p, c : LastFrame(pos, p, c) => LastFrame(pos, p, c)'
  BY <1>3, StreamType DEF LastFrame
<1>6. DecryptorBehind' BY <1>3, <1>4, <1>5 DEF DecryptorBehind, Trusted
<1>7. Opened'
  <2>1. \A i \in 1..Len(opened) : opened[i] = i BY DEF Opened
  <2>2. Len(opened) <= IF pos = 0 THEN 0 ELSE stream[pos].no BY DEF Opened
  <2>3. dpc \in {"open", "increment"} /\ Trusted => Len(opened) = stream[pos].no
    BY DEF Opened
  <2>4. dpc \in {"open", "increment"} /\ Trusted => pos # 0
    BY DEF DecryptorBehind, NextFrame, LastFrame
  <2> QED BY <1>3, <2>1, <2>2, <2>3, <2>4 DEF Opened, Trusted
<1> QED BY <1>6, <1>7

(* Each step of the encryptor. *)
LEMMA EncryptKeeps ==
  ASSUME IInv, Encrypt
  PROVE  IInv'
<1> USE DEF IInv
<1> DEFINE n == Len(stream)
<1>0. /\ UNCHANGED <<decVars, carrier>> /\ epc # "end" /\ n \in Nat
      /\ \A i \in 1..n : /\ stream[i] \in Parts /\ stream[i].prefix \in Nat
                         /\ stream[i].counter \in Nat /\ stream[i].no \in Nat
  BY StreamType DEF Encrypt, SendSalt, SendPrefix, Seal, Increment, SendRotated,
                    EncryptEnds
<1>1. CASE SendSalt
  <2>1. Write(Salt) /\ Salt \in Parts /\ epc' = "prefix" /\ stream = <<>> /\ n = 0
    <3>1. n = 0 BY <1>1 DEF SendSalt, EncryptorBehind
    <3> QED BY <1>1, <3>1, PartsType DEF SendSalt, TypeOK
  <2>2. Len(stream') = 1 /\ stream'[1] = Salt /\ stream' \in Seq(Parts)
    BY <2>1, WriteKeeps
  <2>3. TypeOK' BY <1>0, <1>1, <2>1, <2>2 DEF SendSalt, TypeOK, decVars, carrier
  <2>4. Chain' BY <2>1, WriteChain DEF Salt
  <2>5. EncryptorBehind'
    <3>1. sealed = 0 /\ eprefix = 0 /\ ecounter = 0
      BY <1>1, <2>1 DEF SendSalt, EncryptorBehind
    <3>2. Salt.no = 0 BY DEF Salt
    <3>3. \A i \in 1..Len(stream') : stream'[i].no <= sealed'
      BY <1>1, <2>2, <3>1, <3>2 DEF SendSalt
    <3> QED BY <1>1, <2>1, <2>2, <3>1, <3>2, <3>3 DEF SendSalt, EncryptorBehind
  <2>6. DecryptorBehind' /\ Opened' BY <1>0, <2>1, DecryptorKept
  <2>7. Fresh' /\ NonceUsedOnce' BY <2>2 DEF Fresh, NonceUsedOnce, Salt
  <2> QED BY <2>3, <2>4, <2>5, <2>6, <2>7
<1>2. CASE SendPrefix
  <2> DEFINE part == Prefix(eprefix, sealed)
  <2>1. /\ n = 1 /\ eprefix = 0 /\ ecounter = 0 /\ stream # <<>>
        /\ stream[1] = Salt /\ sealed = 0
    <3>1. n = 1 /\ eprefix = 0 /\ ecounter = 0 /\ sealed = stream[n].no
      BY <1>2 DEF SendPrefix, EncryptorBehind
    <3>2. Len(<<>>) = 0 OBVIOUS
    <3>3. stream[1] = Salt BY <3>1, <3>2 DEF Chain
    <3> QED BY <3>1, <3>2, <3>3 DEF Salt
  <2>2. /\ part \in Parts /\ Write(part) /\ part = Prefix(0, 0)
        /\ part = After(stream[n])
    <3>1. After(stream[n]) = Prefix(0, 0) BY <2>1 DEF After, Salt
    <3> QED BY <1>2, <2>1, <3>1, PartsType DEF SendPrefix
  <2>3. /\ Len(stream') = 2 /\ stream'[1] = Salt /\ stream'[2] = Prefix(0, 0)
        /\ stream' \in Seq(Parts)
    BY <2>1, <2>2, WriteKeeps
  <2>4. TypeOK' BY <1>0, <1>2, <2>1, <2>3 DEF SendPrefix, TypeOK, decVars, carrier
  <2>5. Chain' BY <2>1, <2>2, WriteChain DEF Prefix
  <2>6. EncryptorBehind'
    BY <1>2, <2>1, <2>3
    DEF SendPrefix, EncryptorBehind, NextFrame, After, Prefix, Frame, Salt
  <2>7. DecryptorBehind' /\ Opened' BY <1>0, <1>2, <2>2, DecryptorKept DEF SendPrefix
  <2>8. Fresh' /\ NonceUsedOnce'
    BY <2>3 DEF Fresh, NonceUsedOnce, Salt, Prefix
  <2> QED BY <2>4, <2>5, <2>6, <2>7, <2>8
<1>3. CASE Seal
  <2> DEFINE part == Frame(eprefix, ecounter, sealed + 1)
  <2>1. /\ n > 0 /\ stream # <<>> /\ sealed = stream[n].no
        /\ After(stream[n]) = part
        /\ eprefix \in Nat /\ ecounter \in 0..MaxCounter /\ sealed \in Nat
    BY <1>0, <1>3 DEF Seal, EncryptorBehind, NextFrame, TypeOK
  <2>2. part \in Parts /\ Write(part) BY <1>3, <2>1, PartsType DEF Seal
  <2>3. /\ stream' \in Seq(Parts) /\ Len(stream') = n + 1
        /\ \A i \in 1..n : stream'[i] = stream[i]
        /\ stream'[n + 1] = part
    BY <2>2, WriteKeeps
  <2>4. /\ sealed' = sealed + 1 /\ epc = "seal" /\ epc' = "increment"
        /\ UNCHANGED <<eprefix, ecounter>>
    BY <1>3 DEF Seal
  <2>5. TypeOK' BY <1>0, <2>1, <2>3, <2>4 DEF TypeOK, decVars, carrier
  <2>6. Chain' BY <2>1, <2>2, WriteChain DEF Frame
  <2>7. EncryptorBehind'
    <3>1. \A i \in 1..n : stream[i].no <= sealed BY DEF EncryptorBehind
    <3>2. \A i \in 1..(n + 1) : stream'[i].no <= sealed + 1
      <4> SUFFICES ASSUME NEW i \in 1..(n + 1) PROVE stream'[i].no <= sealed + 1
        OBVIOUS
      <4>1. CASE i = n + 1 BY <4>1, <2>1, <2>3 DEF Frame
      <4>2. CASE i # n + 1
        <5>1. i \in 1..n BY <4>2, <1>0
        <5> QED BY <5>1, <3>1, <2>1, <2>3, <1>0
      <4> QED BY <4>1, <4>2
    <3> QED BY <1>0, <2>1, <2>3, <2>4, <3>2 DEF EncryptorBehind, LastFrame, Frame
  <2>8. DecryptorBehind' /\ Opened' BY <1>0, <2>2, <2>4, DecryptorKept
  <2>9. Fresh'
    <3> SUFFICES ASSUME NEW i \in 1..(n + 1), stream'[i].type = "frame"
                 PROVE  \/ stream'[i].prefix < eprefix
                        \/ stream'[i].prefix = eprefix /\ stream'[i].counter < ecounter
                        \/ stream'[i].prefix = eprefix /\ stream'[i].counter = ecounter
      BY <2>3, <2>4 DEF Fresh
    <3>1. CASE i = n + 1 BY <3>1, <2>3 DEF Frame
    <3>2. CASE i # n + 1
      <4>1. i \in 1..n BY <3>2, <1>0
      <4> QED BY <4>1, <2>3, <2>4 DEF Fresh
    <3> QED BY <3>1, <3>2
  <2>10. NonceUsedOnce'
    <3> SUFFICES ASSUME NEW i \in 1..(n + 1), NEW j \in 1..(n + 1),
                        stream'[i].type = "frame", stream'[j].type = "frame",
                        stream'[i].prefix = stream'[j].prefix,
                        stream'[i].counter = stream'[j].counter
                 PROVE  i = j
      BY <2>3 DEF NonceUsedOnce
    <3>1. \A k \in 1..n : stream[k].type = "frame" =>
            stream[k].prefix # eprefix \/ stream[k].counter # ecounter
      BY <1>0, <2>1, <2>4 DEF Fresh, TypeOK
    <3>2. part.prefix = eprefix /\ part.counter = ecounter BY DEF Frame
    <3>3. CASE i \in 1..n /\ j \in 1..n BY <3>3, <2>3 DEF NonceUsedOnce
    <3>4. CASE i = n + 1 /\ j \in 1..n BY <3>1, <3>2, <3>4, <2>3
    <3>5. CASE j = n + 1 /\ i \in 1..n BY <3>1, <3>2, <3>5, <2>3
    <3>6. CASE i = n + 1 /\ j = n + 1 BY <3>6
    <3> QED BY <3>3, <3>4, <3>5, <3>6, <1>0
  <2> QED BY <2>5, <2>6, <2>7, <2>8, <2>9, <2>10
<1>4. CASE Increment
  <2>1. /\ UNCHANGED <<stream, sealed>> /\ epc = "increment" /\ epc' \in {"rotate", "seal"}
        /\ n > 0 /\ stream[n] = Frame(eprefix, ecounter, stream[n].no)
        /\ eprefix \in Nat /\ ecounter \in 0..MaxCounter
        /\ sealed = stream[n].no
        /\ \A i \in 1..n : stream[i].no <= sealed
    BY <1>0, <1>4 DEF Increment, EncryptorBehind, LastFrame, TypeOK
  <2>2. CASE ecounter = MaxCounter
    <3>1. eprefix' = eprefix + 1 /\ ecounter' = 0 /\ epc' = "rotate"
      BY <1>4, <2>2 DEF Increment, NewPrefix, Wraps
    <3>2. TypeOK' BY <1>0, <2>1, <3>1 DEF TypeOK, decVars, carrier
    <3>3. EncryptorBehind'
      BY <1>0, <2>1, <2>2, <3>1 DEF EncryptorBehind, LastFrame
    <3>4. Fresh' BY <1>0, <2>1, <3>1 DEF Fresh
    <3> QED BY <1>0, <2>1, <3>2, <3>3, <3>4, DecryptorKept DEF Chain, NonceUsedOnce
  <2>3. CASE ecounter # MaxCounter
    <3>1. eprefix' = eprefix /\ ecounter' = ecounter + 1 /\ epc' = "seal"
      BY <1>4, <2>3 DEF Increment, Wraps
    <3>2. TypeOK' BY <1>0, <2>1, <2>3, <3>1 DEF TypeOK, decVars, carrier
    <3>3. EncryptorBehind'
      BY <1>0, <2>1, <2>3, <3>1 DEF EncryptorBehind, NextFrame, After, Frame
    <3>4. Fresh' BY <1>0, <2>1, <3>1 DEF Fresh
    <3> QED BY <1>0, <2>1, <3>2, <3>3, <3>4, DecryptorKept DEF Chain, NonceUsedOnce
  <2> QED BY <2>2, <2>3
<1>5. CASE SendRotated
  <2> DEFINE part == Prefix(eprefix, sealed)
  <2>1. /\ n > 0 /\ stream # <<>> /\ sealed = stream[n].no
        /\ ecounter = 0 /\ eprefix \in Nat /\ sealed \in Nat
        /\ stream[n] = Frame(eprefix - 1, MaxCounter, stream[n].no)
    BY <1>0, <1>5 DEF SendRotated, EncryptorBehind, LastFrame, TypeOK
  <2>2. /\ part \in Parts /\ Write(part) /\ part.counter = 0 /\ part.no = sealed
        /\ part.type = "prefix" /\ part.prefix = eprefix
    BY <1>5, <2>1, PartsType DEF SendRotated, Prefix
  <2>3. After(stream[n]) = part BY <2>1 DEF After, Frame
  <2>4. /\ stream' \in Seq(Parts) /\ Len(stream') = n + 1
        /\ \A i \in 1..n : stream'[i] = stream[i]
        /\ stream'[n + 1] = part
    BY <2>2, WriteKeeps
  <2>5. /\ epc = "rotate" /\ epc' = "seal" /\ UNCHANGED <<eprefix, ecounter, sealed>>
    BY <1>5 DEF SendRotated
  <2>6. TypeOK' BY <1>0, <2>1, <2>4, <2>5 DEF TypeOK, decVars, carrier
  <2>7. Chain' BY <2>1, <2>2, <2>3, WriteChain
  <2>8. EncryptorBehind'
    <3>1. \A i \in 1..(n + 1) : stream'[i].no <= sealed
      <4> SUFFICES ASSUME NEW i \in 1..(n + 1) PROVE stream'[i].no <= sealed
        OBVIOUS
      <4>1. CASE i = n + 1 BY <4>1, <2>1, <2>2, <2>4
      <4>2. CASE i # n + 1
        <5>1. i \in 1..n BY <4>2, <1>0
        <5> QED BY <5>1, <2>4 DEF EncryptorBehind
      <4> QED BY <4>1, <4>2
    <3>2. After(part) = Frame(eprefix, 0, part.no + 1) BY <2>2 DEF After
    <3>3. /\ n + 1 \in 1..Len(stream') /\ stream'[n + 1].type # "salt"
          /\ After(stream'[n + 1]) = Frame(eprefix', ecounter', stream'[n + 1].no + 1)
      BY <1>0, <2>1, <2>2, <2>4, <2>5, <3>2
    <3>4. sealed' = stream'[n + 1].no BY <2>2, <2>4, <2>5
    <3> QED BY <1>0, <2>4, <2>5, <3>1, <3>3, <3>4 DEF EncryptorBehind, NextFrame
  <2>9. DecryptorBehind' /\ Opened' BY <1>0, <2>2, <2>5, DecryptorKept
  <2>10. \A i \in 1..(n + 1) : stream'[i].type = "frame" =>
           i \in 1..n /\ stream'[i] = stream[i]
    BY <1>0, <2>2, <2>4
  <2>11. Fresh' BY <2>4, <2>5, <2>10 DEF Fresh
  <2>12. NonceUsedOnce' BY <2>4, <2>10 DEF NonceUsedOnce
  <2> QED BY <2>6, <2>7, <2>8, <2>9, <2>11, <2>12
<1>6. CASE EncryptEnds
  <2>1. UNCHANGED <<stream, eprefix, ecounter, sealed>> /\ epc' = "end"
    BY <1>6 DEF EncryptEnds
  <2>2. TypeOK' BY <1>0, <2>1 DEF TypeOK, decVars, carrier
  <2>3. EncryptorBehind' BY <2>1 DEF EncryptorBehind
  <2>4. Chain' /\ Fresh' /\ NonceUsedOnce' BY <2>1 DEF Chain, Fresh, NonceUsedOnce
  <2>5. DecryptorBehind' /\ Opened' BY <1>0, <2>1, DecryptorKept
  <2> QED BY <2>2, <2>3, <2>4, <2>5
<1> QED BY <1>1, <1>2, <1>3, <1>4, <1>5, <1>6 DEF Encrypt

(* Each step of the decryptor. *)
LEMMA DecryptKeeps ==
  ASSUME IInv, Decrypt
  PROVE  IInv'
<1> USE DEF IInv
<1> DEFINE n == Len(stream)
<1>0. /\ UNCHANGED <<encVars, carrier>> /\ dpc # "end" /\ n \in Nat
      /\ \A i \in 1..n : /\ stream[i] \in Parts /\ stream[i].prefix \in Nat
                         /\ stream[i].counter \in Nat /\ stream[i].no \in Nat
  BY StreamType DEF Decrypt, ReadSalt, ReadPrefix, Open, DecIncrement, DecryptEnds
<1>1. UNCHANGED <<stream, epc, eprefix, ecounter, sealed, cut, damaged, fault>>
  BY <1>0 DEF encVars, carrier
<1>2. Chain' /\ EncryptorBehind' /\ Fresh' /\ NonceUsedOnce'
  BY <1>1 DEF Chain, EncryptorBehind, NextFrame, LastFrame, Fresh, NonceUsedOnce
<1>3. /\ pos \in 0..n /\ dcounter \in 0..MaxCounter /\ Len(opened) \in Nat
      /\ \A i \in 1..Len(opened) : opened[i] = i
  BY DEF TypeOK, Opened
<1>4. Available => pos + 1 \in 1..n BY <1>0, <1>3 DEF Available
<1>5. Available /\ pos # 0 => Part = After(stream[pos])
  BY <1>0, <1>3, <1>4 DEF Available, Chain, Part
<1>6. ~fault => Whole BY <1>0, <1>3 DEF DecryptorBehind, Whole
<1>7. n # 0 => stream[1] = Salt
  <2>1. Len(<<>>) = 0 OBVIOUS
  <2> QED BY <2>1 DEF Chain
<1>8. Available /\ pos # 0 => Part.no >= stream[pos].no
  <2> SUFFICES ASSUME Available, pos # 0 PROVE Part.no >= stream[pos].no
    OBVIOUS
  <2>1. pos \in 1..n /\ pos + 1 \in 1..n /\ stream[pos + 1].no \in Nat
    BY <1>0, <1>3, <1>4
  <2>2. stream[pos].type \in {"salt", "prefix", "frame"} /\ stream[pos].no \in Nat
    BY <2>1, StreamType
  <2>3. CASE stream[pos].type = "salt"
    <3>1. pos = 1
      <4>1. stream[pos].type = "salt" /\ pos # 1 => FALSE
        <5> SUFFICES ASSUME pos # 1 PROVE FALSE BY <2>3
        <5>1. pos - 1 \in 1..(n - 1) /\ stream[(pos - 1) + 1] = After(stream[pos - 1])
          BY <2>1, <1>0 DEF Chain
        <5>2. stream[pos] = After(stream[pos - 1])
          BY <5>1, <2>1
        <5>3. stream[pos - 1].type \in {"salt", "prefix", "frame"}
          BY <5>1, <1>0, StreamType
        <5> QED BY <2>3, <5>2, <5>3 DEF After, Prefix, Frame
      <4> QED BY <4>1, <2>3
    <3>2. stream[pos].no = 0 BY <3>1, <1>7, <2>1 DEF Salt
    <3> QED BY <3>2, <2>1 DEF Part
  <2>4. CASE stream[pos].type = "prefix"
    <3>1. Part.no = stream[pos].no + 1 BY <2>4, <1>5 DEF After, Frame
    <3> QED BY <3>1, <2>2
  <2>5. CASE stream[pos].type = "frame"
    <3>1. Part.no \in {stream[pos].no, stream[pos].no + 1}
      BY <2>5, <1>5 DEF After, Frame, Prefix
    <3> QED BY <3>1, <2>2
  <2> QED BY <2>2, <2>3, <2>4, <2>5
<1>9. -1 \notin Nat OBVIOUS
<1>10. CASE ReadSalt
  <2>1. /\ pos = 0 /\ pos' = 1 /\ 1 \in 1..n /\ dpc = "salt" /\ dpc' = "prefix"
        /\ key' = Whole /\ UNCHANGED <<dprefix, dcounter, opened>>
        /\ dcounter = 0 /\ dprefix = 0
    BY <1>4, <1>10 DEF ReadSalt, Read, DecryptorBehind
  <2>2. stream[1].no = 0 BY <1>7, <2>1 DEF Salt
  <2>3. TypeOK' BY <1>0, <1>1, <2>1 DEF TypeOK, Whole
  <2>4. Len(opened) = 0 BY <1>3, <2>1 DEF Opened
  <2>5. ~fault => Trusted' BY <1>6, <2>1 DEF Trusted, Garbage
  <2>6. DecryptorBehind'
    BY <1>1, <2>1, <2>2, <2>4, <2>5 DEF DecryptorBehind
  <2>7. Opened' BY <1>1, <1>3, <2>1, <2>2, <2>4 DEF Opened
  <2> QED BY <1>2, <2>3, <2>6, <2>7
<1>11. CASE ReadPrefix
  <2>1. /\ pos = 1 /\ pos' = 2 /\ 2 \in 1..n /\ 1 \in 1..n
        /\ dpc = "prefix" /\ dpc' = "open"
        /\ dprefix' = PrefixRead /\ UNCHANGED <<key, dcounter, opened>>
        /\ dcounter = 0
    BY <1>0, <1>4, <1>11 DEF ReadPrefix, Read, DecryptorBehind
  <2>2. Part = Prefix(0, 0) /\ Part = stream[2]
    <3>1. After(Salt) = Prefix(0, 0) BY DEF After, Salt
    <3> QED BY <1>5, <1>7, <1>11, <2>1, <3>1 DEF ReadPrefix, Read, Part
  <2>3. /\ stream[2].no = 0 /\ stream[2].type = "prefix" /\ stream[2].prefix = 0
        /\ stream[1].no = 0
    BY <1>7, <2>1, <2>2 DEF Prefix, Salt
  <2>4. dprefix' = IF Whole THEN 0 ELSE Garbage BY <2>1, <2>2, <2>3 DEF PrefixRead
  <2>5. TypeOK' BY <1>0, <1>1, <2>1, <2>4 DEF TypeOK
  <2>6. Len(opened) = 0 BY <1>3, <2>1, <2>3 DEF Opened
  <2>7. After(stream[2]) = Frame(0, 0, stream[2].no + 1) BY <2>3 DEF After
  <2>8. Trusted' => dprefix' = 0 /\ key BY <2>1, <2>4 DEF Trusted
  <2>9. ~fault => Trusted'
    BY <1>6, <1>9, <2>1, <2>4 DEF DecryptorBehind, Trusted, Garbage
  <2>10. Trusted' => NextFrame(pos, dprefix, dcounter)'
    BY <1>1, <2>1, <2>3, <2>7, <2>8 DEF NextFrame
  <2>11. DecryptorBehind'
    BY <1>1, <2>1, <2>3, <2>6, <2>9, <2>10 DEF DecryptorBehind
  <2>12. Opened' BY <1>1, <1>3, <2>1, <2>3, <2>6 DEF Opened
  <2> QED BY <1>2, <2>5, <2>11, <2>12
<1>12. CASE Open
  <2>1. /\ pos > 1 /\ pos' = pos + 1 /\ pos + 1 \in 1..n /\ pos \in 1..n
        /\ dpc = "open" /\ Available
        /\ UNCHANGED <<key, dprefix, dcounter>>
    BY <1>0, <1>3, <1>4, <1>12 DEF Open, Read, DecryptorBehind
  <2>2. Trusted => Part = Frame(dprefix, dcounter, stream[pos].no + 1)
    BY <1>5, <2>1 DEF DecryptorBehind, NextFrame
  <2>3. CASE Authentic
    <3>1. Trusted
      <4>1. Part.prefix \in Nat BY <1>0, <2>1 DEF Part
      <4>2. Part.prefix = dprefix /\ key BY <2>3 DEF Authentic, Frame
      <4> QED BY <1>9, <4>1, <4>2 DEF Trusted, Garbage
    <3>2. /\ Part = Frame(dprefix, dcounter, Part.no) /\ Part.no = stream[pos].no + 1
          /\ Part = stream[pos + 1] /\ Part.no \in Nat
      BY <1>0, <2>1, <2>2, <3>1 DEF Frame, Part
    <3>3. opened' = Append(opened, Part.no) /\ dpc' = "increment"
      BY <1>12, <2>3 DEF Open
    <3>4. Len(opened) = stream[pos].no BY <2>1, <3>1 DEF Opened
    <3>5. /\ opened' \in Seq(Nat) /\ Len(opened') = Len(opened) + 1
          /\ \A i \in 1..Len(opened) : opened'[i] = opened[i]
          /\ opened'[Len(opened) + 1] = Part.no
      BY <3>2, <3>3 DEF TypeOK
    <3>6. TypeOK' BY <1>0, <1>1, <2>1, <3>3, <3>5 DEF TypeOK
    <3>7. Trusted' /\ LastFrame(pos, dprefix, dcounter)'
      BY <1>1, <2>1, <3>1, <3>2 DEF Trusted, LastFrame
    <3>8. Len(opened') = Part.no BY <3>2, <3>4, <3>5
    <3>9. DecryptorBehind'
      BY <1>1, <2>1, <3>2, <3>3, <3>7, <3>8 DEF DecryptorBehind
    <3>10. \A i \in 1..Len(opened') : opened'[i] = i
      <4> SUFFICES ASSUME NEW i \in 1..(Len(opened) + 1) PROVE opened'[i] = i
        BY <3>5
      <4>1. CASE i = Len(opened) + 1 BY <4>1, <3>2, <3>4, <3>5
      <4>2. CASE i # Len(opened) + 1
        <5>1. i \in 1..Len(opened) BY <4>2, <1>3
        <5> QED BY <5>1, <1>3, <3>5
      <4> QED BY <4>1, <4>2
    <3>11. Opened' BY <1>0, <1>1, <2>1, <3>2, <3>8, <3>10 DEF Opened
    <3> QED BY <1>2, <3>6, <3>9, <3>11
  <2>4. CASE ~Authentic
    <3>1. dpc' = "end" /\ opened' = opened BY <1>12, <2>4 DEF Open
    <3>2. fault
      <4> SUFFICES ASSUME ~fault PROVE FALSE OBVIOUS
      <4>1. Trusted /\ Whole BY <1>6, <2>1 DEF DecryptorBehind
      <4> QED BY <4>1, <2>2, <2>4 DEF Authentic, Trusted, Frame
    <3>3. TypeOK' BY <1>0, <1>1, <2>1, <3>1 DEF TypeOK
    <3>4. DecryptorBehind' BY <1>1, <3>1, <3>2 DEF DecryptorBehind
    <3>5. Len(opened) <= stream[pos + 1].no
      BY <1>0, <1>3, <1>8, <2>1 DEF Opened, Part
    <3>6. Opened' BY <1>1, <1>3, <2>1, <3>1, <3>5 DEF Opened
    <3> QED BY <1>2, <3>3, <3>4, <3>6
  <2> QED BY <2>3, <2>4
<1>13. CASE DecIncrement
  <2>1. /\ dpc = "increment" /\ dpc' = "open" /\ Trusted /\ pos \in 1..n
        /\ stream[pos] = Frame(dprefix, dcounter, stream[pos].no)
        /\ Len(opened) = stream[pos].no
        /\ UNCHANGED <<key, opened>>
        /\ dcounter' = Wraps(dcounter)
    BY <1>13 DEF DecIncrement, DecryptorBehind, LastFrame, Opened
  <2>2. dprefix \in Nat BY <2>1 DEF Trusted, TypeOK
  <2>3. pos > 1
    <3> SUFFICES ASSUME pos = 1 PROVE FALSE BY <2>1, <1>3
    <3> QED BY <2>1, <1>7, <1>0 DEF Salt, Frame
  <2>4. CASE dcounter = MaxCounter
    <3>1. /\ Available /\ pos' = pos + 1 /\ dprefix' = PrefixRead /\ dcounter' = 0
          /\ pos + 1 \in 1..n
      BY <1>4, <1>13, <2>1, <2>4 DEF DecIncrement, Read, Wraps
    <3>2. Part = Prefix(dprefix + 1, stream[pos].no) /\ Part = stream[pos + 1]
      <4>1. After(stream[pos]) = Prefix(dprefix + 1, stream[pos].no)
        BY <2>1, <2>4 DEF After, Frame
      <4> QED BY <1>5, <2>1, <2>3, <3>1, <4>1 DEF Part
    <3>3. /\ stream[pos + 1].type = "prefix" /\ stream[pos + 1].no = stream[pos].no
          /\ stream[pos + 1].prefix = dprefix + 1
      BY <3>2 DEF Prefix
    <3>4. dprefix' = IF Whole THEN dprefix + 1 ELSE Garbage
      BY <3>1, <3>2, <3>3 DEF PrefixRead
    <3>5. TypeOK' BY <1>0, <1>1, <2>1, <2>2, <3>1, <3>4 DEF TypeOK
    <3>6. Trusted' => dprefix' = dprefix + 1 BY <3>4 DEF Trusted
    <3>7. ~fault => Trusted' BY <1>6, <2>1, <2>2, <3>4 DEF Trusted, Garbage
    <3>8. After(stream[pos + 1]) = Frame(dprefix + 1, 0, stream[pos + 1].no + 1)
      BY <3>3 DEF After
    <3>9. Trusted' => NextFrame(pos, dprefix, dcounter)'
      BY <1>1, <3>1, <3>3, <3>6, <3>8 DEF NextFrame
    <3>10. DecryptorBehind'
      BY <1>1, <2>1, <2>3, <3>1, <3>3, <3>7, <3>9 DEF DecryptorBehind
    <3>11. Opened' BY <1>0, <1>1, <1>3, <2>1, <3>1, <3>3 DEF Opened
    <3> QED BY <1>2, <3>5, <3>10, <3>11
  <2>5. CASE dcounter # MaxCounter
    <3>1. UNCHANGED <<pos, dprefix>> /\ dcounter' = dcounter + 1
      BY <1>13, <2>1, <2>5 DEF DecIncrement, Wraps
    <3>2. TypeOK' BY <1>0, <1>1, <1>3, <2>1, <2>5, <3>1 DEF TypeOK
    <3>3. Trusted' BY <2>1, <3>1 DEF Trusted
    <3>4. After(stream[pos]) = Frame(dprefix, dcounter + 1, stream[pos].no + 1)
      BY <2>1, <2>5 DEF After, Frame
    <3>5. stream[pos].type # "salt" BY <2>1 DEF Frame
    <3>6. NextFrame(pos, dprefix, dcounter)'
      BY <1>1, <2>1, <3>1, <3>4, <3>5 DEF NextFrame
    <3>7. DecryptorBehind'
      BY <1>1, <2>1, <2>3, <3>1, <3>3, <3>6 DEF DecryptorBehind
    <3>8. Opened' BY <1>0, <1>1, <1>3, <2>1, <3>1 DEF Opened
    <3> QED BY <1>2, <3>2, <3>7, <3>8
  <2> QED BY <2>4, <2>5
<1>14. CASE DecryptEnds
  <2>1. dpc' = "end" /\ UNCHANGED <<pos, key, dprefix, dcounter, opened>>
    BY <1>14 DEF DecryptEnds
  <2>2. TypeOK' BY <1>0, <1>1, <2>1 DEF TypeOK
  <2>3. ~fault => epc = "end" /\ pos = n
    BY <1>0, <1>3, <1>14 DEF DecryptEnds, AtEof, Available, DecryptorBehind
  <2>4. ~fault => cut = NoCut /\ damaged = {} BY DEF DecryptorBehind
  <2>5. DecryptorBehind' BY <1>1, <2>1, <2>3, <2>4 DEF DecryptorBehind, Trusted
  <2>6. Opened' BY <1>1, <1>3, <2>1 DEF Opened
  <2> QED BY <1>2, <2>2, <2>5, <2>6
<1> QED BY <1>10, <1>11, <1>12, <1>13, <1>14 DEF Decrypt

LEMMA CarrierKeeps ==
  ASSUME IInv, Cut \/ Damage
  PROVE  IInv'
<1> USE DEF IInv
<1>1. /\ UNCHANGED <<stream, epc, eprefix, ecounter, sealed, pos, dpc, key,
                     dprefix, dcounter, opened>>
      /\ fault' = TRUE
  BY DEF Cut, Damage, encVars, decVars
<1>2. cut' \in Nat \cup {NoCut} /\ damaged' \subseteq Nat
  <2>1. Len(stream) \in Nat /\ pos \in 0..Len(stream) BY StreamType DEF TypeOK
  <2>2. cut \in Nat \cup {NoCut} /\ damaged \subseteq Nat BY DEF TypeOK
  <2>3. CASE Cut
    <3>1. cut' \in pos..Len(stream) /\ UNCHANGED damaged BY <2>3 DEF Cut
    <3> QED BY <2>1, <2>2, <3>1
  <2>4. CASE Damage
    <3>1. PICK i \in (pos + 1)..Len(stream) : damaged' = damaged \cup {i}
      BY <2>4 DEF Damage
    <3>2. i \in Nat /\ UNCHANGED cut BY <2>1, <2>4, <3>1 DEF Damage
    <3> QED BY <2>2, <3>1, <3>2
  <2> QED BY <2>3, <2>4
<1>3. TypeOK' BY <1>1, <1>2 DEF TypeOK
<1>4. /\ Chain' /\ EncryptorBehind' /\ Fresh' /\ NonceUsedOnce' /\ Opened'
  BY <1>1 DEF Chain, EncryptorBehind, NextFrame, LastFrame, Fresh, NonceUsedOnce,
              Opened, Trusted
<1>5. DecryptorBehind'
  BY <1>1 DEF DecryptorBehind, NextFrame, LastFrame, Trusted
<1> QED BY <1>3, <1>4, <1>5

(* The invariant holds: the stream is a chain of parts and both sides      *)
(* stand at their place in it (aesGCM.go:160-307, 363-380).                *)
THEOREM InvariantHolds == Spec => []IInv
<1>1. Init => IInv BY InitHolds
<1>2. IInv /\ [Next \/ Ended]_vars => IInv'
  <2> SUFFICES ASSUME IInv, [Next \/ Ended]_vars PROVE IInv' OBVIOUS
  <2>1. CASE UNCHANGED vars
    BY <2>1 DEF IInv, TypeOK, Chain, EncryptorBehind, DecryptorBehind, Opened, Fresh,
                NonceUsedOnce, NextFrame, LastFrame, Trusted, vars, encVars,
                decVars, carrier
  <2> QED BY <2>1, EncryptKeeps, DecryptKeeps, CarrierKeeps DEF Next, Ended
<1> QED BY <1>1, <1>2, PTL DEF Spec

(* No nonce is used for two frames, however wide the counter and however   *)
(* often it wraps (aesGCM.go:363-380).                                     *)
THEOREM NoncesUsedOnce == Spec => []NonceUsedOnce
<1>1. IInv => NonceUsedOnce BY DEF IInv
<1> QED BY <1>1, InvariantHolds, PTL

(* What the decryptor hands on is the beginning of what was encrypted,     *)
(* whatever the carrier damages or loses (aesGCM.go:205-237).              *)
THEOREM OpenedInOrder == Spec => []InOrder
<1>1. IInv => InOrder
  <2> SUFFICES ASSUME IInv, NEW i \in 1..Len(opened)
               PROVE  opened[i] = i /\ i <= sealed
    BY DEF InOrder
  <2>1. opened[i] = i BY DEF IInv, Opened
  <2>2. Len(opened) \in Nat /\ pos \in 0..Len(stream) /\ sealed \in Nat
    BY DEF IInv, TypeOK
  <2>3. pos \in 1..Len(stream)
    BY <2>2 DEF IInv, Opened
  <2>4. Len(opened) <= stream[pos].no /\ stream[pos].no <= sealed
    BY <2>3 DEF IInv, Opened, EncryptorBehind
  <2>5. stream[pos].no \in Nat BY <2>3, StreamType DEF IInv
  <2> QED BY <2>1, <2>2, <2>4, <2>5
<1> QED BY <1>1, InvariantHolds, PTL

(* Encryptor and decryptor never disagree on a nonce: a stream that is     *)
(* carried as it was sent is decrypted to its end.                         *)
THEOREM NothingLost == Spec => []Lossless
<1>1. IInv => Lossless
  <2>1. ASSUME IInv, dpc = "end", ~fault PROVE epc = "end" /\ Len(opened) = sealed
    <3>1. epc = "end" /\ pos = Len(stream) BY <2>1 DEF IInv, DecryptorBehind
    <3>2. Len(opened) = IF pos = 0 THEN 0 ELSE stream[pos].no
      BY <2>1 DEF IInv, DecryptorBehind
    <3>3. sealed = IF Len(stream) = 0 THEN 0 ELSE stream[Len(stream)].no
      BY <2>1 DEF IInv, EncryptorBehind
    <3> QED BY <3>1, <3>2, <3>3
  <2> QED BY <2>1 DEF Lossless
<1> QED BY <1>1, InvariantHolds, PTL
=============================================================================
