----------------------------- MODULE AesStream ------------------------------
(***************************************************************************)
(* aesGCM.go: one stream that aes-gcm --encrypt writes and another         *)
(* aes-gcm --decrypt reads.  The stream is a salt, a nonce prefix, then    *)
(* frames (length, payload, tag); the counter behind the prefix is not     *)
(* sent, both sides count.  When it wraps the encryptor draws and sends a  *)
(* new prefix and the decryptor reads one.  What carries the stream may    *)
(* end it early or damage a part of it; the cipher notices.                *)
(*                                                                         *)
(* Prefixes are numbered in the order they are drawn: the model takes      *)
(* 8 random bytes never to repeat, nor damaged ones to hit the right ones. *)
(***************************************************************************)
EXTENDS Integers, Sequences

CONSTANTS
  MaxCounter,  \* the last value of the counter; 2^32 - 1 in the code
  Payloads     \* bound: payloads the encryptor reads that are not empty

ASSUME AesStreamAssumption == MaxCounter \in Nat /\ Payloads \in Nat

Parts == [type : {"salt", "prefix", "frame"},
          prefix : Nat,   \* the prefix sent, or the one the frame is sealed with
          counter : Nat,  \* the counter the frame is sealed with
          no : Nat]       \* payloads sealed up to here
Salt            == [type |-> "salt", prefix |-> 0, counter |-> 0, no |-> 0]
Prefix(p, n)    == [type |-> "prefix", prefix |-> p, counter |-> 0, no |-> n]
Frame(p, c, n)  == [type |-> "frame", prefix |-> p, counter |-> c, no |-> n]

VARIABLES
  stream,    \* the parts sent on `outc' so far
  epc,       \* where startAesGCMEncrypt stands
  eprefix,   \* its AESNonce
  ecounter,
  sealed,    \* payloads it sealed
  pos,       \* parts startAesGCMDecrypt has read
  dpc,       \* where it stands
  key,       \* it derived the encryptor's key
  dprefix,   \* its AESNonce
  dcounter,
  opened,    \* the payloads it decrypted
  cut,       \* the stream ends after this part, if the carrier loses the rest
  damaged,   \* the parts the carrier damaged
  fault      \* something failed that is not the encryptor or the decryptor

encVars == <<stream, epc, eprefix, ecounter, sealed>>
decVars == <<pos, dpc, key, dprefix, dcounter, opened>>
carrier == <<cut, damaged, fault>>
vars    == <<encVars, decVars, carrier>>

NoCut   == -1
Garbage == -1

TypeOK ==
  /\ stream \in Seq(Parts)
  /\ epc \in {"salt", "prefix", "seal", "increment", "rotate", "end"}
  /\ eprefix \in Nat
  /\ ecounter \in 0..MaxCounter
  /\ sealed \in Nat
  /\ pos \in 0..Len(stream)
  /\ dpc \in {"salt", "prefix", "open", "increment", "end"}
  /\ key \in BOOLEAN
  /\ dprefix \in Nat \cup {Garbage}
  /\ dcounter \in 0..MaxCounter
  /\ opened \in Seq(Nat)
  /\ cut \in Nat \cup {NoCut}
  /\ damaged \subseteq Nat
  /\ fault \in BOOLEAN

Init ==
  /\ stream = <<>> /\ epc = "salt" /\ eprefix = 0 /\ ecounter = 0 /\ sealed = 0
  /\ pos = 0 /\ dpc = "salt" /\ key = FALSE /\ dprefix = 0 /\ dcounter = 0
  /\ opened = <<>>
  /\ cut = NoCut /\ damaged = {} /\ fault = FALSE

-----------------------------------------------------------------------------
(* startAesGCMEncrypt *)

Write(part) == stream' = Append(stream, part)

SendSalt ==
  /\ epc = "salt"
  /\ Write(Salt)
  /\ epc' = "prefix"
  /\ UNCHANGED <<eprefix, ecounter, sealed, decVars, carrier>>

SendPrefix ==
  /\ epc = "prefix"
  /\ Write(Prefix(eprefix, sealed))
  /\ epc' = "seal"
  /\ UNCHANGED <<eprefix, ecounter, sealed, decVars, carrier>>

(* An empty payload is skipped: nothing changes. *)
Seal ==
  /\ epc = "seal"
  /\ sealed < Payloads
  /\ sealed' = sealed + 1
  /\ Write(Frame(eprefix, ecounter, sealed + 1))
  /\ epc' = "increment"
  /\ UNCHANGED <<eprefix, ecounter, decVars, carrier>>

(* Faulty variants: the counter starts again one message later, and the    *)
(* prefix stays.                                                           *)
WrapsLate(c)  == IF c > MaxCounter THEN 0 ELSE c + 1
KeepPrefix(p) == p

(* n.counter++ wraps; io.ReadFull(n.reader, n.nonce[:l]) *)
Wraps(c)     == IF c = MaxCounter THEN 0 ELSE c + 1
NewPrefix(p) == p + 1

(* nonce.Increment() *)
Increment ==
  /\ epc = "increment"
  /\ IF ecounter = MaxCounter
       THEN eprefix' = NewPrefix(eprefix) /\ epc' = "rotate"
       ELSE epc' = "seal" /\ UNCHANGED eprefix
  /\ ecounter' = Wraps(ecounter)
  /\ UNCHANGED <<stream, sealed, decVars, carrier>>

(* if rotate { outc <- nonce.Nonce()[:nonceLength] } *)
SendRotated ==
  /\ epc = "rotate"
  /\ Write(Prefix(eprefix, sealed))
  /\ epc' = "seal"
  /\ UNCHANGED <<eprefix, ecounter, sealed, decVars, carrier>>

(* The input ends, or no salt, key, cipher or nonce could be had. *)
EncryptEnds ==
  /\ epc \in {"salt", "prefix", "seal"} \/ (epc = "increment" /\ ecounter = MaxCounter)
  /\ epc' = "end"
  /\ UNCHANGED <<stream, eprefix, ecounter, sealed, decVars, carrier>>

Encrypt == SendSalt \/ SendPrefix \/ Seal \/ Increment \/ SendRotated \/ EncryptEnds

-----------------------------------------------------------------------------
(* startAesGCMDecrypt: io.ReadFull waits for a whole part. *)

Available == pos < Len(stream) /\ (cut = NoCut \/ pos < cut)
Part      == stream[pos + 1]
Whole     == pos + 1 \notin damaged
Read(type) == Available /\ Part.type = type /\ pos' = pos + 1

ReadSalt ==
  /\ dpc = "salt"
  /\ Read("salt")
  /\ key' = Whole
  /\ dpc' = "prefix"
  /\ UNCHANGED <<encVars, dprefix, dcounter, opened, carrier>>

PrefixRead == IF Whole THEN Part.prefix ELSE Garbage

ReadPrefix ==
  /\ dpc = "prefix"
  /\ Read("prefix")
  /\ dprefix' = PrefixRead
  /\ dpc' = "open"
  /\ UNCHANGED <<encVars, key, dcounter, opened, carrier>>

(* aead.Open: what was read as a frame is one, whole, and sealed with this *)
(* key and nonce.                                                          *)
Authentic == /\ key /\ Whole
             /\ Part = Frame(dprefix, dcounter, Part.no)

(* Faulty variant: the tag is not looked at. *)
OpenUnchecked ==
  /\ dpc = "open"
  /\ Read("frame")
  /\ opened' = Append(opened, IF Whole THEN Part.no ELSE 0)
  /\ dpc' = "increment"
  /\ UNCHANGED <<encVars, key, dprefix, dcounter, carrier>>

Open ==
  /\ dpc = "open"
  /\ Available /\ pos' = pos + 1
  /\ IF Authentic THEN opened' = Append(opened, Part.no) /\ dpc' = "increment"
                  ELSE dpc' = "end" /\ UNCHANGED opened
  /\ UNCHANGED <<encVars, key, dprefix, dcounter, carrier>>

(* Faulty variant: the decryptor does not wait for the new prefix. *)
DecIncrementAlone ==
  /\ dpc = "increment"
  /\ dcounter' = Wraps(dcounter)
  /\ dpc' = "open"
  /\ UNCHANGED <<encVars, pos, key, dprefix, opened, carrier>>

(* nonce.Increment(), with the stream as its reader *)
DecIncrement ==
  /\ dpc = "increment"
  /\ IF dcounter = MaxCounter
       THEN Read("prefix") /\ dprefix' = PrefixRead
       ELSE UNCHANGED <<pos, dprefix>>
  /\ dcounter' = Wraps(dcounter)
  /\ dpc' = "open"
  /\ UNCHANGED <<encVars, key, opened, carrier>>

(* Faulty variant: the end of the encryptor's output goes unnoticed. *)
NoEof == ~Available /\ cut # NoCut

(* io.EOF, in the middle of a part or before it *)
AtEof == ~Available /\ (epc = "end" \/ cut # NoCut)

DecryptEnds ==
  /\ dpc \in {"salt", "prefix", "open"} \/ (dpc = "increment" /\ dcounter = MaxCounter)
  /\ AtEof
  /\ dpc' = "end"
  /\ UNCHANGED <<encVars, pos, key, dprefix, dcounter, opened, carrier>>

Decrypt == ReadSalt \/ ReadPrefix \/ Open \/ DecIncrement \/ DecryptEnds

-----------------------------------------------------------------------------
(* What carries the stream loses its end, or damages a part on the way. *)
Cut ==
  /\ cut = NoCut
  /\ cut' \in pos..Len(stream)
  /\ fault' = TRUE
  /\ UNCHANGED <<encVars, decVars, damaged>>

Damage ==
  /\ \E i \in (pos + 1)..Len(stream) : damaged' = damaged \cup {i}
  /\ fault' = TRUE
  /\ UNCHANGED <<encVars, decVars, cut>>

Next == Encrypt \/ Decrypt \/ Cut \/ Damage

Ended == epc = "end" /\ dpc = "end" /\ UNCHANGED vars

(* Both handlers run, and the input of the first ends at last. *)
Fairness == WF_vars(Encrypt) /\ WF_vars(EncryptEnds) /\ WF_vars(Decrypt)

Spec == Init /\ [][Next \/ Ended]_vars /\ Fairness

-----------------------------------------------------------------------------
(* Properties *)

(* No two frames of a stream are sealed with the same nonce, also when the *)
(* counter wraps (aesGCM.go:363-380).                                      *)
NonceUsedOnce ==
  \A i, j \in 1..Len(stream) :
    /\ stream[i].type = "frame" /\ stream[j].type = "frame"
    /\ stream[i].prefix = stream[j].prefix
    /\ stream[i].counter = stream[j].counter
    => i = j

(* What comes out is what went in, from the first payload on and in order, *)
(* whatever the carrier damages or loses (aesGCM.go:205-237).              *)
InOrder == \A i \in 1..Len(opened) : opened[i] = i /\ i <= sealed

(* Both sides agree on the nonce of every frame: as long as the carrier    *)
(* does its part the decryptor stops only at the end of the stream, with   *)
(* every payload decrypted (aesGCM.go:231-236, 289-305).                   *)
Lossless ==
  dpc = "end" /\ ~fault => epc = "end" /\ Len(opened) = sealed

(* The decryptor ends, whatever happens to the stream. *)
Ends == <>(dpc = "end")

-----------------------------------------------------------------------------
(* Inductive invariant: the stream is a chain of parts, each determined by *)
(* the one before it; the encryptor stands behind the last part, and the   *)
(* decryptor behind the last one it read, unless it read a damaged one.    *)
After(part) ==
  CASE part.type = "salt"   -> Prefix(0, 0)
    [] part.type = "prefix" -> Frame(part.prefix, 0, part.no + 1)
    [] part.type = "frame"  ->
         IF part.counter = MaxCounter
           THEN Prefix(part.prefix + 1, part.no)
           ELSE Frame(part.prefix, part.counter + 1, part.no + 1)

Chain ==
  /\ stream # <<>> => stream[1] = Salt
  /\ \A i \in 1..(Len(stream) - 1) : stream[i + 1] = After(stream[i])
  /\ \A i \in 1..Len(stream) : stream[i].counter <= MaxCounter

(* What a nonce is when the next part is a frame, and when it was one. *)
NextFrame(i, p, c) ==
  /\ i \in 1..Len(stream)
  /\ stream[i].type # "salt"
  /\ After(stream[i]) = Frame(p, c, stream[i].no + 1)
LastFrame(i, p, c) ==
  /\ i \in 1..Len(stream)
  /\ stream[i] = Frame(p, c, stream[i].no)

EncryptorBehind ==
  LET last == Len(stream) IN
  /\ epc = "salt" => last = 0
  /\ epc = "prefix" => last = 1
  /\ epc \in {"salt", "prefix"} => eprefix = 0 /\ ecounter = 0
  /\ epc = "seal" => NextFrame(last, eprefix, ecounter)
  /\ epc = "increment" => LastFrame(last, eprefix, ecounter)
  /\ epc = "rotate" => /\ ecounter = 0 /\ eprefix > 0
                       /\ LastFrame(last, eprefix - 1, MaxCounter)
  /\ sealed = IF last = 0 THEN 0 ELSE stream[last].no
  /\ \A i \in 1..last : stream[i].no <= sealed

(* The nonce in hand is later than every one that was used. *)
Fresh ==
  \A i \in 1..Len(stream) :
    stream[i].type = "frame" =>
      \/ stream[i].prefix < eprefix
      \/ stream[i].prefix = eprefix /\ stream[i].counter < ecounter
      \/ /\ stream[i].prefix = eprefix /\ stream[i].counter = ecounter
         /\ epc = "increment"
      \/ epc = "end"

Trusted == key /\ dprefix # Garbage
DecryptorBehind ==
  /\ dpc = "salt" => pos = 0
  /\ dpc = "prefix" => pos = 1
  /\ dpc \in {"salt", "prefix"} => dcounter = 0 /\ dprefix = 0
  /\ dpc = "open" /\ Trusted => NextFrame(pos, dprefix, dcounter)
  /\ dpc = "increment" => Trusted /\ LastFrame(pos, dprefix, dcounter)
  /\ ~fault => pos = 0 \/ Trusted
  /\ dpc = "open" => pos > 1
  /\ dpc = "end" /\ ~fault => epc = "end" /\ pos = Len(stream)
  /\ ~fault => cut = NoCut /\ damaged = {}
  /\ ~fault => Len(opened) = IF pos = 0 THEN 0 ELSE stream[pos].no

(* What was opened is what the stream holds up to there. *)
Opened ==
  /\ \A i \in 1..Len(opened) : opened[i] = i
  /\ Len(opened) <= IF pos = 0 THEN 0 ELSE stream[pos].no
  /\ dpc \in {"open", "increment"} /\ Trusted => Len(opened) = stream[pos].no

IInv == /\ TypeOK /\ Chain /\ EncryptorBehind /\ DecryptorBehind /\ Opened
        /\ Fresh /\ NonceUsedOnce
=============================================================================
