------------------------------ MODULE Readers -------------------------------
(***************************************************************************)
(* reader.go, byte.go and the decoder of hex.go: what cuts a stream of     *)
(* bytes into messages.  The stream comes in payloads of any length; what  *)
(* goes on must be the stream, cut as asked for and not as it came.        *)
(*                                                                         *)
(*   hex      startHexDecode: pairs of digits                              *)
(*   full     byte --message-size: messages of Size bytes                  *)
(*   message  byte without a splitter: the payloads themselves             *)
(*   line     pwn's readline: ChannelReader.ReadLine                       *)
(*   step     ReadBytesStep: as much as a buffer that grows and shrinks    *)
(*            holds                                                        *)
(*                                                                         *)
(* A byte is named by its place in the stream, 1, 2, 3 and so on.          *)
(***************************************************************************)
EXTENDS Integers, Sequences

CONSTANTS
  Kinds,       \* the readers a run looks at
  Newlines,    \* where '\n' may stand in the lines that come
  Lengths,     \* lengths of payloads that come
  HexLengths,  \* the same for the hex decoder: one of these sets
  Limit,       \* bound: bytes that come
  Size,        \* --message-size
  Skips,       \* values of --skip-messages
  Maxima,      \* values of --max-messages; 0 is no maximum
  MinPower,    \* ReaderMinPowerSize
  MaxPower,    \* ReaderMaxPowerSize
  MaxUint      \* the last value of a uint; 2^64 - 1 in the code

ASSUME ReadersAssumption ==
  /\ Kinds \subseteq {"hex", "full", "message", "line", "step"}
  /\ Newlines \subseteq SUBSET Nat
  /\ Lengths \subseteq Nat /\ HexLengths \subseteq SUBSET Nat
  /\ Limit \in Nat /\ Size \in Nat \ {0}
  /\ Skips \subseteq Nat /\ Maxima \subseteq Nat
  /\ MinPower \in Nat /\ MaxPower \in Nat /\ MinPower < MaxPower
  /\ MaxUint \in Nat /\ MaxPower < MaxUint

VARIABLES
  kind,     \* the reader looked at
  newlines, \* the bytes that are '\n'
  lengths,  \* the lengths of payloads that come
  skip,     \* --skip-messages
  max,      \* --max-messages
  fed,      \* bytes that came
  over,     \* the channel was closed, or the file ended
  crumb,    \* bytes kept for the next message
  skipped,  \* startByteHandler's counters
  count,
  power,    \* ReadBytesStep's power and down
  down,
  passed,   \* the bytes sent on, in order
  cuts,     \* the lengths of the messages sent on
  stopped   \* the reader has returned

asked   == <<kind, newlines, lengths, skip, max>>
input   == <<fed, over>>
counted == <<skipped, count>>
sized   == <<power, down>>
output  == <<passed, cuts>>
vars    == <<asked, input, crumb, counted, sized, output, stopped>>

Byte == 1..Limit

StreamOK ==
  /\ kind \in Kinds
  /\ newlines \subseteq Nat
  /\ lengths \in IF kind = "hex" THEN HexLengths ELSE {Lengths}
  /\ skip \in Skips \cup {0} /\ max \in Maxima \cup {0}
  /\ fed \in 0..Limit
  /\ over \in BOOLEAN
  /\ crumb \in Seq(Byte)
  /\ skipped \in 0..skip
  /\ count \in Nat \ {0}
  /\ passed \in Seq(Byte)
  /\ cuts \in Seq(0..Limit)
  /\ stopped \in BOOLEAN

(* The power is one the buffer may have, or the wrapped -1. *)
BufferOK == power \in (0..MaxPower) \cup {MaxUint} /\ down \in Nat

TypeOK == StreamOK /\ BufferOK

(* byte has nothing to do when all it may stream is skipped. *)
Nothing == max - skip <= 0 /\ skip > 0 /\ max > 0

Init ==
  /\ kind \in Kinds
  /\ newlines \in IF kind = "line" THEN Newlines ELSE {{}}
  /\ lengths \in IF kind = "hex" THEN HexLengths ELSE {Lengths}
  /\ skip \in IF kind \in {"full", "message"} THEN Skips ELSE {0}
  /\ max \in IF kind \in {"full", "message"} THEN Maxima ELSE {0}
  /\ fed = 0 /\ over = FALSE
  /\ crumb = <<>> /\ skipped = 0 /\ count = 1
  /\ power = MinPower /\ down = 0
  /\ passed = <<>> /\ cuts = <<>>
  /\ stopped = Nothing

-----------------------------------------------------------------------------
(* The next n bytes, taken from the channel or the file *)
Payload(n) == [i \in 1..n |-> fed + i]

Arrives(n) == ~over /\ ~stopped /\ fed + n <= Limit /\ fed' = fed + n
Comes(n)   == Arrives(n) /\ UNCHANGED over

First(q, n) == SubSeq(q, 1, n)
Rest(q, n)  == SubSeq(q, n + 1, Len(q))

Pass(message) == /\ passed' = passed \o message
                 /\ cuts' = Append(cuts, Len(message))

(* The sender closes its channel, or the file ends. *)
Ends == /\ ~over
        /\ over' = TRUE
        /\ UNCHANGED <<asked, fed, crumb, counted, sized, output, stopped>>

-----------------------------------------------------------------------------
(* hex.go: `set' says that crumb holds a digit. *)
EvenKept(p) == <<p[Len(p)]>>
Odd(n) == n % 2 = 1

HexMessage(p) ==
  CASE ~Odd(Len(p)) /\ crumb = <<>> -> p
    [] ~Odd(Len(p)) /\ crumb # <<>> -> crumb \o First(p, Len(p) - 1)
    [] Odd(Len(p)) /\ crumb # <<>>  -> crumb \o p
    [] Odd(Len(p)) /\ crumb = <<>>  -> First(p, Len(p) - 1)

(* Faulty variant: the digit stays after it was used. *)
CrumbKept(p) == IF Odd(Len(p)) /\ crumb = <<>> THEN EvenKept(p) ELSE crumb

(* hex.go:130 takes the digit from the payload it has just assembled. *)
HexCrumb(p) ==
  CASE ~Odd(Len(p)) /\ crumb = <<>> -> <<>>
    [] ~Odd(Len(p)) /\ crumb # <<>> -> EvenKept(HexMessage(p))
    [] Odd(Len(p)) /\ crumb # <<>>  -> <<>>
    [] Odd(Len(p)) /\ crumb = <<>>  -> EvenKept(p)

HexDecode(n) ==
  /\ kind = "hex"
  /\ n \in lengths
  /\ Comes(n)
  /\ IF n = 0
       THEN UNCHANGED <<crumb, output>>
       ELSE /\ Pass(HexMessage(Payload(n)))
            /\ crumb' = HexCrumb(Payload(n))
  /\ UNCHANGED <<asked, counted, sized, stopped>>

-----------------------------------------------------------------------------
(* byte.go: one message of startByteHandler's loop, and whether the loop   *)
(* goes on after it.                                                       *)
Skipping == skip > 0 /\ skipped < skip

Reached  == max > 0 /\ count >= max

Handle(message) ==
  \/ /\ Skipping
     /\ skipped' = skipped + 1
     /\ count' = count + 1
     /\ UNCHANGED <<output, stopped>>
  \/ /\ ~Skipping /\ message = <<>>
     /\ count' = count + 1
     /\ UNCHANGED <<skipped, output, stopped>>
  \/ /\ ~Skipping /\ message # <<>>
     /\ Pass(message)
     /\ stopped' = Reached
     /\ count' = IF Reached THEN count ELSE count + 1
     /\ UNCHANGED skipped

(* ByteReaderCallbackMessage: ReadMessage, with no crumb.  The bound on    *)
(* `count' is on the empty messages.                                       *)
ReadMessage(n) ==
  /\ kind = "message"
  /\ count <= Limit
  /\ n \in lengths
  /\ Comes(n)
  /\ Handle(Payload(n))
  /\ UNCHANGED <<asked, crumb, sized>>

(* ChannelReader.Read appends to its crumb until it has what was asked for. *)
(* The faulty variant waits for a byte more.                               *)
HasMore == Len(crumb) > Size
HasFull == Len(crumb) >= Size

Receive(n) ==
  /\ kind = "full"
  /\ n \in lengths
  /\ ~HasFull
  /\ Comes(n)
  /\ crumb' = crumb \o Payload(n)
  /\ UNCHANGED <<asked, counted, sized, output, stopped>>

(* ByteReaderCallbackFull *)
ReadFull ==
  /\ kind = "full" /\ ~stopped
  /\ HasFull
  /\ Handle(First(crumb, Size))
  /\ crumb' = Rest(crumb, Size)
  /\ UNCHANGED <<asked, input, sized>>

(* ChannelReader.ReadLine: the rest of the payload is looked for in the    *)
(* line that has just been assembled (reader.go:240-241).                  *)
LineEnds(p) == {i \in 1..Len(p) : p[i] \in newlines}
ReadLine(n) ==
  LET p == Payload(n)
      i == CHOOSE i \in LineEnds(p) : \A j \in LineEnds(p) : i <= j
  IN
  /\ kind = "line"
  /\ n \in lengths
  /\ Comes(n)
  /\ IF LineEnds(p) = {}
       THEN crumb' = crumb \o p /\ UNCHANGED output
       ELSE /\ Pass(crumb \o First(p, i - 1))
            /\ crumb' = Rest(crumb \o First(p, i - 1), i - 1)
  /\ UNCHANGED <<asked, counted, sized, stopped>>

(* The end of the channel: io.EOF, or io.ErrUnexpectedEOF with a part of a *)
(* message that goes no further.                                           *)
AtEof ==
  /\ kind # "step" /\ ~stopped
  /\ over
  /\ kind = "full" => ~HasFull
  /\ stopped' = TRUE
  /\ UNCHANGED <<asked, input, crumb, counted, sized, output>>

-----------------------------------------------------------------------------
(* ReadBytesStep.  `power' is a uint: it wraps, and a shift by such a      *)
(* number leaves nothing.  The faulty variant does not wrap.               *)
Unwrapped(n) == n
Uint(n)      == n % (MaxUint + 1)
Buffer       == IF power > MaxPower THEN 0 ELSE 2 * 2^power

(* i >= l && power != ReaderMaxPowerSize; the faulty variant takes an      *)
(* empty buffer for one that was not filled.                               *)
GrowsNonEmpty(i) == i >= Buffer /\ i > 0 /\ power # MaxPower
Grows(i)         == i >= Buffer /\ power # MaxPower
Shrinks(i)       == ~Grows(i) /\ down + 1 = 3 /\ power # MaxPower

(* Into an empty buffer nothing is read, and the end is not seen; what it  *)
(* hands to the callback is empty too, and left out.                       *)
ReadStep(i) ==
  /\ kind = "step"
  /\ IF Buffer = 0
       THEN i = 0 /\ ~stopped /\ UNCHANGED <<input, output>>
       ELSE i \in 1..Buffer /\ Comes(i) /\ Pass(Payload(i))
  /\ power' = CASE Grows(i)   -> Uint(power + 1)
                [] Shrinks(i) -> Uint(power - 1)
                [] OTHER      -> power
  /\ down' = CASE Grows(i)   -> down
               [] Shrinks(i) -> 0
               [] OTHER      -> down + 1
  /\ UNCHANGED <<asked, crumb, counted, stopped>>

(* The last bytes may come with the end, or with an error. *)
ReadStepLast(i) ==
  /\ kind = "step"
  /\ i \in 1..Buffer
  /\ Arrives(i) /\ over' = TRUE
  /\ Pass(Payload(i))
  /\ stopped' = TRUE
  /\ UNCHANGED <<asked, crumb, counted, sized>>

(* No caller's callback ever says to stop (stdin.go:147, tcp.go:199,       *)
(* tcpServer.go:62, tls.go:205), so that this return is left out.          *)
ReadStepEof ==
  /\ kind = "step" /\ ~stopped
  /\ over /\ Buffer # 0
  /\ stopped' = TRUE
  /\ UNCHANGED <<asked, input, crumb, counted, sized, output>>

-----------------------------------------------------------------------------
Feed ==
  \E n \in 0..Limit :
    \/ HexDecode(n) \/ ReadMessage(n) \/ Receive(n) \/ ReadLine(n)
    \/ ReadStep(n) \/ ReadStepLast(n)

Next == Feed \/ Ends \/ ReadFull \/ AtEof \/ ReadStepEof

Returned == stopped /\ UNCHANGED vars

Spec == Init /\ [][Next \/ Returned]_vars

-----------------------------------------------------------------------------
(* Properties *)

(* What is sent on is a part of the stream without a gap: between the      *)
(* first and the last byte sent none is lost, sent twice or out of place,  *)
(* though bytes are kept from one payload for the next (hex.go:120-124,    *)
(* reader.go:142-186).  A run says for which payloads: TLC refutes it for  *)
(* hex digits that come in odd and even numbers (hex.go:130) and, with a   *)
(* newline that is not the last byte, for ReadLine (reader.go:241).        *)
Contiguous ==
  \A i \in 1..(Len(passed) - 1) : passed[i + 1] = passed[i] + 1

(* The messages depend on the bytes alone and not on the payloads they     *)
(* came in: --message-size cuts the stream at the multiples of Size, the   *)
(* decoder is given whole pairs of digits (byte.go:241, hex.go:120-124).   *)
Framed ==
  /\ kind = "full" => /\ \A i \in 1..Len(cuts) : cuts[i] = Size
                      /\ passed # <<>> => passed[1] = skip * Size + 1
  /\ kind = "hex" => /\ \A i \in 1..Len(cuts) : cuts[i] % 2 = 0
                     /\ passed # <<>> => passed[1] = 1

(* At the end of the stream everything that was to be sent on has been:    *)
(* only what is less than a message is lost (byte.go:109-119).             *)
Complete ==
  stopped /\ max = 0 =>
    CASE kind = "full" -> LET n == fed \div Size
                          IN Len(cuts) = IF n > skip THEN n - skip ELSE 0
      [] kind = "hex"  -> Len(passed) = fed - (fed % 2)
      [] kind = "step" -> Len(passed) = fed
      [] OTHER         -> skip = 0 /\ newlines = {} => Len(passed) = fed - Len(crumb)

(* "Stream x messages after skipped messages" (byte.go:244): never more.   *)
AtMost == max > 0 => Len(cuts) <= max

(* "Stream x messages after skipped messages" (byte.go:244): byte does not *)
(* stop before it has.  No run checks it: TLC refutes it with a message to *)
(* skip, which is counted too (byte.go:216-226).                           *)
StreamsMax == stopped /\ ~over => Len(cuts) = max

(* The size of the buffer may run below zero (reader.go:61-64 has no       *)
(* minimum); then the very next read brings it back, for a read into an    *)
(* empty buffer counts as one that filled it.                              *)
StraysOnce == [][power > MaxPower => power' <= MaxPower]_sized

-----------------------------------------------------------------------------
(* Inductive invariant *)

(* The crumb is the last bytes that came, and what was sent on is the      *)
(* bytes before it.                                                        *)
InPlace(q, at) == \A i \in 1..Len(q) : q[i] = at + i
Before         == fed - Len(crumb)
Aligned ==
  kind # "line" =>
    /\ InPlace(crumb, Before)
    /\ InPlace(passed, Before - Len(passed))
    /\ Skipping => passed = <<>>
    /\ kind \in {"message", "step"} => crumb = <<>>

(* Every byte that came was skipped, sent on or kept. *)
Even(ns) == \A n \in ns : ~Odd(n)
Accounted ==
  /\ kind = "full" => /\ Before = skipped * Size + Len(passed)
                      /\ Len(passed) = Len(cuts) * Size
  /\ kind \in {"hex", "step"} => skip = 0 /\ Before = Len(passed)
  /\ kind = "hex" => Len(crumb) <= 1 /\ ~Odd(Len(passed))
  /\ kind = "hex" /\ Even(lengths) => crumb = <<>>
  /\ kind = "message" /\ skip = 0 => Before = Len(passed)

Cut(n) == /\ kind = "full" => n = Size
          /\ kind = "hex" => ~Odd(n)
Divided == \A i \in 1..Len(cuts) : Cut(cuts[i])

(* startByteHandler's counter is ahead of the messages it sent on. *)
Ahead ==
  max > 0 => /\ kind \in {"full", "message"}
             /\ Len(cuts) <= max
             /\ ~stopped => Len(cuts) < max /\ Len(cuts) < count

Ended ==
  stopped /\ max = 0 => /\ over
                        /\ kind = "full" => ~HasFull

Flow == StreamOK /\ Aligned /\ Accounted /\ Divided /\ Ahead /\ Ended
IInv == TypeOK /\ Flow
=============================================================================
