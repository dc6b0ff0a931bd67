----------------------------- MODULE PtouchPackBits -----------------------------
(***************************************************************************)
(* PackBits as src/ptouch_raster.c writes and reads it: the encoder's loop  *)
(* over the input with its pending literal run and its repeat count, and    *)
(* the decoder.  MaxRun is MAX_LENGTH (127 in the code); a byte has the     *)
(* width that makes a header of MaxRun the largest non-negative one, so a   *)
(* smaller MaxRun is the same format on shorter bytes.                      *)
(***************************************************************************)
EXTENDS Integers, Sequences

CONSTANTS
  MaxRun,        \* MAX_LENGTH
  Bytes,         \* the byte values the input is made of
  MaxLen,        \* bound: length of the input
  Slack          \* bound: how far the capacity given to the encoder may fall
                 \* short of ptouch_packbits_max_encoded_size

ASSUME RunAssumption == MaxRun \in Nat /\ MaxRun >= 2
ASSUME ByteAssumption == Bytes \subseteq 0..(2 * MaxRun + 1)
ASSUME BoundAssumption == MaxLen \in Nat /\ Slack \in Nat

VARIABLES
  data,          \* the input
  cap,           \* dst_cap
  at,            \* "loop" until it returns, "done", or "full" if it returned -1
  pos,           \* the next input byte, from 1
  state,         \* RAW or RLE
  buf,           \* the pending literal run
  repeats,       \* repeat_count
  packed         \* what has been put into dst

vars == <<data, cap, at, pos, state, buf, repeats, packed>>

Width == 2 * (MaxRun + 1)   \* 256 in the code

\* Mutant: the sustained worst case is taken for the worst case.
MaxEncodedSizeSustained(n) == (4 * n) \div 3

\* ptouch_packbits_max_encoded_size
MaxEncodedSize(n) == IF n = 0 THEN 0 ELSE 2 * n + 2

\* finish_raw and finish_rle: the bytes they put.  A run of one would need the
\* header Width, which is no byte; TypeOK says that none is ever put.
Literal(b) == IF b = <<>> THEN <<>> ELSE <<Len(b) - 1>> \o b
Run(n, v) == <<Width - (n - 1), v>>

\* PB_PUT of bytes one after the other; the encoder returns -1 at the first that
\* does not fit.
Put(bytes) ==
  /\ packed' = packed \o bytes
  /\ Len(packed') <= cap

-----------------------------------------------------------------------------
(* The encoder.                                                            *)

Encoding == at = "loop" /\ pos < Len(data)
Repeats == data[pos] = data[pos + 1]

StartRun ==
  /\ Encoding /\ state = "RAW" /\ Repeats
  /\ Put(Literal(buf))
  /\ buf' = <<>> /\ state' = "RLE" /\ repeats' = 1
  /\ pos' = pos + 1
  /\ UNCHANGED <<data, cap, at>>

\* Mutant: a run is never split.
ExtendRunUnsplit ==
  /\ Encoding /\ state = "RLE" /\ Repeats
  /\ Put(<<>>) /\ repeats' = repeats + 1
  /\ pos' = pos + 1
  /\ UNCHANGED <<data, cap, at, state, buf>>

ExtendRun ==
  /\ Encoding /\ state = "RLE" /\ Repeats
  /\ IF repeats = MaxRun
     THEN Put(Run(repeats, data[pos])) /\ repeats' = 1
     ELSE Put(<<>>) /\ repeats' = repeats + 1
  /\ pos' = pos + 1
  /\ UNCHANGED <<data, cap, at, state, buf>>

EndRun ==
  /\ Encoding /\ state = "RLE" /\ ~Repeats
  /\ Put(Run(repeats + 1, data[pos]))
  /\ state' = "RAW" /\ repeats' = 0
  /\ pos' = pos + 1
  /\ UNCHANGED <<data, cap, at, buf>>

\* Mutant: the literal run is flushed one byte late.
AddLiteralLate ==
  /\ Encoding /\ state = "RAW" /\ ~Repeats
  /\ IF Len(buf) = MaxRun + 1
     THEN Put(Literal(buf)) /\ buf' = <<data[pos]>>
     ELSE Put(<<>>) /\ buf' = Append(buf, data[pos])
  /\ pos' = pos + 1
  /\ UNCHANGED <<data, cap, at, state, repeats>>

AddLiteral ==
  /\ Encoding /\ state = "RAW" /\ ~Repeats
  /\ IF Len(buf) = MaxRun
     THEN Put(Literal(buf)) /\ buf' = <<data[pos]>>
     ELSE Put(<<>>) /\ buf' = Append(buf, data[pos])
  /\ pos' = pos + 1
  /\ UNCHANGED <<data, cap, at, state, repeats>>

\* After the loop: the last byte joins the literal run or ends the run.  (An empty
\* input puts nothing, and a single byte is a literal run of one.)
Last == IF data = <<>> THEN <<>>
        ELSE IF state = "RAW" THEN Literal(Append(buf, data[pos]))
        ELSE Run(repeats + 1, data[pos])

Finish ==
  /\ at = "loop" /\ pos >= Len(data)
  /\ Put(Last)
  /\ at' = "done"
  /\ UNCHANGED <<data, cap, pos, state, buf, repeats>>

\* What the next step of the encoder would put, when dst has no room for it.
Pending ==
  IF pos >= Len(data) THEN Last
  ELSE IF state = "RAW"
       THEN IF Repeats \/ Len(buf) = MaxRun THEN Literal(buf) ELSE <<>>
       ELSE IF ~Repeats THEN Run(repeats + 1, data[pos])
            ELSE IF repeats = MaxRun THEN Run(repeats, data[pos]) ELSE <<>>

Overrun ==
  /\ at = "loop" /\ Len(packed) + Len(Pending) > cap
  /\ at' = "full"
  /\ UNCHANGED <<data, cap, pos, state, buf, repeats, packed>>

-----------------------------------------------------------------------------
(* The decoder: ptouch_packbits_decode, -1 being ok = FALSE.               *)

\* The group at a position: how many bytes it takes, and those it stands for; a
\* header of MaxRun + 1 (-128 in the code) stands for none.
GroupLen(src, p) ==
  IF src[p] <= MaxRun THEN src[p] + 2 ELSE IF src[p] = MaxRun + 1 THEN 1 ELSE 2

Group(src, p) ==
  IF src[p] <= MaxRun THEN SubSeq(src, p + 1, p + src[p] + 1)
  ELSE IF src[p] = MaxRun + 1 THEN <<>>
  ELSE [i \in 1..(Width - src[p] + 1) |-> src[p + 1]]

\* What the bytes from each position on decode to.
Decoded(src) ==
  LET from[p \in 1..(Len(src) + 1)] ==
        IF p > Len(src) THEN [ok |-> TRUE, out |-> <<>>]
        ELSE LET next == p + GroupLen(src, p) IN
             IF next > Len(src) + 1 THEN [ok |-> FALSE, out |-> <<>>]
             ELSE [ok |-> from[next].ok, out |-> Group(src, p) \o from[next].out]
  IN from

Decode(src, room) ==
  LET whole == Decoded(src)[1]
  IN  [ok |-> whole.ok /\ Len(whole.out) <= room, out |-> whole.out]

-----------------------------------------------------------------------------

Inputs == UNION {[1..n -> Bytes] : n \in 0..MaxLen}

Init ==
  /\ data \in Inputs
  /\ cap \in {c \in 0..MaxEncodedSize(Len(data)) : c + Slack >= MaxEncodedSize(Len(data))}
  /\ at = "loop" /\ pos = 1
  /\ state = "RAW" /\ buf = <<>> /\ repeats = 0 /\ packed = <<>>

Next ==
  StartRun \/ ExtendRun \/ EndRun \/ AddLiteral \/ Finish \/ Overrun

Spec == Init /\ [][Next]_vars

-----------------------------------------------------------------------------
(* Properties.                                                             *)

\* Every variable keeps its type; the pending literal run leaves room for the last
\* byte in its scratch buffer of MaxRun + 1 (ptouch_raster.c:130), and what is put
\* fits a byte.
TypeOK ==
  /\ data \in Seq(Bytes) /\ cap \in Nat /\ at \in {"loop", "done", "full"}
  /\ pos \in 1..(Len(data) + 1) /\ state \in {"RAW", "RLE"}
  /\ buf \in Seq(Bytes) /\ Len(buf) <= MaxRun /\ repeats \in 0..MaxRun
  /\ packed \in Seq(0..(Width - 1)) /\ Len(packed) <= cap

\* Lossless: what the encoder returns decodes to its input, in a buffer of the
\* input's size, whatever the run lengths (ptouch_raster.c:87).
RoundTrip == at = "done" => Decode(packed, Len(data)) = [ok |-> TRUE, out |-> data]

\* The encoder never runs out of a buffer of ptouch_packbits_max_encoded_size,
\* "a strict upper bound" (ptouch_raster.c:98).
EncodedFits == at = "full" => cap < MaxEncodedSize(Len(data))
=============================================================================
