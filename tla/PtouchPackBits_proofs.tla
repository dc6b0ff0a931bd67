-------------------------- MODULE PtouchPackBits_proofs --------------------------
(***************************************************************************)
(* The encoder's bounds, for every run length limit and every input: its    *)
(* scratch buffer never overflows, its headers fit a byte, and a buffer of  *)
(* ptouch_packbits_max_encoded_size always holds its output.  The argument  *)
(* charges every input byte two output bytes: Charged below.  And the       *)
(* output decodes to the input: the decoder's recursion is shown to have a  *)
(* solution, a group behind bytes that decode adds what it stands for, and  *)
(* what the encoder has put decodes at every step to the input it has put.  *)
(***************************************************************************)
EXTENDS PtouchPackBits, SequenceTheorems, WellFoundedInduction, TLAPS

\* What has been put, with the header of what is pending, is paid for by the
\* bytes read; a run that is counted has at least one repetition.
Charged ==
  at = "loop" =>
    /\ data # <<>> => pos <= Len(data)
    /\ data = <<>> => pos = 1
    /\ state = "RAW" => Len(packed) + (IF buf = <<>> THEN 0 ELSE Len(buf) + 1) <= 2 * (pos - 1)
    /\ state = "RLE" => buf = <<>> /\ repeats >= 1 /\ pos > 1 /\ Len(packed) + 2 <= 2 * (pos - 1)

BoundsInv == TypeOK /\ Charged /\ EncodedFits

Byte == 0..(Width - 1)

\* The input's values are bytes.
LEMMA BytesAreByte == Bytes \subseteq Byte
<1> SUFFICES ASSUME NEW v \in Bytes PROVE v \in Byte
  OBVIOUS
<1>1. v \in 0..(2 * MaxRun + 1)
  BY ByteAssumption
<1>2. 2 * MaxRun + 1 = Width - 1 /\ MaxRun \in Nat
  BY RunAssumption DEF Width
<1> QED
  BY <1>1, <1>2 DEF Byte

\* A flushed literal run is bytes, one more than the run has.
LEMMA LiteralPuts ==
  ASSUME NEW b \in Seq(Bytes), Len(b) <= MaxRun + 1
  PROVE  /\ Literal(b) \in Seq(Byte)
         /\ Len(Literal(b)) = IF b = <<>> THEN 0 ELSE Len(b) + 1
<1>1. b \in Seq(Byte)
  BY BytesAreByte
<1>2. CASE b = <<>>
  BY <1>2 DEF Literal
<1>3. CASE b # <<>>
  <2>1. Len(b) - 1 \in Byte
    BY <1>3, RunAssumption DEF Byte, Width
  <2>2. <<Len(b) - 1>> \in Seq(Byte) /\ Len(<<Len(b) - 1>>) = 1
    BY <2>1
  <2> QED
    BY <1>1, <1>3, <2>2 DEF Literal
<1> QED
  BY <1>2, <1>3

\* A run of two or more is two bytes.
LEMMA RunPuts ==
  ASSUME NEW n \in 2..(MaxRun + 1), NEW v \in Bytes
  PROVE  Run(n, v) \in Seq(Byte) /\ Len(Run(n, v)) = 2
<1>1. Width - (n - 1) \in Byte
  <2>1. n \in Nat /\ n >= 2 /\ n <= MaxRun + 1 /\ MaxRun \in Nat
    BY RunAssumption
  <2>2. 2 * (MaxRun + 1) - (n - 1) \in 0..(2 * (MaxRun + 1) - 1)
    BY <2>1
  <2> QED
    BY <2>2 DEF Byte, Width
<1>2. v \in Byte
  BY BytesAreByte
<1> QED
  BY <1>1, <1>2 DEF Run

\* Put adds bytes within the capacity.
LEMMA PutAdds ==
  ASSUME NEW bytes \in Seq(Byte), packed \in Seq(Byte), Put(bytes)
  PROVE  packed' \in Seq(Byte) /\ Len(packed') = Len(packed) + Len(bytes) /\ Len(packed') <= cap
BY DEF Put

\* Putting nothing changes nothing.
LEMMA PutNothing ==
  ASSUME packed \in Seq(Byte), Put(<<>>)
  PROVE  packed' \in Seq(Byte) /\ Len(packed') = Len(packed) /\ Len(packed') <= cap
BY DEF Put

\* The bound is a number, and two bytes for each one read stay within it.
LEMMA MaxEncodedSizeBounds ==
  ASSUME NEW n \in Nat
  PROVE  MaxEncodedSize(n) \in Nat /\ (n > 0 => 2 * n < MaxEncodedSize(n))
BY DEF MaxEncodedSize

\* The invariant holds when the encoder is called.
LEMMA InitBounds == Init => BoundsInv
<1> SUFFICES ASSUME Init PROVE BoundsInv
  OBVIOUS
<1>1. data \in Seq(Bytes)
  <2>1. PICK n \in 0..MaxLen : data \in [1..n -> Bytes]
    BY DEF Init, Inputs
  <2>2. n \in Nat
    BY <2>1, BoundAssumption
  <2> QED
    BY <2>1, <2>2
<1>2. Len(data) \in Nat /\ cap \in Nat
  BY <1>1, MaxEncodedSizeBounds DEF Init
<1>3. TypeOK
  BY <1>1, <1>2, RunAssumption DEF Init, TypeOK
<1>4. Charged /\ EncodedFits
  BY <1>1, <1>2 DEF Init, Charged, EncodedFits
<1> QED
  BY <1>3, <1>4 DEF BoundsInv

\* Every step of the encoder keeps it.
LEMMA NextBounds == BoundsInv /\ [Next]_vars => BoundsInv'
<1> SUFFICES ASSUME BoundsInv, [Next]_vars PROVE BoundsInv'
  OBVIOUS
<1> USE RunAssumption DEF BoundsInv
<1>a. /\ data \in Seq(Bytes) /\ buf \in Seq(Bytes) /\ packed \in Seq(Byte)
      /\ pos \in Nat /\ pos >= 1 /\ Len(data) \in Nat /\ Len(buf) \in Nat /\ Len(packed) \in Nat
      /\ cap \in Nat /\ repeats \in 0..MaxRun /\ Len(buf) <= MaxRun
  BY DEF TypeOK, Byte
<1>b. Encoding => data[pos] \in Bytes
  BY <1>a DEF Encoding
<1>c. Literal(buf) \in Seq(Byte) /\ Len(Literal(buf)) = IF buf = <<>> THEN 0 ELSE Len(buf) + 1
  BY <1>a, LiteralPuts
<1>1. CASE StartRun
  <2>1. packed' \in Seq(Byte) /\ Len(packed') = Len(packed) + Len(Literal(buf)) /\ Len(packed') <= cap
    BY <1>1, <1>a, <1>c, PutAdds DEF StartRun
  <2>2. TypeOK'
    BY <1>1, <1>a, <2>1 DEF StartRun, Encoding, TypeOK, Byte
  <2> QED
    BY <1>1, <1>a, <1>c, <2>1, <2>2 DEF StartRun, Encoding, Charged, EncodedFits
<1>2. CASE ExtendRun
  <2>1. /\ packed' \in Seq(Byte) /\ Len(packed') \in Nat /\ Len(packed') <= cap
        /\ Len(packed') <= Len(packed) + 2
    <3>1. CASE repeats = MaxRun
      <4>1. Run(repeats, data[pos]) \in Seq(Byte) /\ Len(Run(repeats, data[pos])) = 2
        BY <1>2, <1>b, <3>1, RunPuts DEF ExtendRun
      <4>2. Put(Run(repeats, data[pos]))
        BY <1>2, <3>1 DEF ExtendRun
      <4> QED
        <5>1. /\ packed' \in Seq(Byte) /\ Len(packed') = Len(packed) + Len(Run(repeats, data[pos]))
              /\ Len(packed') <= cap
          BY <1>a, <4>1, <4>2, PutAdds
        <5> QED
          BY <1>a, <4>1, <5>1
    <3>2. CASE repeats # MaxRun
      BY <1>2, <1>a, <3>2, PutNothing DEF ExtendRun
    <3> QED
      BY <3>1, <3>2
  <2>2. repeats' \in 0..MaxRun
    BY <1>2, <1>a DEF ExtendRun
  <2>3. TypeOK'
    BY <1>2, <1>a, <2>1, <2>2 DEF ExtendRun, Encoding, TypeOK, Byte
  <2> QED
    BY <1>2, <1>a, <2>1, <2>3 DEF ExtendRun, Encoding, Charged, EncodedFits
<1>3. CASE EndRun
  <2>1. packed' \in Seq(Byte) /\ Len(packed') = Len(packed) + 2 /\ Len(packed') <= cap
    <3>1. /\ Run(repeats + 1, data[pos]) \in Seq(Byte)
          /\ Len(Run(repeats + 1, data[pos])) = 2
      BY <1>3, <1>a, <1>b, RunPuts DEF EndRun, Encoding, Charged
    <3>2. Put(Run(repeats + 1, data[pos]))
      BY <1>3 DEF EndRun
    <3> QED
      BY <1>a, <3>1, <3>2, PutAdds
  <2>2. TypeOK'
    BY <1>3, <1>a, <2>1 DEF EndRun, Encoding, TypeOK, Byte
  <2> QED
    BY <1>3, <1>a, <2>1, <2>2 DEF EndRun, Encoding, Charged, EncodedFits
<1>4. CASE AddLiteral
  <2>1. /\ packed' \in Seq(Byte) /\ Len(packed') <= cap
        /\ buf' \in Seq(Bytes) /\ buf' # <<>> /\ Len(buf') <= MaxRun
        /\ Len(packed') + Len(buf') + 1
             <= Len(packed) + (IF buf = <<>> THEN 0 ELSE Len(buf) + 1) + 2
    <3>1. CASE Len(buf) = MaxRun
      <4>1. Len(packed') = Len(packed) + Len(Literal(buf)) /\ packed' \in Seq(Byte) /\ Len(packed') <= cap
        BY <1>4, <1>a, <1>c, <3>1, PutAdds DEF AddLiteral
      <4>2. buf' = <<data[pos]>>
        BY <1>4, <3>1 DEF AddLiteral
      <4> QED
        BY <1>4, <1>a, <1>b, <1>c, <3>1, <4>1, <4>2 DEF AddLiteral
    <3>2. CASE Len(buf) # MaxRun
      <4>1. Len(packed') = Len(packed) /\ packed' \in Seq(Byte) /\ Len(packed') <= cap
        BY <1>4, <1>a, <3>2, PutNothing DEF AddLiteral
      <4>2. buf' = Append(buf, data[pos])
        BY <1>4, <3>2 DEF AddLiteral
      <4> QED
        BY <1>4, <1>a, <1>b, <3>2, <4>1, <4>2 DEF AddLiteral
    <3> QED
      BY <3>1, <3>2
  <2>2. TypeOK'
    BY <1>4, <1>a, <2>1 DEF AddLiteral, Encoding, TypeOK, Byte
  <2>3. Charged'
    BY <1>4, <1>a, <2>1, SMTT(30) DEF AddLiteral, Encoding, Charged
  <2> QED
    BY <1>4, <2>2, <2>3 DEF AddLiteral, EncodedFits
<1>d. at = "loop" /\ pos >= Len(data) =>
        /\ Last \in Seq(Byte)
        /\ Len(packed) + Len(Last) <= 2 * Len(data)
  <2> SUFFICES ASSUME at = "loop", pos >= Len(data)
               PROVE  Last \in Seq(Byte) /\ Len(packed) + Len(Last) <= 2 * Len(data)
    OBVIOUS
  <2>1. CASE data = <<>>
    BY <2>1, <1>a DEF Charged, Last, TypeOK
  <2>2. CASE data # <<>> /\ state = "RAW"
    <3>1. pos = Len(data) /\ data[pos] \in Bytes
      BY <2>2, <1>a DEF Charged
    <3>2. /\ Append(buf, data[pos]) \in Seq(Bytes) /\ Append(buf, data[pos]) # <<>>
          /\ Len(Append(buf, data[pos])) = Len(buf) + 1
      BY <3>1, <1>a
    <3>3. /\ Literal(Append(buf, data[pos])) \in Seq(Byte)
          /\ Len(Literal(Append(buf, data[pos]))) = Len(buf) + 2
      <4> DEFINE b == Append(buf, data[pos])
      <4>1. b \in Seq(Bytes) /\ Len(b) <= MaxRun + 1 /\ b # <<>> /\ Len(b) = Len(buf) + 1
        BY <3>2, <1>a
      <4>2. Literal(b) \in Seq(Byte) /\ Len(Literal(b)) = IF b = <<>> THEN 0 ELSE Len(b) + 1
        <5> HIDE DEF b
        <5> QED
          BY <4>1, LiteralPuts
      <4> QED
        BY <1>a, <4>1, <4>2
    <3>4. Len(packed) + Len(buf) <= 2 * (pos - 1)
      BY <2>2, <1>a DEF Charged
    <3> QED
      BY <2>2, <3>1, <3>3, <3>4, <1>a DEF Last
  <2>3. CASE data # <<>> /\ state = "RLE"
    <3>1. pos = Len(data) /\ data[pos] \in Bytes
      BY <2>3, <1>a DEF Charged
    <3>2. Run(repeats + 1, data[pos]) \in Seq(Byte) /\ Len(Run(repeats + 1, data[pos])) = 2
      BY <2>3, <3>1, <1>a, RunPuts DEF Charged
    <3>3. Last = Run(repeats + 1, data[pos])
      BY <2>3 DEF Last
    <3>4. Len(packed) + 2 <= 2 * (pos - 1)
      BY <2>3 DEF Charged
    <3>5. Len(packed) + Len(Last) <= 2 * Len(data)
      <4>1. Len(Last) = 2
        BY <3>2, <3>3
      <4> QED
        BY <3>1, <3>4, <4>1, <1>a
    <3> QED
      BY <3>2, <3>3, <3>5
  <2> QED
    BY <2>1, <2>2, <2>3 DEF TypeOK
<1>5. CASE Finish
  <2>1. packed' \in Seq(Byte) /\ Len(packed') <= cap
    BY <1>5, <1>a, <1>d, PutAdds DEF Finish
  <2>2. TypeOK'
    BY <1>5, <1>a, <2>1 DEF Finish, TypeOK, Byte
  <2> QED
    BY <1>5, <2>2 DEF Finish, Charged, EncodedFits
<1>6. CASE Overrun
  <2>1. data # <<>> /\ Len(packed) + Len(Pending) <= 2 * Len(data)
    <3>1. CASE pos >= Len(data)
      <4>1. Pending = Last
        BY <3>1 DEF Pending
      <4>2. data = <<>> => Last = <<>>
        BY DEF Last
      <4> QED
        BY <1>6, <3>1, <4>1, <4>2, <1>a, <1>d DEF Overrun, TypeOK
    <3>2. CASE pos < Len(data)
      <4>1. data[pos] \in Bytes /\ data # <<>>
        BY <3>2, <1>a
      <4>2. CASE state = "RAW"
        BY <1>6, <3>2, <4>1, <4>2, <1>a, <1>c DEF Overrun, Pending, Charged
      <4>3. CASE state = "RLE"
        <5>1. Len(Pending) <= 2 /\ Len(Pending) \in Nat
          <6>1. Len(Run(repeats + 1, data[pos])) = 2
            BY DEF Run
          <6>2. Len(Run(repeats, data[pos])) = 2
            BY DEF Run
          <6>3. \/ Pending = Run(repeats + 1, data[pos])
                \/ Pending = <<>>
                \/ repeats = MaxRun /\ Pending = Run(repeats, data[pos])
            BY <3>2, <4>3, <1>a DEF Pending
          <6>4. Len(<<>>) = 0
            OBVIOUS
          <6>5. Len(Pending) = 0 \/ Len(Pending) = 2
            BY <6>1, <6>2, <6>3, <6>4, Zenon
          <6> QED
            BY <6>5, SMTT(30)
        <5> QED
          BY <1>6, <3>2, <4>1, <4>3, <5>1, <1>a DEF Overrun, Charged
      <4> QED
        BY <4>2, <4>3 DEF TypeOK
    <3> QED
      BY <3>1, <3>2, <1>a
  <2>2. cap < 2 * Len(data) /\ Len(data) > 0
    BY <1>6, <2>1, <1>a DEF Overrun, TypeOK
  <2>3. cap < MaxEncodedSize(Len(data))
    BY <2>2, <1>a, MaxEncodedSizeBounds, SMTT(30)
  <2>4. TypeOK' /\ Charged'
    BY <1>6, <1>a DEF Overrun, TypeOK, Charged
  <2> QED
    BY <1>6, <2>3, <2>4 DEF Overrun, EncodedFits
<1>7. CASE UNCHANGED vars
  BY <1>7 DEF vars, TypeOK, Charged, EncodedFits
<1> QED
  BY <1>1, <1>2, <1>3, <1>4, <1>5, <1>6, <1>7 DEF Next

\* The bounds of the encoder, by induction over its steps.
THEOREM EncoderBounds == Spec => []BoundsInv
<1> QED
  BY InitBounds, NextBounds, PTL DEF Spec

\* Type correctness, with the scratch buffer's bound, for every MAX_LENGTH and every
\* input.
THEOREM EncoderTypeCorrect == Spec => []TypeOK
<1>1. BoundsInv => TypeOK
  BY DEF BoundsInv
<1> QED
  BY <1>1, EncoderBounds, PTL

\* A buffer of ptouch_packbits_max_encoded_size is never overrun.
THEOREM EncodingAlwaysFits == Spec => []EncodedFits
<1>1. BoundsInv => EncodedFits
  BY DEF BoundsInv
<1> QED
  BY <1>1, EncoderBounds, PTL

-----------------------------------------------------------------------------
(* The decoder.                                                            *)

\* One position of the decoder's recursion, and a function that solves it.
Decodings == [ok : BOOLEAN, out : Seq(Byte)]
DecodedAt(src, from, p) ==
  IF p > Len(src) THEN [ok |-> TRUE, out |-> <<>>]
  ELSE LET next == p + GroupLen(src, p) IN
       IF next > Len(src) + 1 THEN [ok |-> FALSE, out |-> <<>>]
       ELSE [ok |-> from[next].ok, out |-> Group(src, p) \o from[next].out]
IsDecoded(src, from) == from = [p \in 1..(Len(src) + 1) |-> DecodedAt(src, from, p)]

LEMMA DecodedChosen ==
  ASSUME NEW src, NEW f, IsDecoded(src, f)
  PROVE  IsDecoded(src, Decoded(src))
<1>1. Decoded(src) = CHOOSE from : IsDecoded(src, from)
  BY DEF Decoded, DecodedAt, IsDecoded
<1>2. QED BY <1>1, Zenon

\* What holds at a position whenever it holds at all later ones holds at all.
LEMMA Backwards ==
  ASSUME NEW n \in Nat, NEW S,
         \A p \in 1..n : (\A q \in (p + 1)..n : q \in S) => p \in S
  PROVE  \A p \in 1..n : p \in S
<1> DEFINE T == {n - p : p \in {q \in 1..n : q \notin S}}
<1>1. SUFFICES ASSUME T # {} PROVE FALSE
  <2>1. ASSUME T = {}, NEW p \in 1..n PROVE p \in S BY <2>1
  <2>2. QED BY <2>1
<1>2. T \subseteq Nat OBVIOUS
<1>3. PICK c \in T : \A d \in T : ~(<<d, c>> \in OpToRel(<, Nat))
  <2> HIDE DEF T
  <2>1. QED BY <1>1, <1>2, WFMin, NatLessThanWellFounded, Zenon
<1>4. \A d \in T : ~(d < c)
  <2> HIDE DEF T
  <2>1. c \in Nat /\ \A d \in T : d \in Nat BY <1>2
  <2>2. QED BY <1>3, <2>1, Zenon DEF OpToRel
<1>5. PICK p \in 1..n : p \notin S /\ c = n - p BY <1>3
<1>6. \A q \in (p + 1)..n : q \in S
  <2>1. SUFFICES ASSUME NEW q \in (p + 1)..n, q \notin S PROVE FALSE OBVIOUS
  <2>2. q \in 1..n /\ n - q \in T /\ n - q < c BY <1>5, <2>1
  <2>3. QED BY <1>4, <2>2
<1>7. QED BY <1>5, <1>6

\* A group takes at least its header.
LEMMA GroupTakes ==
  ASSUME NEW src \in Seq(Byte), NEW p \in 1..Len(src)
  PROVE  /\ GroupLen(src, p) \in Nat /\ GroupLen(src, p) >= 1
         /\ p + GroupLen(src, p) <= Len(src) + 1 => Group(src, p) \in Seq(Byte)
<1>1. src[p] \in Nat /\ src[p] <= 2 * MaxRun + 1 /\ MaxRun \in Nat
  BY RunAssumption DEF Byte, Width
<1>2. GroupLen(src, p) \in Nat /\ GroupLen(src, p) >= 1 BY <1>1 DEF GroupLen
<1>3. ASSUME p + GroupLen(src, p) <= Len(src) + 1 PROVE Group(src, p) \in Seq(Byte)
  <2>1. CASE src[p] <= MaxRun
    <3>1. GroupLen(src, p) = src[p] + 2 BY <2>1 DEF GroupLen
    <3>2. \A i \in (p + 1)..(p + src[p] + 1) : src[i] \in Byte
      BY <1>1, <1>3, <3>1
    <3>3. SubSeq(src, p + 1, p + src[p] + 1) \in Seq(Byte)
      BY <1>1, <3>2, SubSeqProperties
    <3>4. QED BY <2>1, <3>3 DEF Group
  <2>2. CASE src[p] = MaxRun + 1 BY <1>1, <2>2 DEF Group
  <2>3. CASE src[p] > MaxRun + 1
    <3>1. GroupLen(src, p) = 2 BY <1>1, <2>3 DEF GroupLen
    <3>2. src[p + 1] \in Byte BY <1>3, <3>1
    <3>3. Width - src[p] + 1 \in Nat BY <1>1 DEF Width
    <3>4. [i \in 1..(Width - src[p] + 1) |-> src[p + 1]] \in Seq(Byte) BY <3>2, <3>3
    <3>5. QED BY <1>1, <2>3, <3>4 DEF Group
  <2>4. QED BY <1>1, <2>1, <2>2, <2>3
<1>4. QED BY <1>2, <1>3

\* The decoder's recursion has a solution, so Decoded is one.
\* The recursion looks only at the next group.
LEMMA DecodedLater ==
  ASSUME NEW src, NEW f, NEW g, NEW p,
         ~(p > Len(src)) /\ ~(p + GroupLen(src, p) > Len(src) + 1)
           => g[p + GroupLen(src, p)] = f[p + GroupLen(src, p)]
  PROVE  DecodedAt(src, g, p) = DecodedAt(src, f, p)
<1>1. CASE p > Len(src) BY <1>1 DEF DecodedAt
<1>2. CASE ~(p > Len(src)) /\ p + GroupLen(src, p) > Len(src) + 1 BY <1>2 DEF DecodedAt
<1>3. CASE /\ ~(p > Len(src)) /\ ~(p + GroupLen(src, p) > Len(src) + 1)
           /\ g[p + GroupLen(src, p)] = f[p + GroupLen(src, p)]
  BY <1>3, Zenon DEF DecodedAt
<1>4. QED BY <1>1, <1>2, <1>3

LEMMA DecodedIs == ASSUME NEW src \in Seq(Byte) PROVE IsDecoded(src, Decoded(src))
<1> DEFINE n == Len(src) + 1
           Solves(f, m) == \A p \in m..n : f[p] = DecodedAt(src, f, p)
           S == {m \in 1..n : \E f : Solves(f, m)}
<1>1. n \in Nat /\ n >= 1 OBVIOUS
<1>2. ASSUME NEW m \in 1..n, \A q \in (m + 1)..n : q \in S PROVE m \in S
  <2>1. PICK f : Solves(f, m + 1)
    <3>1. CASE m = n BY <3>1
    <3>2. CASE m < n
      <4>1. m + 1 \in (m + 1)..n BY <3>2, <1>1
      <4>2. QED BY <1>2, <4>1
    <3>3. QED BY <1>1, <3>1, <3>2
  <2> DEFINE g == [p \in 1..n |-> IF p = m THEN DecodedAt(src, f, m) ELSE f[p]]
  <2>2. ASSUME NEW p \in m..n PROVE DecodedAt(src, g, p) = DecodedAt(src, f, p)
    <3>1. ~(p > Len(src)) /\ ~(p + GroupLen(src, p) > Len(src) + 1)
            => g[p + GroupLen(src, p)] = f[p + GroupLen(src, p)]
      <4>1. SUFFICES ASSUME ~(p > Len(src)), ~(p + GroupLen(src, p) > Len(src) + 1)
                     PROVE  p + GroupLen(src, p) \in 1..n /\ p + GroupLen(src, p) # m
        OBVIOUS
      <4>2. QED BY <4>1, GroupTakes
    <3> HIDE DEF g
    <3>2. QED BY <3>1, DecodedLater
  <2>3. Solves(g, m)
    <3>1. SUFFICES ASSUME NEW p \in m..n PROVE g[p] = DecodedAt(src, g, p) OBVIOUS
    <3>2. g[p] = DecodedAt(src, f, p)
      <4>1. CASE p = m BY <4>1
      <4>2. CASE p # m
        <5>1. p \in (m + 1)..n /\ p \in 1..n BY <4>2
        <5>2. f[p] = DecodedAt(src, f, p) BY <2>1, <5>1
        <5>3. QED BY <4>2, <5>1, <5>2
      <4>3. QED BY <4>1, <4>2
    <3>3. DecodedAt(src, g, p) = DecodedAt(src, f, p) BY <2>2
    <3>4. QED BY <3>2, <3>3
  <2>4. QED BY <2>3
<1>3. 1 \in S
  <2>1. \A p \in 1..n : (\A q \in (p + 1)..n : q \in S) => p \in S BY <1>2
  <2> HIDE DEF n, S
  <2>2. \A p \in 1..n : p \in S BY <1>1, <2>1, Backwards, Zenon
  <2>3. QED BY <1>1, <2>2
<1>4. PICK f : Solves(f, 1) BY <1>3
<1> DEFINE g == [p \in 1..n |-> f[p]]
<1>5. ASSUME NEW p \in 1..n PROVE DecodedAt(src, g, p) = DecodedAt(src, f, p)
  <2>1. ~(p > Len(src)) /\ ~(p + GroupLen(src, p) > Len(src) + 1)
          => g[p + GroupLen(src, p)] = f[p + GroupLen(src, p)]
    BY GroupTakes
  <2> HIDE DEF g
  <2>2. QED BY <2>1, DecodedLater
<1>6. IsDecoded(src, g)
  <2>1. \A p \in 1..n : g[p] = DecodedAt(src, g, p) BY <1>4, <1>5
  <2>2. g = [p \in 1..n |-> DecodedAt(src, g, p)] BY <2>1
  <2>3. QED BY <2>2 DEF IsDecoded
<1>7. QED BY <1>6, DecodedChosen

\* What a decoding is made of.
LEMMA DecodingIs ==
  /\ \A ok \in BOOLEAN, out \in Seq(Byte) : [ok |-> ok, out |-> out] \in Decodings
  /\ \A d \in Decodings : d.ok \in BOOLEAN /\ d.out \in Seq(Byte)
BY DEF Decodings

\* The decoder at a position: past the end, at a group that is cut short, at a whole one.
LEMMA DecodedCases ==
  ASSUME NEW src, NEW from, NEW p
  PROVE  /\ p > Len(src) => DecodedAt(src, from, p) = [ok |-> TRUE, out |-> <<>>]
         /\ ~(p > Len(src)) /\ p + GroupLen(src, p) > Len(src) + 1
              => DecodedAt(src, from, p) = [ok |-> FALSE, out |-> <<>>]
         /\ ~(p > Len(src)) /\ ~(p + GroupLen(src, p) > Len(src) + 1)
              => DecodedAt(src, from, p)
                   = [ok |-> from[p + GroupLen(src, p)].ok,
                      out |-> Group(src, p) \o from[p + GroupLen(src, p)].out]
BY Zenon DEF DecodedAt

\* What the decoder says at a position is a decoding.
LEMMA DecodedTyped ==
  ASSUME NEW src \in Seq(Byte)
  PROVE  \A p \in 1..(Len(src) + 1) : Decoded(src)[p] \in Decodings
<1> DEFINE n == Len(src) + 1
           S == {p \in 1..n : Decoded(src)[p] \in Decodings}
<1>1. n \in Nat OBVIOUS
<1>2. ASSUME NEW p \in 1..n, \A q \in (p + 1)..n : q \in S PROVE Decoded(src)[p] \in Decodings
  <2> DEFINE next == p + GroupLen(src, p)
             d == Decoded(src)[next]
  <2>1. Decoded(src)[p] = DecodedAt(src, Decoded(src), p) BY DecodedIs DEF IsDecoded
  <2>2. [ok |-> TRUE, out |-> <<>>] \in Decodings /\ [ok |-> FALSE, out |-> <<>>] \in Decodings
    BY DEF Decodings
  <2>3. CASE p > Len(src) BY <2>1, <2>2, <2>3, DecodedCases
  <2>4. CASE ~(p > Len(src)) /\ next > Len(src) + 1 BY <2>1, <2>2, <2>4, DecodedCases
  <2>5. CASE ~(p > Len(src)) /\ ~(next > Len(src) + 1)
    <3>1. Decoded(src)[p] = [ok |-> d.ok, out |-> Group(src, p) \o d.out]
      BY <2>1, <2>5, DecodedCases
    <3>2. p \in 1..Len(src) BY <2>5
    <3>3. next \in (p + 1)..n /\ Group(src, p) \in Seq(Byte) BY <2>5, <3>2, GroupTakes
    <3>4. d \in Decodings BY <1>2, <3>3
    <3>5. d.ok \in BOOLEAN /\ d.out \in Seq(Byte) BY <3>4, DecodingIs
    <3>6. Group(src, p) \o d.out \in Seq(Byte) BY <3>3, <3>5
    <3>7. QED BY <3>1, <3>5, <3>6, DecodingIs
  <2>6. QED BY <2>3, <2>4, <2>5
<1>3. QED
  <2>1. \A p \in 1..n : (\A q \in (p + 1)..n : q \in S) => p \in S BY <1>2
  <2> HIDE DEF n, S
  <2>2. \A p \in 1..n : p \in S BY <1>1, <2>1, Backwards, Zenon
  <2>3. QED BY <2>2 DEF n, S

\* The end of the recursion ...
LEMMA DecodedEnd ==
  ASSUME NEW src \in Seq(Byte)
  PROVE  Decoded(src)[Len(src) + 1].ok /\ Decoded(src)[Len(src) + 1].out = <<>>
<1>1. Len(src) + 1 \in 1..(Len(src) + 1) /\ Len(src) + 1 > Len(src) OBVIOUS
<1>2. Decoded(src)[Len(src) + 1] = DecodedAt(src, Decoded(src), Len(src) + 1)
  BY <1>1, DecodedIs DEF IsDecoded
<1>3. Decoded(src)[Len(src) + 1] = [ok |-> TRUE, out |-> <<>>] BY <1>1, <1>2, DecodedCases
<1>4. QED BY <1>3

\* ... and its step, one group.
LEMMA DecodedGroup ==
  ASSUME NEW src \in Seq(Byte), NEW p \in 1..Len(src), NEW next, next = p + GroupLen(src, p)
  PROVE  /\ next > Len(src) + 1 => ~Decoded(src)[p].ok
         /\ next <= Len(src) + 1 =>
              /\ Decoded(src)[p].ok <=> Decoded(src)[next].ok
              /\ Decoded(src)[p].out = Group(src, p) \o Decoded(src)[next].out
<1>1. p \in 1..(Len(src) + 1) /\ ~(p > Len(src)) /\ next \in Nat BY GroupTakes
<1>2. Decoded(src)[p] = DecodedAt(src, Decoded(src), p) BY <1>1, DecodedIs DEF IsDecoded
<1>3. CASE next > Len(src) + 1
  <2>1. Decoded(src)[p] = [ok |-> FALSE, out |-> <<>>] BY <1>1, <1>2, <1>3, DecodedCases
  <2>2. ~Decoded(src)[p].ok BY <2>1
  <2>3. QED BY <1>1, <1>3, <2>2
<1>4. CASE next <= Len(src) + 1
  <2>1. ~(next > Len(src) + 1) BY <1>1, <1>4
  <2>2. Decoded(src)[p] = [ok |-> Decoded(src)[next].ok,
                           out |-> Group(src, p) \o Decoded(src)[next].out]
    BY <1>1, <1>2, <2>1, DecodedCases
  <2>3. QED BY <2>1, <2>2
<1>5. QED BY <1>1, <1>3, <1>4

\* Part of a sequence, element by element.
LEMMA Part ==
  ASSUME NEW s \in Seq(Byte), NEW m \in Nat, NEW k \in Nat, m + k <= Len(s)
  PROVE  /\ SubSeq(s, m + 1, m + k) \in Seq(Byte) /\ Len(SubSeq(s, m + 1, m + k)) = k
         /\ \A i \in 1..k : SubSeq(s, m + 1, m + k)[i] = s[m + i]
<1>1. \A i \in (m + 1)..(m + k) : s[i] \in Byte OBVIOUS
<1>2. /\ SubSeq(s, m + 1, m + k) \in Seq(Byte)
      /\ Len(SubSeq(s, m + 1, m + k))
           = IF m + 1 <= m + k THEN (m + k) - (m + 1) + 1 ELSE 0
      /\ \A i \in 1..((m + k) - (m + 1) + 1) :
           SubSeq(s, m + 1, m + k)[i] = s[(m + 1) + i - 1]
  BY <1>1, SubSeqProperties
<1>3. QED BY <1>2

\* A group is the same wherever its bytes stand.
LEMMA GroupMoved ==
  ASSUME NEW s \in Seq(Byte), NEW p \in 1..Len(s), NEW t \in Seq(Byte), NEW q \in 1..Len(t),
         p + GroupLen(s, p) <= Len(s) + 1, q + GroupLen(s, p) <= Len(t) + 1,
         \A i \in 0..(GroupLen(s, p) - 1) : t[q + i] = s[p + i]
  PROVE  GroupLen(t, q) = GroupLen(s, p) /\ Group(t, q) = Group(s, p)
<1>1. GroupLen(s, p) \in Nat /\ GroupLen(s, p) >= 1 /\ s[p] \in Nat /\ MaxRun \in Nat
  <2>1. s[p] \in Byte /\ Byte \subseteq Nat BY RunAssumption DEF Byte, Width
  <2>2. QED BY <2>1, GroupTakes, RunAssumption
<1>2. t[q] = s[p]
  <2>1. 0 \in 0..(GroupLen(s, p) - 1) /\ q + 0 = q /\ p + 0 = p BY <1>1
  <2>2. QED BY <2>1
<1>3. GroupLen(t, q) = GroupLen(s, p) BY <1>2 DEF GroupLen
<1>4. CASE s[p] <= MaxRun
  <2> DEFINE k == s[p] + 1
             a == SubSeq(t, q + 1, q + k)
             b == SubSeq(s, p + 1, p + k)
  <2> HIDE DEF k, a, b
  <2>1. k \in Nat /\ GroupLen(s, p) = k + 1
    <3>1. GroupLen(s, p) = s[p] + 2 BY <1>4 DEF GroupLen
    <3>2. QED BY <1>1, <3>1, SMTT(30) DEF k
  <2>2. Group(s, p) = b /\ Group(t, q) = a
    <3>1. p + s[p] + 1 = p + k /\ q + s[p] + 1 = q + k BY <1>1, SMTT(30) DEF k
    <3>2. QED BY <1>2, <1>4, <3>1 DEF Group, a, b
  <2>3. a \in Seq(Byte) /\ Len(a) = k /\ \A i \in 1..k : a[i] = t[q + i]
    <3>1. q \in Nat /\ q + k <= Len(t) BY <2>1, SMTT(30)
    <3>2. QED BY <2>1, <3>1, Part DEF a
  <2>4. b \in Seq(Byte) /\ Len(b) = k /\ \A i \in 1..k : b[i] = s[p + i]
    <3>1. p \in Nat /\ p + k <= Len(s) BY <2>1, SMTT(30)
    <3>2. QED BY <2>1, <3>1, Part DEF b
  <2>5. \A i \in 1..k : t[q + i] = s[p + i] BY <2>1, SMTT(30)
  <2>6. a = b BY <2>3, <2>4, <2>5, SeqEqual
  <2>7. QED BY <1>3, <2>2, <2>6
<1>5. CASE ~(s[p] <= MaxRun) /\ s[p] = MaxRun + 1 BY <1>2, <1>3, <1>5 DEF Group
<1>6. CASE ~(s[p] <= MaxRun) /\ s[p] # MaxRun + 1
  <2>1. GroupLen(s, p) = 2 BY <1>6 DEF GroupLen
  <2>2. t[q + 1] = s[p + 1] BY <2>1
  <2>3. QED BY <1>2, <1>3, <1>6, <2>2 DEF Group
<1>7. QED BY <1>4, <1>5, <1>6

\* Groups join in any order of joining.
LEMMA Joined ==
  ASSUME NEW a \in Seq(Byte), NEW b \in Seq(Byte), NEW c \in Seq(Byte)
  PROVE  (a \o b) \o c = a \o (b \o c)
BY ConcatAssociative

\* A group behind bytes that decode adds what it stands for.
LEMMA GroupAppended ==
  ASSUME NEW src \in Seq(Byte), NEW g \in Seq(Byte), g # <<>>, GroupLen(g, 1) = Len(g),
         Decoded(src)[1].ok
  PROVE  /\ Decoded(src \o g)[1].ok
         /\ Decoded(src \o g)[1].out = Decoded(src)[1].out \o Group(g, 1)
<1> DEFINE n == Len(src) + 1
           t == src \o g
           Follows(p) == Decoded(src)[p].ok =>
             Decoded(t)[p].ok /\ Decoded(t)[p].out = Decoded(src)[p].out \o Group(g, 1)
           S == {p \in 1..n : Follows(p)}
<1>1. /\ n \in Nat /\ n >= 1 /\ t \in Seq(Byte) /\ Len(t) = Len(src) + Len(g) /\ Len(g) >= 1
      /\ \A i \in 1..Len(src) : t[i] = src[i]
      /\ \A i \in 1..Len(g) : t[Len(src) + i] = g[i]
      /\ n \in 1..Len(t)
  OBVIOUS
<1>2. Group(g, 1) \in Seq(Byte) BY <1>1, GroupTakes
<1>3. Follows(n)
  <2>1. GroupLen(t, n) = Len(g) /\ Group(t, n) = Group(g, 1)
    <3>1. 1 + GroupLen(g, 1) <= Len(g) + 1 /\ n + GroupLen(g, 1) <= Len(t) + 1 /\ 1 \in 1..Len(g)
      BY <1>1
    <3>2. \A i \in 0..(GroupLen(g, 1) - 1) : t[n + i] = g[1 + i]
      <4>1. SUFFICES ASSUME NEW i \in 0..(Len(g) - 1) PROVE t[n + i] = g[1 + i] OBVIOUS
      <4>2. 1 + i \in 1..Len(g) /\ n + i = Len(src) + (1 + i) BY <1>1
      <4>3. QED BY <1>1, <4>2
    <3> HIDE DEF t, n
    <3>3. QED BY <1>1, <3>1, <3>2, GroupMoved, ZenonT(40)
  <2>2. Decoded(t)[Len(t) + 1].ok /\ Decoded(t)[Len(t) + 1].out = <<>> BY <1>1, DecodedEnd
  <2>3. /\ Decoded(t)[n].ok <=> Decoded(t)[Len(t) + 1].ok
        /\ Decoded(t)[n].out = Group(t, n) \o Decoded(t)[Len(t) + 1].out
    <3>1. n + Len(g) = Len(t) + 1 BY <1>1
    <3> HIDE DEF t, n
    <3>2. Len(t) + 1 = n + GroupLen(t, n) /\ Len(t) + 1 <= Len(t) + 1 BY <1>1, <2>1, <3>1
    <3>3. t \in Seq(Byte) /\ n \in 1..Len(t) BY <1>1
    <3>4. n + GroupLen(t, n) <= Len(t) + 1 BY <3>2
    <3>5. /\ Decoded(t)[n].ok <=> Decoded(t)[n + GroupLen(t, n)].ok
          /\ Decoded(t)[n].out = Group(t, n) \o Decoded(t)[n + GroupLen(t, n)].out
      BY <3>3, <3>4, DecodedGroup
    <3>6. QED BY <3>2, <3>5
  <2>4. Decoded(t)[n].ok /\ Decoded(t)[n].out = Group(g, 1) BY <1>2, <2>1, <2>2, <2>3
  <2>5. Decoded(src)[n].out = <<>> BY DecodedEnd
  <2>6. QED BY <1>2, <2>4, <2>5
<1>4. ASSUME NEW p \in 1..n, \A q \in (p + 1)..n : q \in S PROVE p \in S
  <2>1. CASE p = n BY <1>3, <2>1
  <2>2. CASE p < n
    <3> DEFINE next == p + GroupLen(src, p)
               rest == Decoded(src)[next].out
    <3>1. p \in 1..Len(src) /\ p \in 1..Len(t) BY <1>1, <2>2
    <3>2. GroupLen(src, p) \in Nat /\ next > p /\ next \in Nat BY <3>1, GroupTakes
    <3>3. SUFFICES ASSUME Decoded(src)[p].ok
                   PROVE  /\ Decoded(t)[p].ok
                          /\ Decoded(t)[p].out = Decoded(src)[p].out \o Group(g, 1)
      OBVIOUS
    <3>4. next <= n
      <4>1. ~(next > Len(src) + 1) BY <3>1, <3>3, DecodedGroup
      <4>2. QED BY <3>2, <4>1
    <3>5. /\ Decoded(src)[p].ok <=> Decoded(src)[next].ok
          /\ Decoded(src)[p].out = Group(src, p) \o rest
      BY <3>1, <3>4, DecodedGroup
    <3>6. Decoded(t)[next].ok /\ Decoded(t)[next].out = rest \o Group(g, 1)
      <4>1. next \in (p + 1)..n BY <3>2, <3>4
      <4>2. Follows(next) BY <1>4, <4>1
      <4>3. QED BY <3>3, <3>5, <4>2
    <3>7. Group(src, p) \in Seq(Byte) /\ rest \in Seq(Byte)
      <4>1. next \in 1..(Len(src) + 1) BY <3>2, <3>4
      <4>2. QED BY <3>1, <3>4, <4>1, GroupTakes, DecodedTyped, DecodingIs
    <3>8. GroupLen(t, p) = GroupLen(src, p) /\ Group(t, p) = Group(src, p)
      <4>1. p + GroupLen(src, p) <= Len(src) + 1 /\ p + GroupLen(src, p) <= Len(t) + 1
        BY <1>1, <3>2, <3>4
      <4>2. \A i \in 0..(GroupLen(src, p) - 1) : t[p + i] = src[p + i]
        <5>1. SUFFICES ASSUME NEW i \in 0..(GroupLen(src, p) - 1) PROVE p + i \in 1..Len(src)
          BY <1>1
        <5>2. QED BY <3>1, <3>2, <4>1
      <4> HIDE DEF t
      <4>3. QED BY <1>1, <3>1, <4>1, <4>2, GroupMoved
    <3>9. /\ Decoded(t)[p].ok <=> Decoded(t)[next].ok
          /\ Decoded(t)[p].out = Group(t, p) \o Decoded(t)[next].out
      <4>1. next = p + GroupLen(t, p) /\ next <= Len(t) + 1 BY <1>1, <3>2, <3>4, <3>8
      <4> HIDE DEF t, next
      <4>2. t \in Seq(Byte) /\ p \in 1..Len(t) BY <1>1, <3>1
      <4>3. p + GroupLen(t, p) <= Len(t) + 1 BY <4>1
      <4>4. /\ Decoded(t)[p].ok <=> Decoded(t)[p + GroupLen(t, p)].ok
            /\ Decoded(t)[p].out = Group(t, p) \o Decoded(t)[p + GroupLen(t, p)].out
        BY <4>2, <4>3, DecodedGroup
      <4>5. QED BY <4>1, <4>4
    <3>10. (Group(src, p) \o rest) \o Group(g, 1) = Group(src, p) \o (rest \o Group(g, 1))
      <4> HIDE DEF rest
      <4>1. QED BY <1>2, <3>7, Joined, ZenonT(40)
    <3>11. QED BY <3>5, <3>6, <3>8, <3>9, <3>10
  <2>3. QED BY <2>1, <2>2
<1>5. QED
  <2>1. \A p \in 1..n : (\A q \in (p + 1)..n : q \in S) => p \in S BY <1>4
  <2> HIDE DEF n, S
  <2>2. \A p \in 1..n : p \in S BY <1>1, <2>1, Backwards, Zenon
  <2>3. 1 \in S BY <1>1, <2>2
  <2>4. QED BY <2>3 DEF S

-----------------------------------------------------------------------------
(* Lossless encoding.                                                      *)

\* The bytes decode to the first k of the input.
Restores(s, k) == Decoded(s)[1].ok /\ Decoded(s)[1].out = SubSeq(data, 1, k)

\* Those of the input that are put, before the pending literals or repeats.
PutSoFar == pos - 1 - (IF state = "RAW" THEN Len(buf) ELSE repeats)

\* b is what follows the first k elements of d.
Follows(b, d, k) == \A i \in 1..Len(b) : b[i] = d[k + i]

\* What is put decodes to a prefix of the input, and what is pending follows it.
LossInv ==
  /\ at = "loop" =>
       /\ PutSoFar \in Nat
       /\ Restores(packed, PutSoFar)
       /\ state = "RAW" => Follows(buf, data, PutSoFar)
       /\ state = "RLE" => \A i \in 1..(repeats + 1) : data[PutSoFar + i] = data[pos]
  /\ RoundTrip

\* Elements behind a prefix make a longer prefix.
LEMMA PrefixGrows ==
  ASSUME NEW d \in Seq(Byte), NEW k \in Nat, NEW b \in Seq(Byte), k + Len(b) <= Len(d),
         Follows(b, d, k)
  PROVE  SubSeq(d, 1, k) \o b = SubSeq(d, 1, k + Len(b))
<1> DEFINE m == k + Len(b)
           s == SubSeq(d, 1, k)
           t == SubSeq(d, 1, m)
<1>1. s \in Seq(Byte) /\ Len(s) = k /\ \A i \in 1..k : s[i] = d[i]
  <2>1. 0 \in Nat /\ 0 + k <= Len(d) /\ 0 + 1 = 1 /\ 0 + k = k OBVIOUS
  <2>2. QED BY <2>1, Part
<1>2. t \in Seq(Byte) /\ Len(t) = m /\ \A i \in 1..m : t[i] = d[i]
  <2>1. 0 \in Nat /\ m \in Nat /\ 0 + m <= Len(d) /\ 0 + 1 = 1 /\ 0 + m = m OBVIOUS
  <2> HIDE DEF m
  <2>2. QED BY <2>1, Part
<1> HIDE DEF s, t
<1>3. m \in Nat /\ m = k + Len(b) OBVIOUS
<1> HIDE DEF m
<1> DEFINE u == s \o b
<1>4. u \in Seq(Byte) /\ Len(u) = Len(s) + Len(b)
  <2>1. s \in Seq(Byte) BY <1>1
  <2>2. QED BY <2>1
<1>5. ASSUME NEW i \in 1..m, i <= k PROVE u[i] = d[i]
  BY <1>1, <1>5
<1>6. ASSUME NEW i \in 1..m, i > k PROVE u[i] = d[i]
  <2>1. i - k \in 1..Len(b) /\ k + (i - k) = i BY <1>3, <1>6
  <2>2. u[i] = b[i - k] BY <1>1, <1>3, <1>6
  <2>3. QED BY <2>1, <2>2 DEF Follows
<1> HIDE DEF u
<1>7. \A i \in 1..m : u[i] = d[i] BY <1>3, <1>5, <1>6
<1>8. Len(u) = m BY <1>1, <1>3, <1>4
<1>9. u = t BY <1>2, <1>4, <1>7, <1>8, SeqEqual
<1>10. QED BY <1>9 DEF s, t, m, u

\* A literal run is a group that stands for its bytes ...
LEMMA LiteralGroup ==
  ASSUME NEW b \in Seq(Byte), b # <<>>, Len(b) <= MaxRun + 1
  PROVE  /\ Literal(b) \in Seq(Byte) /\ Literal(b) # <<>>
         /\ GroupLen(Literal(b), 1) = Len(Literal(b)) /\ Group(Literal(b), 1) = b
<1> DEFINE g == <<Len(b) - 1>> \o b
<1>1. Literal(b) = g BY DEF Literal
<1>2. Len(b) - 1 \in Byte /\ Len(b) - 1 <= MaxRun /\ Len(b) >= 1 /\ MaxRun \in Nat
  BY RunAssumption DEF Byte, Width
<1>3. /\ g \in Seq(Byte) /\ Len(g) = Len(b) + 1 /\ g[1] = Len(b) - 1
      /\ \A i \in 1..Len(b) : g[1 + i] = b[i]
  BY <1>2
<1> HIDE DEF g
<1>4. GroupLen(g, 1) = Len(g) BY <1>2, <1>3 DEF GroupLen
<1>5. SubSeq(g, 1 + 1, 1 + Len(b)) = b
  <2> DEFINE s == SubSeq(g, 1 + 1, 1 + Len(b))
  <2>1. s \in Seq(Byte) /\ Len(s) = Len(b) /\ \A i \in 1..Len(b) : s[i] = g[1 + i]
    BY <1>3, Part
  <2> HIDE DEF s
  <2>2. s = b BY <1>3, <2>1, SeqEqual
  <2>3. QED BY <2>2 DEF s
<1>6. Group(g, 1) = b
  <2>1. 1 + 1 = 1 + 1 /\ 1 + g[1] + 1 = 1 + Len(b) BY <1>2, <1>3
  <2>2. QED BY <1>2, <1>3, <1>5, <2>1 DEF Group
<1>7. g # <<>> BY <1>3
<1>8. QED BY <1>1, <1>3, <1>4, <1>6, <1>7

\* ... and a repeat run one that stands for its value.
LEMMA RunGroup ==
  ASSUME NEW n \in 2..(MaxRun + 1), NEW v \in Byte
  PROVE  /\ Run(n, v) \in Seq(Byte) /\ Run(n, v) # <<>>
         /\ GroupLen(Run(n, v), 1) = Len(Run(n, v))
         /\ Group(Run(n, v), 1) = [i \in 1..n |-> v]
<1> DEFINE h == Width - (n - 1)
<1>1. /\ MaxRun \in Nat /\ n \in Nat /\ h \in Byte /\ h \in Nat /\ h > MaxRun + 1
      /\ Width - h + 1 = n
  BY RunAssumption DEF Byte, Width
<1>2. Run(n, v) = <<h, v>> BY DEF Run
<1> HIDE DEF h
<1>3. <<h, v>> \in Seq(Byte) /\ Len(<<h, v>>) = 2 /\ <<h, v>>[1] = h /\ <<h, v>>[2] = v
  BY <1>1
<1>4. ~(h <= MaxRun) /\ h # MaxRun + 1 BY <1>1
<1>5. GroupLen(<<h, v>>, 1) = 2 BY <1>3, <1>4 DEF GroupLen
<1>6. Group(<<h, v>>, 1) = [i \in 1..(Width - h + 1) |-> v] BY <1>3, <1>4 DEF Group
<1>7. <<h, v>> # <<>> BY <1>3
<1>8. QED BY <1>1, <1>2, <1>3, <1>5, <1>6, <1>7

\* Putting the group of the next bytes of the input restores those as well.
LEMMA GroupRestores ==
  ASSUME data \in Seq(Byte), packed \in Seq(Byte), NEW k \in Nat, Restores(packed, k),
         NEW g \in Seq(Byte), g # <<>>, GroupLen(g, 1) = Len(g), NEW b \in Seq(Byte),
         Group(g, 1) = b, k + Len(b) <= Len(data),
         Follows(b, data, k), Put(g)
  PROVE  Restores(packed', k + Len(b))
<1>1. packed' = packed \o g BY DEF Put
<1>2. Decoded(packed)[1].ok BY DEF Restores
<1>3. /\ Decoded(packed \o g)[1].ok
      /\ Decoded(packed \o g)[1].out = Decoded(packed)[1].out \o Group(g, 1)
  BY <1>2, GroupAppended
<1>4. Decoded(packed')[1].out = SubSeq(data, 1, k) \o b BY <1>1, <1>3 DEF Restores
<1>5. SubSeq(data, 1, k) \o b = SubSeq(data, 1, k + Len(b)) BY PrefixGrows
<1>6. QED BY <1>1, <1>3, <1>4, <1>5 DEF Restores

\* So does a literal run of them, which may be empty,
LEMMA LiteralRestores ==
  ASSUME data \in Seq(Byte), packed \in Seq(Byte), NEW k \in Nat, Restores(packed, k),
         NEW b \in Seq(Byte), Len(b) <= MaxRun + 1, k + Len(b) <= Len(data),
         Follows(b, data, k), Put(Literal(b))
  PROVE  Restores(packed', k + Len(b))
<1>1. CASE b = <<>>
  <2>1. packed' = packed \o <<>> BY <1>1 DEF Put, Literal
  <2>2. packed' = packed BY <2>1
  <2>3. k + Len(b) = k BY <1>1
  <2>4. QED BY <2>2, <2>3
<1>2. CASE b # <<>> BY <1>2, LiteralGroup, GroupRestores
<1>3. QED BY <1>1, <1>2

\* and a run of two or more equal ones.
LEMMA RunRestores ==
  ASSUME data \in Seq(Byte), packed \in Seq(Byte), NEW k \in Nat, Restores(packed, k),
         NEW n \in 2..(MaxRun + 1), NEW v \in Byte, k + n <= Len(data),
         \A i \in 1..n : data[k + i] = v, Put(Run(n, v))
  PROVE  Restores(packed', k + n)
<1> DEFINE b == [i \in 1..n |-> v]
<1>1. n \in Nat BY RunAssumption
<1>2. b \in Seq(Byte) /\ Len(b) = n BY <1>1
<1>3. Follows(b, data, k)
  <2>1. \A i \in 1..n : b[i] = data[k + i] OBVIOUS
  <2> HIDE DEF b
  <2>2. QED BY <1>2, <2>1 DEF Follows
<1>4. Group(Run(n, v), 1) = b BY RunGroup
<1> HIDE DEF b
<1>5. Restores(packed', k + Len(b)) BY <1>2, <1>3, <1>4, RunGroup, GroupRestores
<1>6. QED BY <1>2, <1>5

\* Nothing is put at first, and it decodes to nothing.
LEMMA InitLoss == Init /\ TypeOK => LossInv
<1> SUFFICES ASSUME Init, TypeOK PROVE LossInv
  OBVIOUS
<1>1. PutSoFar = 0 /\ Len(buf) = 0 /\ state = "RAW"
  <2>1. Len(buf) = 0 /\ pos = 1 /\ state = "RAW"
    BY DEF Init
  <2> QED
    BY <2>1 DEF PutSoFar
<1>2. Restores(packed, 0)
  <2>1. packed \in Seq(Byte) /\ Len(packed) + 1 = 1
    BY DEF Init
  <2>2. Decoded(packed)[1].ok /\ Decoded(packed)[1].out = <<>>
    BY <2>1, DecodedEnd
  <2>3. SubSeq(data, 1, 0) = <<>>
    BY SubSeqEmpty
  <2> QED
    BY <2>2, <2>3 DEF Restores
<1> QED
  BY <1>1, <1>2 DEF Init, LossInv, RoundTrip, Follows

\* In the loop, what is restored and what is pending are all there is to keep.
LEMMA LossKept ==
  ASSUME NEW k \in Nat, at' = "loop", data' = data, PutSoFar' = k, Restores(packed', k),
         state' = "RAW" => Follows(buf', data, k),
         state' = "RLE" => \A i \in 1..(repeats' + 1) : data[k + i] = data[pos']
  PROVE  LossInv'
<1>1. Restores(packed, PutSoFar)'
  BY DEF Restores
<1>2. state' = "RAW" => Follows(buf, data, PutSoFar)'
  BY DEF Follows
<1>3. state' = "RLE" => (\A i \in 1..(repeats + 1) : data[PutSoFar + i] = data[pos])'
  BY DEF Follows
<1>4. at' # "done"
  OBVIOUS
<1> QED
  BY <1>1, <1>2, <1>3, <1>4 DEF LossInv, RoundTrip

\* Every step of the encoder puts what restores the next bytes of the input.
LEMMA NextLoss == BoundsInv /\ LossInv /\ [Next]_vars => LossInv'
<1> SUFFICES ASSUME BoundsInv, LossInv, [Next]_vars PROVE LossInv'
  OBVIOUS
<1> DEFINE k == PutSoFar
<1>1. /\ data \in Seq(Byte) /\ buf \in Seq(Byte) /\ packed \in Seq(Byte)
      /\ pos \in Nat /\ pos >= 1 /\ Len(data) \in Nat /\ Len(buf) \in Nat
      /\ repeats \in 0..MaxRun /\ Len(buf) <= MaxRun /\ MaxRun \in Nat /\ MaxRun >= 2
  <2>1. data \in Seq(Bytes) /\ buf \in Seq(Bytes) /\ packed \in Seq(Byte)
    BY DEF BoundsInv, TypeOK, Byte
  <2>2. data \in Seq(Byte) /\ buf \in Seq(Byte)
    BY <2>1, BytesAreByte
  <2>3. pos \in Nat /\ pos >= 1 /\ Len(data) \in Nat /\ Len(buf) \in Nat
    BY <2>1 DEF BoundsInv, TypeOK
  <2>4. repeats \in 0..MaxRun /\ Len(buf) <= MaxRun /\ MaxRun \in Nat /\ MaxRun >= 2
    BY RunAssumption DEF BoundsInv, TypeOK
  <2> QED
    BY <2>1, <2>2, <2>3, <2>4
<1>2. /\ state = "RAW" => k = pos - 1 - Len(buf)
      /\ state # "RAW" => k = pos - 1 - repeats
  BY DEF PutSoFar
<1>3. at = "loop" =>
        /\ k \in Nat /\ Restores(packed, k)
        /\ state = "RAW" => Follows(buf, data, k)
        /\ state = "RLE" => \A i \in 1..(repeats + 1) : data[k + i] = data[pos]
        /\ state = "RLE" => repeats >= 1 /\ buf = <<>>
        /\ data # <<>> => pos <= Len(data)
  BY DEF LossInv, BoundsInv, Charged
<1> HIDE DEF k
<1>4. Encoding => data[pos] \in Byte
  BY <1>1 DEF Encoding
<1>5. CASE StartRun
  <2>1. Restores(packed', k + Len(buf)) /\ k + Len(buf) = pos - 1
    BY <1>1, <1>2, <1>3, <1>5, LiteralRestores DEF StartRun, Encoding
  <2>2. PutSoFar' = pos - 1 /\ pos - 1 \in Nat
    BY <1>1, <1>5 DEF StartRun, PutSoFar
  <2>3. \A i \in 1..(1 + 1) : data[(pos - 1) + i] = data[pos + 1]
    BY <1>1, <1>5, SMTT(30) DEF StartRun, Repeats
  <2> QED
    BY <1>5, <2>1, <2>2, <2>3, LossKept DEF StartRun, Encoding
<1>6. CASE ExtendRun
  <2>1. /\ at = "loop" /\ at' = "loop" /\ state = "RLE" /\ state' = "RLE" /\ data' = data
        /\ pos' = pos + 1 /\ pos < Len(data) /\ data[pos] = data[pos + 1]
    BY <1>6 DEF ExtendRun, Encoding, Repeats
  <2>2. k \in Nat /\ k + repeats + 1 = pos /\ \A i \in 1..(repeats + 1) : data[k + i] = data[pos]
    BY <1>1, <1>2, <1>3, <2>1
  <2>3. CASE repeats = MaxRun
    <3>1. Put(Run(repeats, data[pos])) /\ repeats' = 1
      BY <1>6, <2>3 DEF ExtendRun
    <3>2. Restores(packed', k + repeats)
      <4>1. repeats \in 2..(MaxRun + 1) /\ k + repeats <= Len(data) /\ data[pos] \in Byte
        BY <1>1, <2>1, <2>2, <2>3
      <4>2. ASSUME NEW i \in 1..repeats PROVE data[k + i] = data[pos]
        <5>1. i \in 1..(repeats + 1)
          BY <1>1
        <5> QED
          BY <2>2, <5>1
      <4> QED
        BY <1>1, <1>3, <2>1, <2>2, <3>1, <4>1, <4>2, RunRestores
    <3>3. PutSoFar' = k + repeats /\ k + repeats \in Nat
      BY <1>1, <2>1, <2>2, <3>1 DEF PutSoFar
    <3>4. \A i \in 1..(1 + 1) : data[(k + repeats) + i] = data[pos + 1]
      BY <1>1, <2>1, <2>2
    <3> QED
      BY <2>1, <3>1, <3>2, <3>3, <3>4, LossKept
  <2>4. CASE repeats # MaxRun
    <3>1. packed' = packed \o <<>> /\ repeats' = repeats + 1
      BY <1>6, <2>4 DEF ExtendRun, Put
    <3>2. packed' = packed
      BY <1>1, <3>1
    <3>3. PutSoFar' = k
      BY <1>1, <2>1, <2>2, <3>1 DEF PutSoFar
    <3>4. \A i \in 1..(repeats' + 1) : data[k + i] = data[pos']
      <4> SUFFICES ASSUME NEW i \in 1..(repeats + 2) PROVE data[k + i] = data[pos]
        BY <2>1, <3>1, <1>1
      <4>1. CASE i = repeats + 2
        BY <1>1, <2>1, <2>2, <4>1, SMTT(30)
      <4>2. CASE i # repeats + 2
        <5>1. i \in 1..(repeats + 1)
          BY <1>1, <4>2
        <5> QED
          BY <2>2, <5>1
      <4> QED
        BY <4>1, <4>2
    <3> QED
      BY <1>3, <2>1, <2>2, <3>2, <3>3, <3>4, LossKept
  <2> QED
    BY <2>3, <2>4
<1>7. CASE EndRun
  <2>1. /\ at = "loop" /\ at' = "loop" /\ state = "RLE" /\ state' = "RAW" /\ data' = data
        /\ pos' = pos + 1 /\ pos < Len(data) /\ buf' = <<>> /\ repeats' = 0
        /\ Put(Run(repeats + 1, data[pos]))
    BY <1>3, <1>7 DEF EndRun, Encoding
  <2>2. k \in Nat /\ k + repeats + 1 = pos /\ \A i \in 1..(repeats + 1) : data[k + i] = data[pos]
    BY <1>1, <1>2, <1>3, <2>1
  <2>3. Restores(packed', k + (repeats + 1))
    <3>1. repeats + 1 \in 2..(MaxRun + 1) /\ k + (repeats + 1) <= Len(data) /\ data[pos] \in Byte
      BY <1>1, <1>3, <2>1, <2>2
    <3> QED
      BY <1>1, <1>3, <2>1, <2>2, <3>1, RunRestores
  <2>4. PutSoFar' = pos /\ Follows(buf', data, pos) /\ k + (repeats + 1) = pos
    BY <1>1, <2>1, <2>2 DEF PutSoFar, Follows
  <2> QED
    BY <1>1, <2>1, <2>3, <2>4, LossKept
<1>8. CASE AddLiteral
  <2>1. /\ at = "loop" /\ at' = "loop" /\ state = "RAW" /\ state' = "RAW" /\ data' = data
        /\ pos' = pos + 1 /\ pos < Len(data)
    BY <1>8 DEF AddLiteral, Encoding
  <2>2. k \in Nat /\ k + Len(buf) + 1 = pos /\ Follows(buf, data, k) /\ Restores(packed, k)
    BY <1>1, <1>2, <1>3, <2>1
  <2>3. CASE Len(buf) = MaxRun
    <3>1. Put(Literal(buf)) /\ buf' = <<data[pos]>>
      BY <1>8, <2>3 DEF AddLiteral
    <3>2. Restores(packed', k + Len(buf))
      BY <1>1, <2>1, <2>2, <3>1, LiteralRestores, SMTT(30)
    <3>3. Len(buf') = 1 /\ buf'[1] = data[pos]
      BY <3>1
    <3>4. PutSoFar' = k + Len(buf) /\ k + Len(buf) \in Nat
      BY <1>1, <2>1, <2>2, <3>3 DEF PutSoFar
    <3>5. Follows(buf', data, k + Len(buf))
      BY <1>1, <2>2, <3>3 DEF Follows
    <3> QED
      BY <2>1, <3>2, <3>4, <3>5, LossKept
  <2>4. CASE Len(buf) # MaxRun
    <3>1. packed' = packed \o <<>> /\ buf' = Append(buf, data[pos])
      BY <1>8, <2>4 DEF AddLiteral, Put
    <3>2. packed' = packed
      BY <1>1, <3>1
    <3>3. /\ Len(buf') = Len(buf) + 1 /\ buf'[Len(buf) + 1] = data[pos]
          /\ \A i \in 1..Len(buf) : buf'[i] = buf[i]
      BY <1>1, <3>1
    <3>4. PutSoFar' = k
      BY <1>1, <2>1, <2>2, <3>3 DEF PutSoFar
    <3>5. Follows(buf', data, k)
      <4> SUFFICES ASSUME NEW i \in 1..(Len(buf) + 1) PROVE buf'[i] = data[k + i]
        BY <3>3 DEF Follows
      <4>1. CASE i = Len(buf) + 1
        BY <1>1, <2>2, <3>3, <4>1
      <4>2. CASE i # Len(buf) + 1
        <5>1. i \in 1..Len(buf)
          BY <1>1, <4>2
        <5> QED
          BY <2>2, <3>3, <5>1 DEF Follows
      <4> QED
        BY <4>1, <4>2
    <3> QED
      BY <2>1, <2>2, <3>2, <3>4, <3>5, LossKept
  <2> QED
    BY <2>3, <2>4
<1>9. CASE Finish
  <2>1. at = "loop" /\ pos >= Len(data) /\ data' = data /\ Put(Last) /\ at' = "done"
    BY <1>9 DEF Finish
  <2>2. Restores(packed', Len(data))
    <3>1. CASE data = <<>>
      <4>1. Len(data) = 0 /\ pos = 1
        BY <2>1, <3>1 DEF BoundsInv, Charged
      <4>2. k = 0
        BY <1>1, <1>2, <1>3, <2>1, <4>1 DEF BoundsInv, TypeOK
      <4>3. packed' = packed \o <<>>
        BY <2>1, <3>1 DEF Put, Last
      <4>4. packed' = packed
        BY <1>1, <4>3
      <4> QED
        BY <1>3, <2>1, <4>1, <4>2, <4>4
    <3>2. CASE data # <<>> /\ state = "RAW"
      <4> DEFINE b == Append(buf, data[pos])
      <4>1. pos = Len(data) /\ data[pos] \in Byte
        BY <1>1, <1>3, <2>1, <3>2
      <4>2. /\ b \in Seq(Byte) /\ Len(b) = Len(buf) + 1 /\ b[Len(buf) + 1] = data[pos]
            /\ \A i \in 1..Len(buf) : b[i] = buf[i]
        BY <1>1, <4>1
      <4>3. k \in Nat /\ k + Len(buf) + 1 = pos /\ Follows(buf, data, k) /\ Restores(packed, k)
        BY <1>1, <1>2, <1>3, <2>1, <3>2
      <4>4. Put(Literal(b))
        BY <2>1, <3>2 DEF Last
      <4> HIDE DEF b
      <4>5. Follows(b, data, k)
        <5> SUFFICES ASSUME NEW i \in 1..(Len(buf) + 1) PROVE b[i] = data[k + i]
          BY <4>2 DEF Follows
        <5>1. CASE i = Len(buf) + 1
          BY <1>1, <4>2, <4>3, <5>1
        <5>2. CASE i # Len(buf) + 1
          <6>1. i \in 1..Len(buf)
            BY <1>1, <5>2
          <6> QED
            BY <4>2, <4>3, <6>1 DEF Follows
        <5> QED
          BY <5>1, <5>2
      <4>6. Len(b) = Len(buf) + 1 /\ b \in Seq(Byte)
        BY <4>2
      <4>7. Len(b) <= MaxRun + 1 /\ k + Len(b) = Len(data)
        BY <1>1, <4>1, <4>3, <4>6
      <4>8. k + Len(b) <= Len(data)
        BY <1>1, <4>7
      <4>9. Restores(packed', k + Len(b))
        BY <1>1, <4>3, <4>4, <4>5, <4>6, <4>7, <4>8, LiteralRestores
      <4> QED
        BY <4>7, <4>9
    <3>3. CASE data # <<>> /\ state = "RLE"
      <4>1. pos = Len(data) /\ data[pos] \in Byte /\ repeats >= 1
        BY <1>1, <1>3, <2>1, <3>3
      <4>2. k \in Nat /\ k + (repeats + 1) = pos /\ Restores(packed, k)
            /\ \A i \in 1..(repeats + 1) : data[k + i] = data[pos]
        BY <1>1, <1>2, <1>3, <2>1, <3>3
      <4>3. Put(Run(repeats + 1, data[pos]))
        BY <2>1, <3>3 DEF Last
      <4>4. repeats + 1 \in 2..(MaxRun + 1) /\ k + (repeats + 1) <= Len(data)
        BY <1>1, <4>1, <4>2
      <4>5. Restores(packed', k + (repeats + 1))
        BY <1>1, <4>1, <4>2, <4>3, <4>4, RunRestores
      <4> QED
        BY <4>1, <4>2, <4>5
    <3> QED
      BY <3>1, <3>2, <3>3 DEF BoundsInv, TypeOK
  <2>3. SubSeq(data, 1, Len(data)) = data
    BY <1>1
  <2>4. Decode(packed', Len(data)) = [ok |-> TRUE, out |-> data]
    <3>1. Decoded(packed')[1].ok /\ Decoded(packed')[1].out = data
      BY <2>2, <2>3 DEF Restores
    <3>2. Len(data) <= Len(data)
      BY <1>1
    <3> QED
      BY <3>1, <3>2 DEF Decode
  <2> QED
    BY <2>1, <2>4 DEF LossInv, RoundTrip
<1>10. CASE Overrun
  BY <1>10 DEF Overrun, LossInv, RoundTrip
<1>11. CASE UNCHANGED vars
  BY <1>11 DEF vars, LossInv, RoundTrip, Restores, PutSoFar
<1> QED
  BY <1>5, <1>6, <1>7, <1>8, <1>9, <1>10, <1>11 DEF Next

\* The encoding is lossless, for inputs of any length over any bytes and for every
\* MAX_LENGTH (ptouch_raster.c:87).
THEOREM EncodingIsLossless == Spec => []RoundTrip
<1>1. Init => LossInv
  BY InitBounds, InitLoss DEF BoundsInv
<1>2. BoundsInv /\ LossInv /\ [Next]_vars => LossInv'
  BY NextLoss
<1>3. LossInv => RoundTrip
  BY DEF LossInv
<1> QED
  BY <1>1, <1>2, <1>3, EncoderBounds, PTL DEF Spec
=============================================================================
