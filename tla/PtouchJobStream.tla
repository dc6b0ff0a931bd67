---------------------------- MODULE PtouchJobStream ----------------------------
(***************************************************************************)
(* The bytes of a job: the growing buffer of src/ptouch_raster.c, the       *)
(* commands that are appended to it, and the table of frame ends by which   *)
(* the driver cuts the stream into transfers.  Each step of PtouchJob that  *)
(* marks a frame is here the whole command: its appends and its entry in    *)
(* the table, any of which may have to grow what it writes to.             *)
(*                                                                         *)
(* Bytes are counted, not kept.  size_t is SizeBits wide, so that a small   *)
(* instance meets the wraps that the code tests for.  realloc may fail      *)
(* whenever it is called; a failure ends the job.                           *)
(***************************************************************************)
EXTENDS PtouchJob

CONSTANTS
  SizeBits,       \* the width of size_t
  SizeMax,        \* SIZE_MAX
  FirstCapacity,  \* 128 in the code
  FirstTable,     \* 64 in the code
  WordSize,       \* sizeof(size_t)
  PackedSizes(_)  \* what a row of so many bytes, not blank, may be packed to

ASSUME SizeAssumption ==
  /\ SizeBits \in Nat /\ SizeMax \in Nat /\ SizeMax = 2^SizeBits - 1
  /\ FirstCapacity \in 1..SizeMax
  /\ WordSize \in 1..SizeMax /\ FirstTable \in 1..(SizeMax \div WordSize)
ASSUME PackedAssumption ==
  \A r \in Requests : PackedSizes(RowBytes(r.profile)) \subseteq Nat

VARIABLES
  buf,           \* the stream: len, cap (0: no data) and oom
  ends,          \* frame_ends, as far as they are written
  table          \* frame_capacity

streamVars == <<buf, ends, table>>
allVars == <<vars, streamVars>>

EmptyBuffer == [len |-> 0, cap |-> 0, oom |-> FALSE]

-----------------------------------------------------------------------------
(* The buffer.                                                             *)

\* What a capacity becomes by doubling
Doublings(from) == {from * 2^k : k \in 0..SizeBits}

\* The capacity that the loop of ptouch_buf_reserve ends with
Grown(cap, need) ==
  LET fit == {c \in Doublings(IF cap = 0 THEN FirstCapacity ELSE cap) : c \in need..SizeMax}
  IN  IF fit = {} THEN need ELSE CHOOSE c \in fit : \A d \in fit : c <= d

\* Mutant: the sum with the appended length wraps.
PutWrapping(b, n) ==
  LET need == (b.len + n) % (SizeMax + 1)
  IN  IF b.oom THEN b
      ELSE [b EXCEPT !.len = @ + n, !.cap = IF need <= @ THEN @ ELSE Grown(@, need)]

\* ptouch_buf_append of n bytes: the sum is tested before the capacity, and oom is final.
Put(b, n) ==
  IF b.oom \/ n > SizeMax - b.len THEN [b EXCEPT !.oom = TRUE]
  ELSE [b EXCEPT !.len = @ + n,
                 !.cap = IF b.len + n <= @ THEN @ ELSE Grown(@, b.len + n)]

\* A command of fixed size.  The margin of the D460 family is two bytes longer.
CommandSize(f) ==
  CASE f = "info" -> 13
    [] f = "margin" -> IF req.profile.finalize_variant = "d460" THEN 7 ELSE 5
    [] f = "compression" -> 2
    [] f \in {"printFeed", "printChain"} -> 1
    [] OTHER -> 4

\* What a row may encode to: "Z" (0 here) if it is blank and packed, or 'G', two bytes
\* of length and the payload, which of a blank row is one run.
Payloads(f) ==
  IF req.profile.encoding = "raw" THEN {RowBytes(req.profile)}
  ELSE IF f = "blank"
  THEN {IF req.profile.blank_line_shortcut THEN 0 ELSE 2}
  ELSE (IF req.profile.blank_line_shortcut THEN {0} ELSE {2}) \cup PackedSizes(RowBytes(req.profile))

PutRow(b, n) ==
  IF n = 0 THEN Put(b, 1) ELSE Put(Put(Put(Put(b, 1), 1), 1), n)

\* The streams that the next frame may lead to if memory lasts: the reset is 100
\* zeroes and the init command.
Written ==
  IF NextFrame \in {"image", "blank"} THEN {PutRow(buf, n) : n \in Payloads(NextFrame)}
  ELSE IF NextFrame = "reset" THEN {Put(Put(buf, 100), 2)}
  ELSE {Put(buf, CommandSize(NextFrame))}

-----------------------------------------------------------------------------
(* The table of frame ends.                                                *)

TableFull == Len(ends) = table

\* The next capacity of the table, which doubles
NextTable == IF table = 0 THEN FirstTable ELSE (table * 2) % (SizeMax + 1)

TableMayGrow == NextTable >= table /\ NextTable <= SizeMax \div WordSize

\* Mutant: the frame is marked before its command is appended.
MarkEndBefore(b) ==
  /\ ~b.oom /\ (TableFull => TableMayGrow)
  /\ buf' = b /\ ends' = Append(ends, buf.len)
  /\ table' = IF TableFull THEN NextTable ELSE table

\* mark_frame, after the command has been written
MarkEnd(b) ==
  /\ ~b.oom /\ (TableFull => TableMayGrow)
  /\ buf' = b /\ ends' = Append(ends, b.len)
  /\ table' = IF TableFull THEN NextTable ELSE table

\* A size would overflow, or an allocation is asked for, which may fail.
MayFail(b) == b.oom \/ b.cap # buf.cap \/ TableFull

-----------------------------------------------------------------------------

WriteFrame ==
  /\ at \in {"setup", "rows"}
  /\ \E b \in Written : MarkEnd(b)
  /\ EmitSetup \/ EmitRow \/ EmitPrint

\* ptouch_print_job_free
FreeJob ==
  /\ at \in {"setup", "rows"}
  /\ \E b \in Written : MayFail(b)
  /\ AllocationFails
  /\ buf' = EmptyBuffer /\ ends' = <<>> /\ table' = 0

StreamInit == Init /\ buf = EmptyBuffer /\ ends = <<>> /\ table = 0

StreamNext ==
  \/ Reject /\ UNCHANGED streamVars
  \/ Layout /\ UNCHANGED streamVars
  \/ WriteFrame
  \/ FreeJob

StreamSpec == StreamInit /\ [][StreamNext]_allVars

-----------------------------------------------------------------------------
(* Properties.                                                             *)

\* ptouch_print_job_frames_valid, by which the driver refuses a job
FramesValid ==
  /\ buf.cap > 0 /\ buf.len > 0 /\ table > 0 /\ ends # <<>>
  /\ Len(ends) <= table /\ ends[Len(ends)] = buf.len
  /\ \A i \in 1..Len(ends) : ends[i] > (IF i = 1 THEN 0 ELSE ends[i - 1]) /\ ends[i] <= buf.len

\* Whatever the sizes of its rows and wherever the buffers had to grow, a job that the
\* builder hands over is one the driver's validator takes: one end for each frame, and
\* no transfer of a framed job begins or ends inside a command.
BuiltJobIsFramed ==
  at = "done" => FramesValid /\ Len(ends) = Len(frames)

\* Nothing is written past the memory that was asked for, and no size of the stream or
\* of the table wraps, at any width of size_t: a wrapped sum would pass for room.
WritesWithinMemory ==
  /\ buf.len <= buf.cap /\ buf.cap <= SizeMax
  /\ Len(ends) <= table /\ table * WordSize <= SizeMax
=============================================================================
