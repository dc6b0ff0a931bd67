---------------------------- MODULE PtouchJob_proofs ----------------------------
(***************************************************************************)
(* A print job, for every head, tape, bitmap and option, for ints and a     *)
(* size_t of every width, and for every size that a row may encode to.      *)
(*                                                                         *)
(* The layout: it is computed once, from arguments that passed the tests,   *)
(* and stays (LayoutInv), so nothing overflows, the image lies in the        *)
(* tape's window, and none that fits it is refused.  The frames: rows come   *)
(* where the layout has them and nowhere else (FramesInv).                  *)
(*                                                                         *)
(* The bytes: the stream implements the job (StreamImplementsJob), so what   *)
(* is proved of frames is so of the job with its bytes.  The rest is one     *)
(* lemma about the buffer, PutStaysWithin: an append that does not set oom  *)
(* adds its bytes to len and leaves them within cap, and cap within size_t; *)
(* the frames' ends then increase because every command has a byte at       *)
(* least (WrittenGrows).                                                   *)
(***************************************************************************)
EXTENDS PtouchJobStream, SequenceTheorems, FiniteSetTheorems, WellFoundedInduction, TLAPS

LayoutInv ==
  /\ req \in Requests
  /\ at \in {"setup", "rows", "done"} =>
       /\ Admitted(req)
       /\ lead = LogicalLead(req) * PadScale(req) /\ tail = LogicalTail(req) * PadScale(req)
  /\ at = "refused" => ~Admitted(req)
  /\ at \in {"check", "setup", "rows", "done", "refused", "failed"}

\* The arguments are ints.
LEMMA RequestInts ==
  ASSUME NEW r \in Requests
  PROVE  /\ r.w \in 1..IntMax /\ r.h \in Nat /\ r.min \in 0..IntMax /\ r.pad \in 0..IntMax
         /\ r.profile \in Profiles /\ IntMax \in Nat
BY IntAssumption, RequestAssumption DEF RequestType

\* A printer with a recipe feeds one row or two to a 180-dpi dot.
LEMMA ScaleOfRecipe ==
  ASSUME NEW r \in Requests, HasPrintRecipe(r.profile)
  PROVE  PadScale(r) \in {1, 2}
BY DEF HasPrintRecipe, PadScale

\* The printable dots of a tape on a head are no more than the head's.
LEMMA DotsFitHead ==
  ASSUME NEW p \in Profiles, NEW mm \in KnownWidths
  PROVE  PrintableDots(p, mm) \in Nat /\ PrintableDots(p, mm) <= p.head_dots
<1>1. s_tapes[mm].dots_180 \in Nat /\ s_tapes[mm].dots_360 \in Nat
  BY DEF s_tapes, KnownWidths
<1>2. p.head_dots \in Nat
  BY DEF Profiles
<1> QED
  BY <1>1, <1>2 DEF PrintableDots, Smaller

\* The blank rows to either side are numbers.
LEMMA BlanksAreNat ==
  ASSUME NEW r \in Requests
  PROVE  LogicalLead(r) \in Nat /\ LogicalTail(r) \in Nat
<1>1. r.w \in 1..IntMax /\ r.min \in 0..IntMax /\ r.pad \in 0..IntMax /\ IntMax \in Nat
  BY RequestInts
<1>2. CASE Centers(r)
  <2>1. TotalBlank(r) \in Int /\ TotalBlank(r) > r.pad /\ ~r.chain
    BY <1>1, <1>2 DEF Centers, TotalBlank
  <2>2. LogicalTail(r) = Larger((TotalBlank(r) + 1) \div 2, r.pad)
    BY <1>2, <2>1 DEF LogicalTail
  <2>3. LogicalTail(r) \in Nat /\ LogicalTail(r) <= TotalBlank(r)
    BY <1>1, <2>1, <2>2 DEF Larger
  <2> QED
    BY <1>2, <2>1, <2>3 DEF LogicalLead
<1>3. CASE ~Centers(r)
  BY <1>1, <1>3 DEF LogicalLead, LogicalTail
<1> QED
  BY <1>2, <1>3

\* The rows of an admitted job are ints, and so is their sum.
LEMMA RowsAreInts ==
  ASSUME NEW r \in Requests, Admitted(r)
  PROVE  /\ LogicalLead(r) * PadScale(r) \in 0..IntMax
         /\ LogicalTail(r) * PadScale(r) \in 0..IntMax
         /\ LogicalLead(r) * PadScale(r) + r.w + LogicalTail(r) * PadScale(r) \in 0..IntMax
<1>1. /\ r.w \in 1..IntMax /\ PadScale(r) \in {1, 2} /\ IntMax \in Nat
      /\ LogicalLead(r) \in Nat /\ LogicalTail(r) \in Nat
  BY RequestInts, BlanksAreNat, ScaleOfRecipe DEF Admitted, OptionsAllowed
<1>2. /\ r.w <= IntMax - LogicalLead(r) * PadScale(r)
      /\ r.w + LogicalLead(r) * PadScale(r) <= IntMax - LogicalTail(r) * PadScale(r)
  BY DEF Admitted, RowsFit
<1>3. /\ LogicalLead(r) * PadScale(r) \in Nat
      /\ LogicalTail(r) * PadScale(r) \in Nat
  <2>1. CASE PadScale(r) = 1
    BY <1>1, <2>1
  <2>2. CASE PadScale(r) = 2
    BY <1>1, <2>2
  <2> QED
    BY <1>1, <2>1, <2>2
<1>4. ASSUME NEW l \in Nat, NEW t \in Nat, r.w <= IntMax - l, r.w + l <= IntMax - t
      PROVE  l \in 0..IntMax /\ t \in 0..IntMax /\ l + r.w + t \in 0..IntMax
  BY <1>1, <1>4
<1> QED
  BY <1>2, <1>3, <1>4

\* An image no higher than the window, centered on the same head, lies in it.
LEMMA CenteredImageInWindow ==
  ASSUME NEW r \in Requests, HasGeometry(r.profile, r.tape),
         r.h <= PrintableDots(r.profile, r.tape)
  PROVE  /\ WireTop(r) >= WindowTop(r.profile, r.tape)
         /\ WireTop(r) + r.h <= WindowTop(r.profile, r.tape) + PrintableDots(r.profile, r.tape)
<1>1. r.h \in Nat /\ r.profile \in Profiles /\ r.tape \in KnownWidths
  BY RequestInts DEF HasGeometry
<1>2. r.profile.head_dots \in Nat /\ r.profile.wire_offset_dots \in Int
  BY <1>1 DEF Profiles
<1>3. /\ PrintableDots(r.profile, r.tape) \in Nat
      /\ PrintableDots(r.profile, r.tape) <= r.profile.head_dots
  BY <1>1, DotsFitHead
<1> QED
  BY <1>1, <1>2, <1>3 DEF WireTop, WindowTop

\* ... and so on the head, wherever the window is.
LEMMA CenteredImageOnHead ==
  ASSUME NEW r \in Requests, HasGeometry(r.profile, r.tape),
         r.h <= PrintableDots(r.profile, r.tape)
  PROVE  ImageOnHead(r)
<1>1. r.h \in Nat /\ r.profile \in Profiles /\ r.tape \in KnownWidths
  BY RequestInts DEF HasGeometry
<1>2. /\ r.profile.head_dots \in Nat /\ WireTop(r) \in Int /\ WindowTop(r.profile, r.tape) \in Int
      /\ PrintableDots(r.profile, r.tape) \in Nat
  BY <1>1, DotsFitHead DEF Profiles, WireTop, WindowTop
<1>3. /\ WindowTop(r.profile, r.tape) >= 0
      /\ WindowTop(r.profile, r.tape) + PrintableDots(r.profile, r.tape) <= r.profile.head_dots
  BY DEF HasGeometry
<1> QED
  BY <1>1, <1>2, <1>3, CenteredImageInWindow DEF ImageOnHead

\* The layout is fixed by its arguments from the step that computes it.
LEMMA LayoutIsFixed == Spec => []LayoutInv
<1>1. Init => LayoutInv
  BY DEF Init, LayoutInv
<1>2. LayoutInv /\ [Next]_vars => LayoutInv'
  <2> SUFFICES ASSUME LayoutInv, [Next]_vars PROVE LayoutInv'
    OBVIOUS
  <2> USE DEF LayoutInv
  <2>1. CASE Reject
    BY <2>1 DEF Reject
  <2>2. CASE Layout
    BY <2>2 DEF Layout
  <2>3. CASE EmitSetup
    BY <2>3 DEF EmitSetup
  <2>4. CASE EmitRow
    BY <2>4 DEF EmitRow
  <2>5. CASE EmitPrint
    BY <2>5 DEF EmitPrint
  <2>6. CASE AllocationFails
    BY <2>6 DEF AllocationFails
  <2>7. CASE UNCHANGED vars
    BY <2>7 DEF vars
  <2> QED
    BY <2>1, <2>2, <2>3, <2>4, <2>5, <2>6, <2>7 DEF Next
<1> QED
  BY <1>1, <1>2, PTL DEF Spec

\* No int of the layout overflows, at any width of int.
THEOREM LayoutNeverOverflows == Spec => []LayoutFits
<1>1. LayoutInv => LayoutFits
  BY RowsAreInts DEF LayoutInv, LayoutFits, TotalRows
<1> QED
  BY <1>1, LayoutIsFixed, PTL

\* The image is inside the printable window, at every height and head offset.
THEOREM ImageStaysInWindow == Spec => []ImageInWindow
<1>1. LayoutInv => ImageInWindow
  BY CenteredImageInWindow DEF LayoutInv, ImageInWindow, Admitted
<1> QED
  BY <1>1, LayoutIsFixed, PTL

\* Where the driver reports a tape as compatible, no bitmap that fits the reported
\* window is refused for its geometry: the builder's own tests of the head cannot fail.
THEOREM CompatibleTapesPrint == Spec => []CompatibleTapePrints
<1>1. LayoutInv => CompatibleTapePrints
  <2> SUFFICES ASSUME LayoutInv, at = "refused", OptionsAllowed(req),
                      AcceptsMedia(req.profile, req.tape, 1),
                      ~(req.h > PrintableDots(req.profile, req.tape)), RowsFit(req)
               PROVE  FALSE
    BY DEF CompatibleTapePrints
  <2>1. req \in Requests /\ ~Admitted(req)
    BY DEF LayoutInv
  <2>2. AcceptsWidth(req.profile, req.tape) /\ HasGeometry(req.profile, req.tape)
    BY <2>1, WindowAssumption DEF AcceptsMedia
  <2>3. req.h <= PrintableDots(req.profile, req.tape)
    <3>1. req.h \in Nat /\ req.profile \in Profiles /\ req.tape \in KnownWidths
      BY <2>1, <2>2, RequestInts DEF HasGeometry
    <3> QED
      BY <3>1, DotsFitHead
  <2>4. ImageOnHead(req)
    BY <2>1, <2>2, <2>3, CenteredImageOnHead
  <2> QED
    BY <2>1, <2>2, <2>3, <2>4 DEF Admitted
<1> QED
  BY <1>1, LayoutIsFixed, PTL

-----------------------------------------------------------------------------
(* The frames.                                                             *)

SetupKinds == {"reset", "mode", "advanced", "compression", "rasterMode", "notify", "info", "margin"}
FrameKinds == SetupKinds \cup Rows \cup {"printFeed", "printChain"}

\* Rows are where the layout puts them: after the setup, as many as it has.
FramesInv ==
  /\ at \in {"check", "refused", "failed"} => frames = <<>>
  /\ at \in {"setup", "rows", "done"} =>
       /\ frames \in Seq(FrameKinds) /\ announced \in {0, TotalRows}
       /\ \A i \in 1..Len(frames) :
            frames[i] \in Rows <=> i > Len(Setup(req)) /\ i <= Len(Setup(req)) + TotalRows
  /\ at = "setup" => Len(frames) < Len(Setup(req))
  /\ at = "rows" => RowsDone \in 0..TotalRows
  /\ at = "done" => /\ Len(frames) = Len(Setup(req)) + TotalRows + 1
                    /\ frames[Len(frames)] \in {"printFeed", "printChain"}
  /\ at = "check" => announced = 0

\* A recipe sets up the printer, and sends no row while it does.
LEMMA SetupIsACommandSequence ==
  ASSUME NEW r
  PROVE  Setup(r) \in Seq(SetupKinds) /\ Len(Setup(r)) >= 1
<1>1. \A c, f : f \in SetupKinds => When(c, f) \in Seq(SetupKinds)
  BY DEF When
<1>2. ModeSetup(r.profile, r.chain) \in Seq(SetupKinds)
  <2>1. "mode" \in SetupKinds /\ "advanced" \in SetupKinds
    BY DEF SetupKinds
  <2> QED
    BY <1>1, <2>1, ConcatProperties DEF ModeSetup
<1>3. <<>> \in Seq(SetupKinds) /\ <<"reset">> \in Seq(SetupKinds) /\ Len(<<"reset">>) = 1
  BY DEF SetupKinds
<1>4. CASE r.profile.info_variant = "recover"
  BY <1>4 DEF Setup, SetupKinds
<1>5. CASE r.profile.info_variant # "recover"
  <2> DEFINE first == IF r.profile.mode_before_compression THEN ModeSetup(r.profile, r.chain) ELSE <<>>
             packed == When(r.profile.encoding = "packbits", "compression")
             raster == When(r.profile.raster_select # "implicit", "rasterMode")
             inform == When(r.profile.info_variant \in {"basic", "d460"}, "info")
             margin == When(r.profile.finalize_variant = "d460", "margin")
             last == IF r.profile.mode_before_compression THEN <<>> ELSE ModeSetup(r.profile, r.chain)
  <2>1. /\ first \in Seq(SetupKinds) /\ packed \in Seq(SetupKinds) /\ raster \in Seq(SetupKinds)
        /\ inform \in Seq(SetupKinds) /\ margin \in Seq(SetupKinds) /\ last \in Seq(SetupKinds)
    BY <1>1, <1>2, <1>3 DEF SetupKinds
  <2>2. Setup(r) = <<"reset">> \o first \o packed \o raster \o inform \o margin \o last
    BY <1>5 DEF Setup
  <2> HIDE DEF first, packed, raster, inform, margin, last
  <2> QED
    BY <1>3, <2>1, <2>2
<1> QED
  BY <1>4, <1>5

\* Where rows are due, a row is the next frame; elsewhere it is a command.
LEMMA NextFrameIs ==
  ASSUME LayoutInv, FramesInv, at \in {"setup", "rows"}, TotalRows \in Nat
  PROVE  /\ NextFrame \in FrameKinds
         /\ at = "setup" => NextFrame \in SetupKinds
         /\ at = "rows" /\ RowsDone < TotalRows => NextFrame \in Rows
         /\ at = "rows" /\ RowsDone = TotalRows => NextFrame \in {"printFeed", "printChain"}
<1>1. Setup(req) \in Seq(SetupKinds) /\ Len(frames) \in Nat
  BY SetupIsACommandSequence DEF FramesInv
<1>2. at = "setup" => Setup(req)[Len(frames) + 1] \in SetupKinds
  <2>1. at = "setup" => Len(frames) + 1 \in 1..Len(Setup(req))
    BY <1>1 DEF FramesInv
  <2> QED
    BY <1>1, <2>1, ElementOfSeq
<1> QED
  BY <1>1, <1>2 DEF NextFrame, FinalCommand, FrameKinds, Rows

\* A frame is added where FramesInv expects it.
LEMMA MarkKeepsRows ==
  ASSUME LayoutInv, FramesInv, TotalRows \in Nat, EmitSetup \/ EmitRow \/ EmitPrint
  PROVE  FramesInv'
<1> DEFINE s == Len(Setup(req))
           k == Len(frames)
<1>1. /\ at \in {"setup", "rows"} /\ frames' = Append(frames, NextFrame)
      /\ req' = req /\ lead' = lead /\ tail' = tail
      /\ at' \in {"setup", "rows", "done"}
  BY DEF EmitSetup, EmitRow, EmitPrint, Mark
<1>2. s \in Nat /\ s >= 1 /\ k \in Nat /\ frames \in Seq(FrameKinds)
  BY <1>1, SetupIsACommandSequence DEF FramesInv
<1>3. TotalRows' = TotalRows /\ Setup(req)' = Setup(req)
  BY <1>1 DEF TotalRows
<1>4. /\ NextFrame \in FrameKinds
      /\ at = "setup" => NextFrame \in SetupKinds
      /\ at = "rows" /\ RowsDone < TotalRows => NextFrame \in Rows
      /\ at = "rows" /\ RowsDone = TotalRows => NextFrame \in {"printFeed", "printChain"}
  BY <1>1, NextFrameIs
<1>5. /\ frames' \in Seq(FrameKinds) /\ Len(frames') = k + 1
      /\ \A i \in 1..k : frames'[i] = frames[i]
      /\ frames'[k + 1] = NextFrame
  BY <1>1, <1>2, <1>4
<1>6. SetupKinds \cap Rows = {} /\ {"printFeed", "printChain"} \cap Rows = {}
  BY DEF SetupKinds, Rows
<1>7. announced' \in {0, TotalRows}
  BY <1>1 DEF EmitSetup, EmitRow, EmitPrint, FramesInv
<1>8. /\ at = "setup" => k < s
      /\ at = "rows" => k - s \in 0..TotalRows
  BY <1>1 DEF FramesInv, RowsDone
<1>9. NextFrame \in Rows <=> k + 1 > s /\ k + 1 <= s + TotalRows
  BY <1>1, <1>2, <1>4, <1>6, <1>8 DEF RowsDone, EmitRow, EmitPrint, EmitSetup
<1>10. \A i \in 1..Len(frames') : frames'[i] \in Rows <=> i > s /\ i <= s + TotalRows
  <2>1. \A i \in 1..k : frames[i] \in Rows <=> i > s /\ i <= s + TotalRows
    BY <1>1 DEF FramesInv
  <2> SUFFICES ASSUME NEW i \in 1..Len(frames')
               PROVE  frames'[i] \in Rows <=> i > s /\ i <= s + TotalRows
    OBVIOUS
  <2>2. CASE i \in 1..k
    BY <1>5, <2>1, <2>2
  <2>3. CASE i = k + 1
    BY <1>5, <1>9, <2>3
  <2> QED
    BY <1>2, <1>5, <2>2, <2>3
<1>11. /\ at' = "setup" => Len(frames') < s
       /\ at' = "rows" => Len(frames') - s \in 0..TotalRows
       /\ at' = "done" => /\ Len(frames') = s + TotalRows + 1
                          /\ frames'[Len(frames')] \in {"printFeed", "printChain"}
  <2>1. CASE EmitSetup
    <3>1. at' = IF k + 1 = s THEN "rows" ELSE "setup"
      BY <2>1, <1>5 DEF EmitSetup
    <3> QED
      BY <2>1, <3>1, <1>2, <1>5, <1>8 DEF EmitSetup
  <2>2. CASE EmitRow
    BY <2>2, <1>2, <1>5, <1>8 DEF EmitRow, RowsDone
  <2>3. CASE EmitPrint
    BY <2>3, <1>2, <1>4, <1>5, <1>8 DEF EmitPrint, RowsDone
  <2> QED
    BY <2>1, <2>2, <2>3
<1> HIDE DEF s, k
<1> QED
  BY <1>1, <1>3, <1>5, <1>7, <1>10, <1>11 DEF FramesInv, RowsDone, s

\* The frames are as the layout has them, throughout.
LEMMA FramesStayInOrder == Spec => []FramesInv
<1>1. Init => FramesInv
  BY DEF Init, FramesInv
<1>2. LayoutInv /\ FramesInv /\ [Next]_vars => FramesInv'
  <2> SUFFICES ASSUME LayoutInv, FramesInv, [Next]_vars PROVE FramesInv'
    OBVIOUS
  <2>1. CASE Reject
    BY <2>1 DEF Reject, FramesInv
  <2>2. CASE Layout
    <3>1. Len(Setup(req)) \in Nat /\ Len(Setup(req)) >= 1
      BY SetupIsACommandSequence
    <3>2. frames' = <<>> /\ announced' = 0 /\ at' = "setup" /\ req' = req
      BY <2>2 DEF Layout, FramesInv
    <3> QED
      BY <3>1, <3>2 DEF FramesInv
  <2>3. CASE EmitSetup \/ EmitRow \/ EmitPrint
    <3>1. TotalRows \in Nat
      BY <2>3, RowsAreInts DEF LayoutInv, TotalRows, EmitSetup, EmitRow, EmitPrint
    <3> QED
      BY <2>3, <3>1, MarkKeepsRows
  <2>4. CASE AllocationFails
    BY <2>4 DEF AllocationFails, FramesInv
  <2>5. CASE UNCHANGED vars
    BY <2>5 DEF vars, FramesInv, TotalRows, RowsDone
  <2> QED
    BY <2>1, <2>2, <2>3, <2>4, <2>5 DEF Next
<1> QED
  BY <1>1, <1>2, LayoutIsFixed, PTL DEF Spec

\* A job sends as many rows as its print-info command announces, for every recipe,
\* resolution, padding and centering.
THEOREM RowsAsAnnounced == Spec => []AnnouncedRowsSent
<1>1. LayoutInv /\ FramesInv => AnnouncedRowsSent
  <2> SUFFICES ASSUME LayoutInv, FramesInv, at = "done", announced > 0
               PROVE  RowsIn(frames) = announced
    BY DEF AnnouncedRowsSent
  <2> DEFINE s == Len(Setup(req))
  <2>1. TotalRows \in Nat
    BY RowsAreInts DEF LayoutInv, TotalRows
  <2>2. s \in Nat
    BY SetupIsACommandSequence
  <2>3. {i \in 1..Len(frames) : frames[i] \in Rows} = (s + 1)..(s + TotalRows)
    BY <2>1, <2>2 DEF FramesInv
  <2>4. Cardinality((s + 1)..(s + TotalRows)) = TotalRows
    BY <2>1, <2>2, FS_Interval
  <2>5. announced = TotalRows
    BY DEF FramesInv
  <2> QED
    BY <2>3, <2>4, <2>5 DEF RowsIn
<1> QED
  BY <1>1, LayoutIsFixed, FramesStayInOrder, PTL

\* No half-built job is handed over, wherever memory runs out.
THEOREM JobsAreWholeOrEmpty == Spec => []WholeOrEmpty
<1>1. FramesInv => WholeOrEmpty
  BY DEF FramesInv, WholeOrEmpty
<1> QED
  BY <1>1, FramesStayInOrder, PTL

-----------------------------------------------------------------------------
(* The bytes.                                                              *)

\* The buffer as the appends leave it
Buffers == [len : 0..SizeMax, cap : 0..SizeMax, oom : BOOLEAN]
Within(b) == b \in Buffers /\ b.len <= b.cap

\* b has what a has, and more.
Longer(a, b) == Within(b) /\ (~b.oom => ~a.oom /\ b.len > a.len)

StreamInv ==
  /\ Within(buf) /\ ~buf.oom
  /\ table \in Nat /\ table <= SizeMax \div WordSize
  /\ ends \in Seq(Nat) /\ Len(ends) <= table
  /\ \E S : frames \in Seq(S)
  /\ Len(ends) = Len(frames)
  /\ ends = <<>> => buf.len = 0
  /\ ends # <<>> => ends[Len(ends)] = buf.len
  /\ \A i \in 1..Len(ends) : ends[i] > (IF i = 1 THEN 0 ELSE ends[i - 1]) /\ ends[i] <= buf.len
  /\ at = "check" => ends = <<>>
  /\ at = "done" => ends # <<>>

-----------------------------------------------------------------------------
(* The buffer.                                                             *)

\* A set of naturals that is not empty has a least element.
LEMMA LeastExists ==
  ASSUME NEW T, T \subseteq Nat, T # {}
  PROVE  \E c \in T : \A d \in T : c <= d
<1>1. PICK c \in T : \A d \in T : ~(<<d, c>> \in OpToRel(<, Nat))
  BY WFMin, NatLessThanWellFounded, Zenon
<1>2. c \in Nat /\ \A d \in T : d \in Nat
  OBVIOUS
<1>3. \A d \in T : ~(d < c)
  BY <1>1, <1>2, Zenon DEF OpToRel
<1>4. \A d \in T : c <= d
  BY <1>2, <1>3
<1> QED
  BY <1>4

\* The capacity that the doubling ends with has room, and is a size_t.
LEMMA GrownHasRoom ==
  ASSUME NEW cap \in 0..SizeMax, NEW need \in 0..SizeMax
  PROVE  Grown(cap, need) \in need..SizeMax
<1> DEFINE fit == {c \in Doublings(IF cap = 0 THEN FirstCapacity ELSE cap) : c \in need..SizeMax}
<1>1. CASE fit = {}
  BY <1>1, SizeAssumption DEF Grown
<1>2. CASE fit # {}
  <2>1. fit \subseteq Nat /\ fit \subseteq need..SizeMax
    BY SizeAssumption
  <2>2. \E c \in fit : \A d \in fit : c <= d
    BY <1>2, <2>1, LeastExists
  <2> HIDE DEF fit
  <2>3. (CHOOSE c \in fit : \A d \in fit : c <= d) \in fit
    BY <2>2
  <2>4. Grown(cap, need) = CHOOSE c \in fit : \A d \in fit : c <= d
    BY <1>2 DEF Grown, fit
  <2> QED
    BY <2>1, <2>3, <2>4
<1> QED
  BY <1>1, <1>2

\* An append stays within the capacity, which stays a size_t, or sets oom.
LEMMA PutStaysWithin ==
  ASSUME NEW b, Within(b), NEW n \in Nat, n > 0
  PROVE  Longer(b, Put(b, n))
<1>1. /\ b.len \in 0..SizeMax /\ b.cap \in 0..SizeMax /\ b.oom \in BOOLEAN
      /\ b.len <= b.cap /\ SizeMax \in Nat
      /\ b = [len |-> b.len, cap |-> b.cap, oom |-> b.oom]
  BY SizeAssumption DEF Within, Buffers
<1>2. CASE b.oom \/ n > SizeMax - b.len
  <2>1. Put(b, n) = [len |-> b.len, cap |-> b.cap, oom |-> TRUE]
    BY <1>1, <1>2 DEF Put
  <2> QED
    BY <1>1, <2>1 DEF Buffers, Within, Longer
<1>3. CASE ~b.oom /\ ~(n > SizeMax - b.len)
  <2>1. b.len + n \in 0..SizeMax /\ b.len + n > b.len
    BY <1>1, <1>3
  <2> DEFINE c == IF b.len + n <= b.cap THEN b.cap ELSE Grown(b.cap, b.len + n)
  <2>2. Grown(b.cap, b.len + n) \in (b.len + n)..SizeMax
    BY <1>1, <2>1, GrownHasRoom
  <2>3. c \in 0..SizeMax /\ b.len + n <= c
    BY <1>1, <2>1, <2>2
  <2>4. Put(b, n) = [len |-> b.len + n, cap |-> c, oom |-> FALSE]
    BY <1>1, <1>3 DEF Put
  <2> HIDE DEF c
  <2>5. Put(b, n) \in Buffers
    BY <2>1, <2>3, <2>4 DEF Buffers
  <2> QED
    BY <1>3, <2>1, <2>3, <2>4, <2>5 DEF Within, Longer
<1> QED
  BY <1>2, <1>3

\* Appends in a row
LEMMA LongerIsTransitive ==
  ASSUME NEW a, NEW b, NEW c, Within(a), Longer(a, b), Longer(b, c)
  PROVE  Longer(a, c)
BY SizeAssumption DEF Longer, Within, Buffers

\* A row is a byte at least, whatever it encodes to.
LEMMA RowStaysWithin ==
  ASSUME NEW b, Within(b), NEW n \in Nat
  PROVE  Longer(b, PutRow(b, n))
<1>1. CASE n = 0
  BY <1>1, PutStaysWithin DEF PutRow
<1>2. CASE n # 0
  <2> DEFINE b1 == Put(b, 1)
             b2 == Put(b1, 1)
             b3 == Put(b2, 1)
  <2>1. Longer(b, b1) /\ Within(b1)
    BY PutStaysWithin DEF Longer
  <2>2. Longer(b1, b2) /\ Within(b2)
    BY <2>1, PutStaysWithin DEF Longer
  <2>3. Longer(b2, b3) /\ Within(b3)
    BY <2>2, PutStaysWithin DEF Longer
  <2>4. Longer(b3, Put(b3, n))
    BY <1>2, <2>3, PutStaysWithin
  <2>5. PutRow(b, n) = Put(b3, n)
    BY <1>2 DEF PutRow
  <2> HIDE DEF b1, b2, b3
  <2> QED
    BY <2>1, <2>2, <2>3, <2>4, <2>5, LongerIsTransitive
<1> QED
  BY <1>1, <1>2

\* Whatever the next frame is, it adds to the stream and stays within it, or sets oom.
LEMMA WrittenGrows ==
  ASSUME Within(buf), req \in Requests, NEW b \in Written
  PROVE  Longer(buf, b)
<1>1. CASE NextFrame \in {"image", "blank"}
  <2>1. PICK n \in Payloads(NextFrame) : b = PutRow(buf, n)
    BY <1>1 DEF Written
  <2>2. RowBytes(req.profile) \in Nat
    <3>1. req.profile.head_dots \in Nat
      BY RequestAssumption DEF RequestType, Profiles
    <3> QED
      BY <3>1 DEF RowBytes
  <2>3. n \in Nat
    BY <2>1, <2>2, PackedAssumption DEF Payloads
  <2> QED
    BY <2>1, <2>3, RowStaysWithin
<1>2. CASE NextFrame \notin {"image", "blank"} /\ NextFrame = "reset"
  <2>1. b = Put(Put(buf, 100), 2)
    BY <1>2 DEF Written
  <2>2. Longer(buf, Put(buf, 100)) /\ Within(Put(buf, 100))
    BY PutStaysWithin DEF Longer
  <2>3. Longer(Put(buf, 100), Put(Put(buf, 100), 2))
    BY <2>2, PutStaysWithin
  <2> QED
    BY <2>1, <2>2, <2>3, LongerIsTransitive
<1>3. CASE NextFrame \notin {"image", "blank"} /\ NextFrame # "reset"
  <2>1. b = Put(buf, CommandSize(NextFrame))
    BY <1>3 DEF Written
  <2>2. CommandSize(NextFrame) \in Nat /\ CommandSize(NextFrame) > 0
    BY DEF CommandSize
  <2> QED
    BY <2>1, <2>2, PutStaysWithin
<1> QED
  BY <1>1, <1>2, <1>3

-----------------------------------------------------------------------------
(* The stream and the job.                                                 *)

\* A job with its bytes is a job: every step of the stream is one of PtouchJob or leaves
\* it as it is, so what holds of every job holds of this one.
THEOREM StreamImplementsJob == StreamSpec => Spec
<1>1. StreamInit => Init
  BY DEF StreamInit
<1>2. [StreamNext]_allVars => [Next]_vars
  BY DEF StreamNext, WriteFrame, FreeJob, allVars, Next
<1> QED
  BY <1>1, <1>2, PTL DEF StreamSpec, Spec

-----------------------------------------------------------------------------
(* The table of frame ends.                                                *)

\* So many words fit in a size_t.
LEMMA WordsFit ==
  ASSUME NEW q \in Nat, q <= SizeMax \div WordSize
  PROVE  q * WordSize <= SizeMax /\ q <= SizeMax
<1>1. WordSize \in Nat /\ WordSize >= 1 /\ SizeMax \in Nat
  BY SizeAssumption
<1> DEFINE d == SizeMax \div WordSize
<1>2. d \in Nat /\ d * WordSize <= SizeMax
  BY <1>1
<1> HIDE DEF d
<1>3. q * WordSize <= d * WordSize /\ q * WordSize \in Nat
  BY <1>1, <1>2 DEF d
<1>4. q <= q * WordSize
  BY <1>1
<1> QED
  BY <1>1, <1>2, <1>3, <1>4

\* The table grows by an entry at least, or mark_frame gives up.
LEMMA TableGrows ==
  ASSUME table \in Nat, table <= SizeMax \div WordSize, TableMayGrow
  PROVE  NextTable \in Nat /\ NextTable <= SizeMax \div WordSize /\ table + 1 <= NextTable
<1>1. SizeMax \in Nat /\ FirstTable \in Nat /\ FirstTable >= 1 /\ table <= SizeMax
  BY SizeAssumption, WordsFit
<1>2. NextTable <= SizeMax \div WordSize /\ NextTable >= table
  BY DEF TableMayGrow
<1>3. CASE table = 0
  BY <1>1, <1>2, <1>3 DEF NextTable
<1>4. CASE table # 0
  <2>1. NextTable = (table * 2) % (SizeMax + 1)
    BY <1>4 DEF NextTable
  <2>2. CASE table * 2 <= SizeMax
    <3>1. NextTable = table * 2
      BY <1>1, <2>1, <2>2
    <3> QED
      BY <1>2, <1>4, <3>1
  <2>3. CASE table * 2 > SizeMax
    <3>1. (table * 2) % (SizeMax + 1) = table * 2 - (SizeMax + 1)
      BY <1>1, <2>3
    <3> QED
      BY <1>1, <1>2, <2>1, <3>1
  <2> QED
    BY <1>1, <2>2, <2>3
<1> QED
  BY <1>3, <1>4

-----------------------------------------------------------------------------
(* The invariant.                                                          *)

\* A sequence is longer by one after an append, whatever its elements are.
LEMMA AppendLength ==
  ASSUME NEW s, NEW x, \E S : s \in Seq(S)
  PROVE  (\E S : Append(s, x) \in Seq(S)) /\ Len(Append(s, x)) = Len(s) + 1
<1>1. PICK S : s \in Seq(S)
  OBVIOUS
<1>2. s \in Seq(S \cup {x})
  BY <1>1, SeqMonotonic
<1> QED
  BY <1>2, AppendProperties

\* A written frame adds its end to the table.
LEMMA WriteFrameKeepsInv ==
  ASSUME StreamInv, LayoutInv, WriteFrame
  PROVE  StreamInv'
<1>1. PICK b \in Written : MarkEnd(b)
  BY DEF WriteFrame
<1>2. Longer(buf, b) /\ ~b.oom
  <2>1. req \in Requests
    BY RequestInts DEF LayoutInv
  <2> QED
    BY <1>1, <2>1, WrittenGrows DEF StreamInv, MarkEnd
<1>3. buf' = b /\ ends' = Append(ends, b.len) /\ b.len \in Nat /\ b.len > buf.len /\ buf.len \in Nat
  BY <1>1, <1>2, SizeAssumption DEF MarkEnd, Longer, Within, Buffers, StreamInv
<1>4. Within(buf)' /\ ~buf'.oom
  BY <1>2, <1>3 DEF Longer, Within, Buffers
<1>5. /\ ends' \in Seq(Nat) /\ ends' # <<>> /\ Len(ends') = Len(ends) + 1
      /\ Len(ends) \in Nat
      /\ \A i \in 1..Len(ends) : ends'[i] = ends[i]
      /\ ends'[Len(ends) + 1] = b.len
  BY <1>3, AppendProperties DEF StreamInv
<1>6. /\ table' \in Nat /\ table' <= SizeMax \div WordSize /\ Len(ends') <= table'
  <2>1. CASE TableFull
    BY <1>1, <1>5, <2>1, TableGrows DEF MarkEnd, StreamInv, TableFull
  <2>2. CASE ~TableFull
    BY <1>1, <1>5, <2>2 DEF MarkEnd, StreamInv, TableFull
  <2> QED
    BY <2>1, <2>2
<1>7. frames' = Append(frames, NextFrame) /\ at' # "check"
  BY DEF WriteFrame, EmitSetup, EmitRow, EmitPrint, Mark
<1>8. (\E S : frames' \in Seq(S)) /\ Len(frames') = Len(frames) + 1
  BY <1>7, AppendLength DEF StreamInv
<1>9. \A i \in 1..Len(ends') :
        ends'[i] > (IF i = 1 THEN 0 ELSE ends'[i - 1]) /\ ends'[i] <= buf'.len
  <2> SUFFICES ASSUME NEW i \in 1..Len(ends')
               PROVE  ends'[i] > (IF i = 1 THEN 0 ELSE ends'[i - 1]) /\ ends'[i] <= b.len
    BY <1>3
  <2>1. CASE i \in 1..Len(ends)
    <3>1. ends[i] > (IF i = 1 THEN 0 ELSE ends[i - 1]) /\ ends[i] <= buf.len /\ ends[i] \in Nat
      BY <2>1, ElementOfSeq DEF StreamInv
    <3>2. ends'[i] = ends[i] /\ (i # 1 => ends'[i - 1] = ends[i - 1])
      BY <1>5, <2>1, SMTT(30)
    <3> QED
      BY <1>3, <3>1, <3>2
  <2>2. CASE i = Len(ends) + 1 /\ Len(ends) = 0
    <3>1. ends'[i] = b.len /\ i = 1
      BY <1>5, <2>2
    <3> QED
      BY <1>3, <3>1
  <2>3. CASE i = Len(ends) + 1 /\ Len(ends) # 0
    <3>1. ends'[i] = b.len /\ ends'[i - 1] = ends[Len(ends)] /\ i # 1
      BY <1>5, <2>3
    <3>2. ends[Len(ends)] = buf.len
      BY <1>5, <2>3 DEF StreamInv
    <3> QED
      BY <1>3, <3>1, <3>2
  <2> QED
    BY <1>5, <2>1, <2>2, <2>3
<1>10. Len(ends') = Len(frames') /\ ends'[Len(ends')] = buf'.len
  BY <1>3, <1>5, <1>8 DEF StreamInv
<1> QED
  BY <1>4, <1>5, <1>6, <1>7, <1>8, <1>9, <1>10 DEF StreamInv

\* Nothing of the stream is left of a job that failed.
LEMMA EmptyStreamIsFine ==
  ASSUME buf = EmptyBuffer, ends = <<>>, table = 0, frames = <<>>, at # "done"
  PROVE  StreamInv
<1>1. Within(buf) /\ ~buf.oom /\ buf.len = 0
  BY SizeAssumption DEF EmptyBuffer, Within, Buffers
<1>2. 0 <= SizeMax \div WordSize
  BY SizeAssumption
<1>3. ends \in Seq(Nat) /\ frames \in Seq(Nat) /\ Len(ends) = 0 /\ Len(frames) = 0
  OBVIOUS
<1>4. \E S : frames \in Seq(S)
  BY <1>3
<1> QED
  BY <1>1, <1>2, <1>3, <1>4 DEF StreamInv

\* The stream and its table are as the frames are, throughout.
LEMMA StreamStaysFramed == StreamSpec => []StreamInv
<1>1. StreamInit => StreamInv
  BY EmptyStreamIsFine DEF StreamInit, Init
<1>2. StreamInv /\ LayoutInv /\ [StreamNext]_allVars => StreamInv'
  <2> SUFFICES ASSUME StreamInv, LayoutInv, [StreamNext]_allVars PROVE StreamInv'
    OBVIOUS
  <2>1. CASE (Reject \/ Layout) /\ UNCHANGED streamVars
    BY <2>1 DEF Reject, Layout, streamVars, StreamInv, Within
  <2>2. CASE WriteFrame
    BY <2>2, WriteFrameKeepsInv
  <2>3. CASE FreeJob
    <3>1. buf' = EmptyBuffer /\ ends' = <<>> /\ table' = 0 /\ frames' = <<>> /\ at' # "done"
      BY <2>3 DEF FreeJob, AllocationFails
    <3>2. (buf = EmptyBuffer /\ ends = <<>> /\ table = 0 /\ frames = <<>> /\ at # "done"
            => StreamInv)'
      BY EmptyStreamIsFine, PTL
    <3> QED
      BY <3>1, <3>2 DEF EmptyBuffer
  <2>4. CASE UNCHANGED allVars
    BY <2>4 DEF allVars, vars, streamVars, StreamInv, Within
  <2> QED
    BY <2>1, <2>2, <2>3, <2>4 DEF StreamNext
<1>3. StreamSpec => []LayoutInv
  BY StreamImplementsJob, LayoutIsFixed, PTL
<1> QED
  BY <1>1, <1>2, <1>3, PTL DEF StreamSpec

\* The builder writes only to memory it has asked for, and no size wraps, whatever the
\* width of size_t.
THEOREM MemoryIsEnough == StreamSpec => []WritesWithinMemory
<1>1. StreamInv => WritesWithinMemory
  <2> SUFFICES ASSUME StreamInv PROVE WritesWithinMemory
    OBVIOUS
  <2>1. table * WordSize <= SizeMax
    BY WordsFit DEF StreamInv
  <2> QED
    BY <2>1, SizeAssumption DEF StreamInv, Within, Buffers, WritesWithinMemory
<1> QED
  BY <1>1, StreamStaysFramed, PTL

\* Every job that is built passes the driver's validator, with an end for every frame.
THEOREM JobsAreFramed == StreamSpec => []BuiltJobIsFramed
<1>1. StreamInv => BuiltJobIsFramed
  <2> SUFFICES ASSUME StreamInv, at = "done" PROVE FramesValid /\ Len(ends) = Len(frames)
    BY DEF BuiltJobIsFramed
  <2>1. ends # <<>> /\ ends \in Seq(Nat) /\ Len(ends) \in Nat /\ Len(ends) >= 1
    BY EmptySeq DEF StreamInv
  <2>2. buf.len > 0 /\ buf.cap > 0
    <3>1. ends[1] > 0 /\ ends[1] <= buf.len /\ ends[1] \in Nat
      BY <2>1, ElementOfSeq DEF StreamInv
    <3>2. buf.len \in Nat /\ buf.cap \in Nat /\ buf.len <= buf.cap
      BY SizeAssumption DEF StreamInv, Within, Buffers
    <3> QED
      BY <3>1, <3>2
  <2>3. table > 0
    BY <2>1 DEF StreamInv
  <2> QED
    BY <2>1, <2>2, <2>3 DEF StreamInv, FramesValid
<1> QED
  BY <1>1, StreamStaysFramed, PTL
=============================================================================
