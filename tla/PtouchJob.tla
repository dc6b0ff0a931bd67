------------------------------- MODULE PtouchJob -------------------------------
(***************************************************************************)
(* ptouch_print_build_job_for_model of src/ptouch_print.c: the admission of *)
(* a bitmap and its options, the layout (where the image lies on the head,  *)
(* how many blank rows lead and trail it), and the frames of the job, each  *)
(* of which may fail to allocate.                                           *)
(*                                                                         *)
(* A frame is known by what it is, not by its bytes.  Integers are ints of  *)
(* the code: IntMax is INT_MAX, so a small instance meets the limits that   *)
(* the code tests for.                                                     *)
(***************************************************************************)
EXTENDS PtouchModel, FiniteSets

CONSTANTS
  IntMax,        \* INT_MAX
  Requests       \* the arguments that are tried

\* valid: the tests of arguments that concern nothing modelled here are passed.
RequestType ==
  [valid : BOOLEAN, profile : Profiles, tape : Nat, w : 1..IntMax, h : Nat,
   min : 0..IntMax, pad : 0..IntMax, chain : BOOLEAN, autocut : BOOLEAN]

ASSUME IntAssumption == IntMax \in Nat /\ IntMax >= 2
ASSUME RequestAssumption == Requests \subseteq RequestType
\* What is so of every entry of the catalog: the tape it takes has a window on its head.
ASSUME WindowAssumption ==
  \A r \in Requests : AcceptsWidth(r.profile, r.tape) => HasGeometry(r.profile, r.tape)

VARIABLES
  req,           \* the arguments: profile, bitmap size, options
  at,            \* "check", "setup", "rows", "done", "refused" or "failed"
  lead, tail,    \* lead_rows and tail_rows
  frames,        \* the frames marked so far
  announced      \* raster_rows of the print-info frame, 0 if there is none

vars == <<req, at, lead, tail, frames, announced>>

-----------------------------------------------------------------------------
(* Layout.                                                                 *)

\* Mutant: the image is placed without the head's offset.
WireTopUnshifted(r) == (r.profile.head_dots - r.h) \div 2

\* The window is where ptouch_media_geometry places it, and the image centered on the head.
WireTop(r) == ((r.profile.head_dots - r.h) \div 2) + r.profile.wire_offset_dots

\* Native rows to a 180-dpi dot
PadScale(r) == r.profile.feed_dpi \div 180

Larger(x, y) == IF x > y THEN x ELSE y

\* The blank dots a minimum length asks for beside the image
TotalBlank(r) == r.min - r.w

\* Short artwork that the padding does not already lengthen to the minimum
Centers(r) == ~r.chain /\ r.min > 0 /\ TotalBlank(r) > r.pad

LogicalTail(r) ==
  IF r.chain THEN 0
  ELSE IF Centers(r) THEN Larger((TotalBlank(r) + 1) \div 2, r.pad) ELSE r.pad

LogicalLead(r) == IF Centers(r) THEN TotalBlank(r) - LogicalTail(r) ELSE 0

\* Mutant: the sum of the rows is not tested.
RowsFitEach(r) ==
  /\ LogicalLead(r) <= IntMax \div PadScale(r) /\ LogicalTail(r) <= IntMax \div PadScale(r)
  /\ r.w <= IntMax - LogicalLead(r) * PadScale(r)

RowsFit(r) ==
  /\ LogicalLead(r) <= IntMax \div PadScale(r) /\ LogicalTail(r) <= IntMax \div PadScale(r)
  /\ r.w <= IntMax - LogicalLead(r) * PadScale(r)
  /\ r.w + LogicalLead(r) * PadScale(r) <= IntMax - LogicalTail(r) * PadScale(r)

\* The tests of the options
OptionsAllowed(r) ==
  /\ r.valid /\ HasPrintRecipe(r.profile)
  /\ r.chain => r.profile.chain_validated
  /\ r.autocut \/ r.profile.autocut_strategy = "escIM"

ImageOnHead(r) == WireTop(r) >= 0 /\ WireTop(r) + r.h <= r.profile.head_dots

\* Mutant: the last dot of the head is lost.
AdmittedBelowTheEdge(r) ==
  /\ OptionsAllowed(r)
  /\ AcceptsWidth(r.profile, r.tape) /\ HasGeometry(r.profile, r.tape)
  /\ r.h <= PrintableDots(r.profile, r.tape)
  /\ WireTop(r) >= 0 /\ WireTop(r) + r.h < r.profile.head_dots /\ RowsFit(r)

\* The early returns before the first frame
Admitted(r) ==
  /\ OptionsAllowed(r)
  /\ AcceptsWidth(r.profile, r.tape) /\ HasGeometry(r.profile, r.tape)
  /\ r.h <= PrintableDots(r.profile, r.tape)
  /\ ImageOnHead(r) /\ RowsFit(r)

-----------------------------------------------------------------------------
(* Frames.                                                                 *)

When(condition, f) == IF condition THEN <<f>> ELSE <<>>

\* emit_profile_mode_setup
ModeSetup(p, chain) ==
  When(p.autocut_strategy = "escIM", "mode")
    \o When(p.emit_no_chain_mode \/ (chain /\ p.finalize_variant = "d460"), "advanced")

\* The frames before the rows, by what they are.  Invalidate and init are one
\* frame; the recovery recipe is fixed, the others are put together.
Setup(r) ==
  LET p == r.profile
      modes == ModeSetup(p, r.chain)
  IN  IF p.info_variant = "recover"
      THEN <<"reset", "rasterMode", "notify", "info", "mode", "advanced", "margin", "compression">>
      ELSE <<"reset">>
             \o (IF p.mode_before_compression THEN modes ELSE <<>>)
             \o When(p.encoding = "packbits", "compression")
             \o When(p.raster_select # "implicit", "rasterMode")
             \o When(p.info_variant \in {"basic", "d460"}, "info")
             \o When(p.finalize_variant = "d460", "margin")
             \o (IF p.mode_before_compression THEN <<>> ELSE modes)

TotalRows == lead + req.w + tail
RowsDone == Len(frames) - Len(Setup(req))

\* The print command that ends the job: with feed, or into an open chain.
FinalCommand ==
  IF req.chain /\ req.profile.finalize_variant = "standard" THEN "printChain" ELSE "printFeed"

\* What the job goes on with: a command, a row of the image or a blank row beside it
NextFrame ==
  IF at = "setup" THEN Setup(req)[Len(frames) + 1]
  ELSE IF RowsDone = TotalRows THEN FinalCommand
  ELSE IF RowsDone >= lead /\ RowsDone < lead + req.w THEN "image" ELSE "blank"

Mark(f) == frames' = Append(frames, f)

-----------------------------------------------------------------------------

Reject ==
  /\ at = "check" /\ ~Admitted(req)
  /\ at' = "refused"
  /\ UNCHANGED <<req, lead, tail, frames, announced>>

Layout ==
  /\ at = "check" /\ Admitted(req)
  /\ lead' = LogicalLead(req) * PadScale(req) /\ tail' = LogicalTail(req) * PadScale(req)
  /\ at' = "setup"
  /\ UNCHANGED <<req, frames, announced>>

\* Mutant: the rows are announced before they are scaled to the feed resolution.
EmitSetupLogicalRows ==
  /\ at = "setup"
  /\ Mark(NextFrame)
  /\ announced' = IF NextFrame = "info"
                  THEN LogicalLead(req) + req.w + LogicalTail(req) ELSE announced
  /\ at' = IF Len(frames') = Len(Setup(req)) THEN "rows" ELSE "setup"
  /\ UNCHANGED <<req, lead, tail>>

EmitSetup ==
  /\ at = "setup"
  /\ Mark(NextFrame)
  /\ announced' = IF NextFrame = "info" THEN TotalRows ELSE announced
  /\ at' = IF Len(frames') = Len(Setup(req)) THEN "rows" ELSE "setup"
  /\ UNCHANGED <<req, lead, tail>>

EmitRow ==
  /\ at = "rows" /\ RowsDone < TotalRows
  /\ Mark(NextFrame)
  /\ UNCHANGED <<req, at, lead, tail, announced>>

EmitPrint ==
  /\ at = "rows" /\ RowsDone = TotalRows
  /\ Mark(NextFrame)
  /\ at' = "done"
  /\ UNCHANGED <<req, lead, tail, announced>>

\* Mutant: a failed build returns what it has.
AllocationFailsHalfBuilt ==
  /\ at \in {"setup", "rows"}
  /\ at' = "failed" /\ UNCHANGED frames
  /\ UNCHANGED <<req, lead, tail, announced>>

\* The stream or the frame list cannot grow: the job is freed and empty again.
AllocationFails ==
  /\ at \in {"setup", "rows"}
  /\ at' = "failed" /\ frames' = <<>>
  /\ UNCHANGED <<req, lead, tail, announced>>

Init ==
  /\ req \in Requests
  /\ at = "check" /\ lead = 0 /\ tail = 0 /\ frames = <<>> /\ announced = 0

Next == Reject \/ Layout \/ EmitSetup \/ EmitRow \/ EmitPrint \/ AllocationFails

Spec == Init /\ [][Next]_vars

-----------------------------------------------------------------------------
(* Properties.                                                             *)

Rows == {"image", "blank"}
RowsIn(fs) == Cardinality({i \in 1..Len(fs) : fs[i] \in Rows})

\* The printer is told how many rows it gets, whatever the centering, padding and
\* resolution: a job that is complete sends exactly the rows it announced.
AnnouncedRowsSent ==
  at = "done" /\ announced > 0 => RowsIn(frames) = announced

\* A job is handed over whole or empty: the transfer of a half-built one would
\* leave the printer waiting for raster (ptouch_print.c:289).
WholeOrEmpty ==
  /\ at \in {"failed", "refused"} => frames = <<>>
  /\ at = "done" => frames[Len(frames)] \in {"printFeed", "printChain"}

\* No int of the layout overflows, and what the rows sum up to does not either.
LayoutFits ==
  at \in {"setup", "rows", "done"} =>
    lead \in 0..IntMax /\ tail \in 0..IntMax /\ TotalRows \in 0..IntMax

\* The image lies within the tape's printable window, at every height.
ImageInWindow ==
  at \in {"setup", "rows", "done"} =>
    /\ WireTop(req) >= WindowTop(req.profile, req.tape)
    /\ WireTop(req) + req.h <= WindowTop(req.profile, req.tape) + PrintableDots(req.profile, req.tape)

\* Where the driver reports the loaded tape as compatible (ptouch_usb.c:972), a bitmap
\* as high as the reported dots or lower prints: of the tests that follow the options',
\* only that of the rows' number may refuse it, on every head and tape of the catalog.
CompatibleTapePrints ==
  at = "refused" /\ OptionsAllowed(req) /\ AcceptsMedia(req.profile, req.tape, 1) =>
    req.h > PrintableDots(req.profile, req.tape) \/ ~RowsFit(req)

\* A label that is cut is as long as the minimum, which is given in 180-dpi dots
\* (ptouch_print.h:26): at 360 dpi, twice as many rows.
CutLabelReachesMinimum ==
  at = "done" /\ ~req.chain => TotalRows >= req.min * PadScale(req)
=============================================================================
