------------------------------ MODULE PtouchModel ------------------------------
(***************************************************************************)
(* src/ptouch_model.c: the catalog of printers, and what the rest of the    *)
(* component asks of a profile: whether it has a recipe, which tape it      *)
(* takes, and where the tape's window lies on its head.  A tape_width_mask  *)
(* is a set of widths, an enumerator is its name; names, limitations and    *)
(* the status fields, which concern other modules, are left out.            *)
(***************************************************************************)
EXTENDS Integers, Sequences

MaxHeadDots == 560

KnownWidths == {4, 6, 9, 12, 18, 21, 24, 36}
Widths12 == {4, 6, 9, 12}
Widths18 == Widths12 \cup {18}
Widths24 == Widths18 \cup {24}
Widths36 == Widths24 \cup {36}

\* s_tapes: the printable dots of a tape at 180 and at 360 dpi
s_tapes ==
  [mm \in KnownWidths |->
     CASE mm = 4 -> [dots_180 |-> 24, dots_360 |-> 48]
       [] mm = 6 -> [dots_180 |-> 32, dots_360 |-> 64]
       [] mm = 9 -> [dots_180 |-> 52, dots_360 |-> 106]
       [] mm = 12 -> [dots_180 |-> 76, dots_360 |-> 150]
       [] mm = 18 -> [dots_180 |-> 120, dots_360 |-> 234]
       [] mm = 21 -> [dots_180 |-> 124, dots_360 |-> 248]
       [] mm = 24 -> [dots_180 |-> 128, dots_360 |-> 320]
       [] mm = 36 -> [dots_180 |-> 192, dots_360 |-> 454]]

Supports == {"validated", "inspected", "experimental", "unsupported"}

\* What is read of a ptouch_model_profile_t.  Its integers are 16 bits wide, or 8.
Profiles ==
  [pid : Nat, support : Supports,
   head_dots : Nat, head_dpi : Nat, feed_dpi : Nat, wire_offset_dots : Int,
   raster_select : {"legacyR", "dynamicA", "implicit"}, encoding : {"raw", "packbits"},
   info_variant : {"none", "recover", "basic", "d460"},
   finalize_variant : {"standard", "d460"}, autocut_strategy : {"finalize", "escIM"},
   mode_feed_code : Nat, emit_no_chain_mode : BOOLEAN, mode_before_compression : BOOLEAN,
   completion_validated : BOOLEAN, chain_validated : BOOLEAN,
   tape_width_mask : SUBSET KnownWidths, blank_line_shortcut : BOOLEAN]

-----------------------------------------------------------------------------
(* The questions asked of a profile.                                       *)

\* Of the enumerators' ranges nothing is left: they are the type's.
HasPrintRecipe(p) ==
  /\ p.support \in {"validated", "inspected", "experimental"}
  /\ p.head_dots \in 8..MaxHeadDots /\ p.head_dots % 8 = 0
  /\ p.head_dpi \in {180, 360} /\ p.feed_dpi \in {180, 360}
  /\ p.wire_offset_dots > -p.head_dots /\ p.wire_offset_dots < p.head_dots
  /\ p.mode_feed_code <= 31
  /\ p.autocut_strategy = "escIM" \/ p.mode_feed_code = 0
  /\ p.emit_no_chain_mode \/ p.mode_before_compression => p.autocut_strategy = "escIM"
  /\ p.chain_validated => p.completion_validated
  /\ p.completion_validated => p.support = "validated"
  /\ p.tape_width_mask # {} /\ 21 \notin p.tape_width_mask

AcceptsWidth(p, mm) == HasPrintRecipe(p) /\ mm \in p.tape_width_mask

\* 0x01 laminated and 0x03 non-laminated tape; not 0x11, heat-shrink
AcceptsMedia(p, mm, type) == AcceptsWidth(p, mm) /\ type \in {1, 3}

Smaller(x, y) == IF x < y THEN x ELSE y

\* printable_dots and wire_top_dot of ptouch_media_geometry
PrintableDots(p, mm) ==
  Smaller(IF p.head_dpi = 360 THEN s_tapes[mm].dots_360 ELSE s_tapes[mm].dots_180, p.head_dots)

WindowTop(p, mm) == ((p.head_dots - PrintableDots(p, mm)) \div 2) + p.wire_offset_dots

\* What ptouch_media_geometry returns
HasGeometry(p, mm) ==
  /\ HasPrintRecipe(p) /\ mm \in KnownWidths
  /\ WindowTop(p, mm) >= 0 /\ WindowTop(p, mm) + PrintableDots(p, mm) <= p.head_dots

RowBytes(p) == p.head_dots \div 8

-----------------------------------------------------------------------------
(* s_profiles.                                                             *)

Profile(pid, dots, dpi, raster, encoding, info, final, escIM, widths) ==
  [pid |-> pid, support |-> "experimental",
   head_dots |-> dots, head_dpi |-> dpi, feed_dpi |-> dpi, wire_offset_dots |-> 0,
   raster_select |-> raster, encoding |-> encoding, info_variant |-> info,
   finalize_variant |-> final, autocut_strategy |-> IF escIM THEN "escIM" ELSE "finalize",
   mode_feed_code |-> 0, emit_no_chain_mode |-> FALSE, mode_before_compression |-> FALSE,
   completion_validated |-> FALSE, chain_validated |-> FALSE,
   tape_width_mask |-> widths, blank_line_shortcut |-> FALSE]

LegacyPackbits(pid, dots, dpi, escIM, widths) ==
  Profile(pid, dots, dpi, "legacyR", "packbits", "none", "standard", escIM, widths)
LegacyRaw(pid, escIM, widths) ==
  Profile(pid, 128, 180, "legacyR", "raw", "none", "standard", escIM, widths)
D460Family(pid, raster, escIM, widths) ==
  Profile(pid, 128, 180, raster, "raw", "d460", "d460", escIM, widths)

PT1950 ==
  [LegacyPackbits(8217, 112, 180, TRUE, Widths18 \ {4}) EXCEPT
     !.support = "validated", !.raster_select = "implicit", !.mode_feed_code = 2,
     !.emit_no_chain_mode = TRUE, !.mode_before_compression = TRUE,
     !.completion_validated = TRUE, !.chain_validated = TRUE]
PTP900Wc ==
  [Profile(8325, 560, 360, "dynamicA", "packbits", "basic", "standard", TRUE, Widths36)
     EXCEPT !.wire_offset_dots = 8]
PTP710BT ==
  [Profile(8367, 128, 180, "dynamicA", "packbits", "recover", "standard", TRUE, Widths24)
     EXCEPT !.support = "validated", !.completion_validated = TRUE, !.chain_validated = TRUE,
            !.blank_line_shortcut = TRUE]

\* The other fields of these are zero.
Unsupported(pid) ==
  [Profile(pid, 0, 0, "legacyR", "raw", "none", "standard", FALSE, {})
     EXCEPT !.support = "unsupported"]

s_profiles ==
  << LegacyPackbits(8193, 384, 360, TRUE, Widths36 \ {4}),
     LegacyPackbits(8194, 384, 360, TRUE, Widths36 \ {4}),
     LegacyPackbits(8196, 112, 180, TRUE, Widths24 \ {4}),
     LegacyPackbits(8199, 128, 180, FALSE, Widths24 \ {4}),
     LegacyPackbits(8209, 128, 180, FALSE, Widths24 \ {4}),
     PT1950,
     LegacyRaw(8223, TRUE, Widths24), LegacyRaw(8236, FALSE, Widths12),
     LegacyRaw(8237, FALSE, Widths24), LegacyRaw(8257, FALSE, Widths24),
     LegacyPackbits(8286, 128, 180, TRUE, Widths24),
     LegacyPackbits(8287, 128, 180, FALSE, Widths24),
     Profile(8289, 128, 180, "dynamicA", "packbits", "none", "standard", TRUE, Widths24),
     Profile(8290, 128, 180, "dynamicA", "packbits", "none", "standard", FALSE, Widths24),
     Profile(8307, 128, 180, "legacyR", "raw", "basic", "standard", FALSE, Widths24),
     LegacyPackbits(8308, 128, 180, FALSE, Widths24),
     PTP900Wc, PTP710BT,
     D460Family(8415, "legacyR", TRUE, Widths18), D460Family(8416, "dynamicA", TRUE, Widths18),
     D460Family(8417, "dynamicA", TRUE, Widths24), D460Family(8705, "dynamicA", FALSE, Widths18),
     D460Family(8707, "dynamicA", FALSE, Widths24),
     Unsupported(8288), Unsupported(8240), Unsupported(8241), Unsupported(8292),
     Unsupported(8293), Unsupported(8205) >>

\* The first entry with this product id, or none
Lookup(pid) ==
  LET at == {i \in 1..Len(s_profiles) : s_profiles[i].pid = pid}
  IN  IF at = {} THEN {} ELSE {s_profiles[CHOOSE i \in at : \A j \in at : i <= j]}
=============================================================================
