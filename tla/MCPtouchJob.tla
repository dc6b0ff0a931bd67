------------------------------ MODULE MCPtouchJob ------------------------------
(* Small instances of PtouchJob and PtouchJobStream for TLC. *)
EXTENDS PtouchJobStream

Request(p, mm, h, w, min, pad, chain, autocut) ==
  [valid |-> TRUE, profile |-> p, tape |-> mm, h |-> h, w |-> w, min |-> min,
   pad |-> pad, chain |-> chain, autocut |-> autocut]

\* One of each kind of recipe, at both resolutions
Kinds == UNION {Lookup(pid) : pid \in {8193, 8217, 8223, 8307, 8325, 8367, 8416}}

\* Layouts around the limits of a small int, on one tape: beside blank rows, and with
\* as many rows as an int holds (the longest only where a row has few encodings)
LayoutRequests ==
  {Request(p, 12, 75, w, min, pad, chain, TRUE) :
     p \in Kinds, w \in {1, 2, 4}, min \in {0, 3, 5, 6, 9}, pad \in {0, 1, 3, 9},
     chain \in BOOLEAN}
  \cup {Request(p, 12, 75, w, min, pad, FALSE, TRUE) :
          p \in Kinds \ {PTP710BT, PTP900Wc}, w \in {7, 9}, min \in {0, 9}, pad \in {0, 3}}

\* Every printer of the catalog with every tape, and with one it does not know, the
\* images as high as the window, lower by an odd number of dots, and higher
TapeRequests ==
  {Request(s_profiles[i], mm, PrintableDots(s_profiles[i], mm) + more, 1, 0, 1, FALSE, autocut) :
     i \in DOMAIN s_profiles, mm \in KnownWidths, more \in {-3, 0, 1}, autocut \in BOOLEAN}
  \cup {Request(PTP710BT, 29, 8, 1, 0, 1, FALSE, TRUE)}

\* The extremes of PackBits: one run, and runs of two between single bytes
MCPackedSizes(n) == {2, n + ((n + 2) \div 3)}

MCRequests ==
  LayoutRequests \cup {r \in TapeRequests : r.h > 0}
  \cup {[Request(PTP710BT, 12, 8, 1, 0, 1, FALSE, TRUE) EXCEPT !.valid = FALSE]}
=============================================================================
