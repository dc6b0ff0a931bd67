------------------------------ MODULE PtouchLedger ------------------------------
(***************************************************************************)
(* What the driver promises about the label in the printer, without its     *)
(* tasks, transfers and attachments (include/ptouch_usb.h, the comments on   *)
(* the gates): what kind of traffic may be on the wire, when a label is in   *)
(* doubt, and how the doubt ends.  PtouchTransport implements it.           *)
(*                                                                         *)
(* A label comes into doubt with its first submitted byte.  It leaves only  *)
(* by the printer's confirmation, or through the quarantine, which an        *)
(* inspection clears.                                                       *)
(***************************************************************************)

VARIABLES
  work,    \* what is on the wire: "none", "asking" (a status command),
           \* "inspecting" (one after an inspection), "raw" or "printing"
  doubt,   \* a label was submitted and neither confirmed nor inspected
  shut,    \* the output quarantine
  dead,    \* the terminal transport fault
  open     \* the last label ended in a chain that waits for its continuation

ledgerVars == <<work, doubt, shut, dead, open>>

TypeOK ==
  /\ work \in {"none", "asking", "inspecting", "raw", "printing"}
  /\ doubt \in BOOLEAN /\ shut \in BOOLEAN /\ dead \in BOOLEAN /\ open \in BOOLEAN

Init == work = "none" /\ doubt = FALSE /\ shut = FALSE /\ dead = FALSE /\ open = FALSE

\* An ordinary status command starts with ESC @: only a printer that owes
\* nothing gets it.
Ask == work = "none" /\ ~doubt /\ ~shut /\ ~dead /\ ~open /\ work' = "asking"

Inspect == work = "none" /\ ~dead /\ work' = "inspecting"

BeginRaw == work = "none" /\ ~shut /\ ~dead /\ work' = "raw"

BeginPrint == work = "none" /\ ~doubt /\ ~shut /\ ~dead /\ work' = "printing"

Begin == (Ask \/ Inspect \/ BeginRaw \/ BeginPrint) /\ UNCHANGED <<doubt, shut, dead, open>>

\* A status command is over, or its transfer is lost for good.
EndStatus ==
  /\ work \in {"asking", "inspecting"} /\ work' = "none"
  /\ dead' \in {dead, TRUE}
  /\ UNCHANGED <<doubt, shut, open>>

\* A raw command is over, or its transfer is given up, which latches the quarantine.
EndRaw ==
  /\ work = "raw" /\ work' = "none"
  /\ <<shut', dead'>> \in {<<shut, dead>>, <<TRUE, dead>>, <<TRUE, TRUE>>}
  /\ UNCHANGED <<doubt, open>>

\* A chunk of the label is submitted.
Send ==
  /\ work = "printing" /\ ~shut /\ ~dead
  /\ doubt' = TRUE
  /\ UNCHANGED <<work, shut, dead, open>>

\* A transfer of the print is given up, or the print itself.
Latch ==
  /\ work = "printing" /\ doubt
  /\ shut' = TRUE /\ dead' \in {dead, TRUE}
  /\ UNCHANGED <<work, doubt, open>>

Confirm ==
  /\ work = "printing" /\ doubt /\ ~shut /\ ~dead
  /\ work' = "none" /\ doubt' = FALSE /\ open' \in BOOLEAN
  /\ UNCHANGED <<shut, dead>>

\* The print ends unconfirmed: the quarantine is there before its chain is closed.
Abandon ==
  /\ work = "printing" /\ doubt /\ shut
  /\ work' = "none" /\ open' = FALSE
  /\ UNCHANGED <<doubt, shut, dead>>

\* Nothing of the label was submitted.
Withdraw ==
  /\ work = "printing" /\ ~doubt /\ work' = "none"
  /\ UNCHANGED <<doubt, shut, dead, open>>

\* A chain whose continuation sends nothing is as ambiguous as a lost label: it is not
\* closed before the quarantine is there.
BreakChain ==
  /\ work = "none" /\ open
  /\ \/ shut' = TRUE /\ open' = open
     \/ shut /\ shut' = shut /\ open' = FALSE
  /\ UNCHANGED <<work, doubt, dead>>

\* The operator has inspected the tape.
Clear ==
  /\ work \notin {"printing", "raw"} /\ shut
  /\ shut' = FALSE /\ doubt' = FALSE
  /\ UNCHANGED <<work, dead, open>>

Next ==
  \/ Begin \/ EndStatus \/ EndRaw \/ Send \/ Latch \/ Confirm \/ Abandon
  \/ Withdraw \/ BreakChain \/ Clear

Spec == Init /\ [][Next]_ledgerVars

-----------------------------------------------------------------------------

\* A label in doubt is being printed or is behind the quarantine.
DoubtIsShut == doubt => shut \/ work = "printing"

\* No status command reaches a printer that owes a label or a continuation.
AskedOnlyWhenSettled == work = "asking" => ~doubt /\ ~open
=============================================================================
