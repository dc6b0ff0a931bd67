---------------------------- MODULE PtouchDescriptor ----------------------------
(***************************************************************************)
(* ptouch_usb_find_printer_bulk_pair of src/ptouch_usb_descriptor.c: one    *)
(* pass over the descriptors of a configuration, which selects the single   *)
(* alternate-setting-zero interface with bulk OUT 0x02 and bulk IN 0x81, or *)
(* rejects the device.  usb_task calls it while it attaches a device        *)
(* (AttachClaim of PtouchAttach, whose paired is its result).               *)
(*                                                                         *)
(* The device chooses the descriptors: each is chosen as the pass reads it.  *)
(* A descriptor is a record of the fields the pass reads.  One whose length *)
(* is below 2, below what its type needs, or past the end of the            *)
(* configuration has type "malformed"; the pass reads nothing else of it.   *)
(***************************************************************************)
EXTENDS Naturals, Sequences, FiniteSets

CONSTANTS
  Numbers,       \* interface numbers
  Alternates,    \* alternate settings, with 0 among them
  MaxItems       \* bound: descriptors after the configuration's own

ASSUME AlternatesAssumption == 0 \in Alternates
ASSUME ItemsAssumption == MaxItems \in Nat

VARIABLES
  config,        \* the configuration's own descriptor is valid, and is all there
  items,         \* the descriptors that follow it, as far as the pass has read
  current,       \* current_interface, current_alt, current_out, current_in,
                 \* have_interface and current_recorded
  candidate,     \* the pair selected so far
  found,         \* found
  verdict        \* "walking", then what the call returned: "pair" or "reject"

vars == <<config, items, current, candidate, found, verdict>>

Interfaces == [type : {"interface"}, number : Numbers, alt : Alternates]
\* A bulk endpoint, one whose packet size is not in 1..1024, or another endpoint
Endpoints == [type : {"endpoint"}, address : {"OUT", "IN", "other"},
              transfer : {"bulk", "bulkNoSize", "other"}]
Items == Interfaces \cup Endpoints \cup [type : {"other", "malformed"}]

NoInterface == [have |-> FALSE, recorded |-> FALSE, number |-> 0, alt |-> 0,
                out |-> FALSE, in |-> FALSE]

-----------------------------------------------------------------------------

\* Mutant: recorded is not cleared at the next interface.
EnteredRecorded(i) ==
  [NoInterface EXCEPT !.have = TRUE, !.number = i.number, !.alt = i.alt,
                      !.recorded = current.recorded]

\* The state of the pass at the start of an interface
Entered(i) == [NoInterface EXCEPT !.have = TRUE, !.number = i.number, !.alt = i.alt]

\* ... and after one of its bulk endpoints, not yet recorded.
WithEndpoint(e) == [current EXCEPT !.out = @ \/ e.address = "OUT", !.in = @ \/ e.address = "IN"]

\* This endpoint completes the pair of an interface that has none yet.
Completes(e) ==
  LET c == WithEndpoint(e) IN ~c.recorded /\ c.alt = 0 /\ c.out /\ c.in

\* A descriptor at which the pass gives up: a malformed one, an endpoint before
\* any interface, a bulk endpoint without a valid packet size, an address the
\* interface already has, and a second interface with the pair.
Rejects(i) ==
  \/ i.type = "malformed"
  \/ /\ i.type = "endpoint"
     /\ \/ ~current.have
        \/ i.transfer = "bulkNoSize"
        \/ /\ i.transfer = "bulk"
           /\ \/ i.address = "OUT" /\ current.out
              \/ i.address = "IN" /\ current.in
              \/ Completes(i) /\ found

Reads(i) == verdict = "walking" /\ config /\ Len(items) < MaxItems /\ items' = Append(items, i)

\* The checks before the pass.
RejectConfiguration ==
  /\ verdict = "walking" /\ ~config
  /\ verdict' = "reject"
  /\ UNCHANGED <<config, items, current, candidate, found>>

RejectItem(i) ==
  /\ Reads(i) /\ Rejects(i)
  /\ verdict' = "reject"
  /\ UNCHANGED <<config, current, candidate, found>>

EnterInterface(i) ==
  /\ Reads(i)
  /\ current' = Entered(i)
  /\ UNCHANGED <<config, candidate, found, verdict>>

ReadEndpoint(e) ==
  /\ Reads(e) /\ e.transfer = "bulk" /\ ~Rejects(e)
  /\ current' = [WithEndpoint(e) EXCEPT !.recorded = @ \/ Completes(e)]
  /\ candidate' = IF Completes(e) THEN current.number ELSE candidate
  /\ found' = (found \/ Completes(e))
  /\ UNCHANGED <<config, verdict>>

\* Other descriptors, and endpoints that are not bulk.
Skip(i) ==
  /\ Reads(i) /\ ~Rejects(i)
  /\ i.type = "other" \/ (i.type = "endpoint" /\ i.transfer = "other")
  /\ UNCHANGED <<config, current, candidate, found, verdict>>

\* The end of the configuration, wherever that is.
Finish ==
  /\ verdict = "walking" /\ config
  /\ verdict' = IF found THEN "pair" ELSE "reject"
  /\ UNCHANGED <<config, items, current, candidate, found>>

Init ==
  /\ config \in BOOLEAN
  /\ items = <<>> /\ current = NoInterface /\ candidate = 0 /\ found = FALSE
  /\ verdict = "walking"

Next ==
  \/ RejectConfiguration \/ Finish
  \/ \E i \in Items : RejectItem(i) \/ Skip(i)
  \/ \E i \in Interfaces : EnterInterface(i)
  \/ \E e \in Endpoints : ReadEndpoint(e)

Spec == Init /\ [][Next]_vars

-----------------------------------------------------------------------------
(* What ptouch_usb_descriptor.h promises, on the list as a whole.          *)

\* The endpoints of the interface at position k.
EndpointsOf(k) ==
  {j \in (k + 1)..Len(items) :
     /\ items[j].type = "endpoint" /\ items[j].transfer = "bulk"
     /\ \A m \in (k + 1)..j : items[m].type # "interface"}

InterfacePositions == {k \in 1..Len(items) : items[k].type = "interface"}

At(k, address) == {j \in EndpointsOf(k) : items[j].address = address}

WellFormed ==
  /\ config
  /\ \A j \in 1..Len(items) :
       /\ items[j].type # "malformed"
       /\ items[j].type = "endpoint" =>
            /\ items[j].transfer # "bulkNoSize"
            /\ \E k \in InterfacePositions : k < j
  /\ \A k \in InterfacePositions : \A address \in {"OUT", "IN"} : Cardinality(At(k, address)) <= 1

\* The interfaces that offer the pair.
Offers ==
  {k \in InterfacePositions : items[k].alt = 0 /\ At(k, "OUT") # {} /\ At(k, "IN") # {}}

\* The pass answers the question asked of the whole descriptor: it selects an
\* interface if and only if the descriptor is well formed and exactly one offers
\* the pair, and then that one (ptouch_usb_descriptor.h:26); what it has not read
\* when it rejects cannot change that.
SelectsTheOnlyPair ==
  verdict # "walking" =>
    IF WellFormed /\ Cardinality(Offers) = 1
    THEN verdict = "pair" /\ \A k \in Offers : candidate = items[k].number
    ELSE verdict = "reject"

-----------------------------------------------------------------------------
(* The inductive invariant: what the pass remembers of what it has read.    *)

\* The state of the pass is that of the last interface read, at position k.
CurrentIs(k) ==
  /\ \A j \in InterfacePositions : j <= k
  /\ current.number = items[k].number /\ current.alt = items[k].alt
  /\ current.out <=> At(k, "OUT") # {}
  /\ current.in <=> At(k, "IN") # {}
  /\ current.recorded <=> k \in Offers

Remembered ==
  /\ current \in [have : BOOLEAN, recorded : BOOLEAN, number : Numbers \cup {0},
                  alt : Alternates, out : BOOLEAN, in : BOOLEAN]
  /\ ~current.have => InterfacePositions = {}
  /\ current.have => \E k \in InterfacePositions : CurrentIs(k)
  /\ ~found => Offers = {}
  /\ found => \E k \in Offers : Offers = {k} /\ candidate = items[k].number

WalkInv ==
  /\ items \in Seq(Items) /\ verdict \in {"walking", "pair", "reject"} /\ found \in BOOLEAN
  /\ verdict = "walking" => Remembered /\ (config => WellFormed)
  /\ SelectsTheOnlyPair
=============================================================================
