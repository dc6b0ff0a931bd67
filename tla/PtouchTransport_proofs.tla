------------------------- MODULE PtouchTransport_proofs -------------------------
(***************************************************************************)
(* IInv is an inductive invariant of PtouchTransport, and the safety       *)
(* properties follow from it.  The proof goes action by action: one lemma  *)
(* per action of a call, one step per conjunct of IInv; the steps of       *)
(* usb_task and of the bus are covered together by the first three parts,  *)
(* which are about PtouchAttach alone.                                     *)
(***************************************************************************)
EXTENDS PtouchTransport, TLAPS

USE BoundAssumption, OwnerAssumption

-----------------------------------------------------------------------------
(* usb_task, the client callback, the bus and the event task: types, action *)
(* by action.                                                              *)

EventKinds == {"DETACHED", "UNSUPPORTED", "ATTACHED", "ATTACH_FAILED"}

\* emit() queues a well-formed event or leaves the queue alone.
LEMMA EmitTyped ==
  ASSUME events \in Seq(Events), NEW k \in EventKinds, NEW i \in Infos, Emit(k, i)
  PROVE  events' \in Seq(Events)
<1>1. [kind |-> k, info |-> i] \in Events BY DEF Events, EventKinds
<1>2. QED BY <1>1 DEF Emit

\* An event without device information is typed like the others.
LEMMA NoInfoTyped == NoInfo \in Infos
BY DEF NoInfo, Infos, NoConn

\* client_cb takes one message and sets flags.
LEMMA ClientCallbackTyped == ASSUME AttachTypeOK, ClientCallback PROVE AttachTypeOK'
<1>1. Head(clientQ) \in ClientMsgs /\ clientQ' \in Seq(ClientMsgs)
  BY DEF AttachTypeOK, ClientCallback
<1>2. newPending' \in 0..MaxPlugs
  BY <1>1 DEF AttachTypeOK, ClientCallback, ClientMsgs, Conns
<1>3. gonePending' \in BOOLEAN BY DEF AttachTypeOK, ClientCallback
<1>4. QED BY <1>1, <1>2, <1>3 DEF AttachTypeOK, ClientCallback, contextVars

\* The detach clears the handles to none.
LEMMA DetachClearTyped == ASSUME AttachTypeOK, DetachClear PROVE AttachTypeOK'
<1>1. info' \in Infos BY DEF AttachTypeOK, DetachClear, Infos
<1>2. observed' \in 0..MaxPlugs /\ dev' \in 0..MaxPlugs BY DEF DetachClear, NoConn
<1>3. claimed' = FALSE /\ detected' = FALSE BY DEF DetachClear
<1>4. QED BY <1>1, <1>2, <1>3 DEF AttachTypeOK, DetachClear, hostVars, UsbPcs

\* The detach counts the generation up.
LEMMA DetachRenumberTyped == ASSUME AttachTypeOK, DetachRenumber PROVE AttachTypeOK'
BY DEF AttachTypeOK, DetachRenumber, hostVars, UsbPcs

\* The detach ends with its event.
LEMMA DetachFinishTyped == ASSUME AttachTypeOK, DetachFinish PROVE AttachTypeOK'
<1>1. events' \in Seq(Events)
  BY EmitTyped, NoInfoTyped DEF AttachTypeOK, DetachFinish, EventKinds
<1>2. QED BY <1>1 DEF AttachTypeOK, DetachFinish, hostVars, contextVars, UsbPcs

\* The address that opens was plugged in, so its model is in the record.
LEMMA AttachOpenTyped == ASSUME AttachTypeOK, ConnsKnown, AttachOpen PROVE AttachTypeOK'
<1>1. newPending \in 1..Len(model) /\ newPending \in 1..MaxPlugs /\ generation' \in Nat
  BY DEF AttachTypeOK, ConnsKnown, AttachOpen, Conns
<1>2. profile' \in Profiles \cup {NoProfile} /\ observed' \in 0..MaxPlugs
  BY <1>1 DEF AttachTypeOK, AttachOpen
<1>3. info' \in Infos BY <1>1 DEF AttachOpen, Infos
<1>4. bindings' \subseteq Nat \X (0..MaxPlugs) BY <1>1 DEF AttachTypeOK, AttachOpen
<1>5. QED BY <1>1, <1>2, <1>3, <1>4 DEF AttachTypeOK, AttachOpen, hostVars, UsbPcs, NoConn

\* A refused device is reported.
LEMMA AttachRefuseTyped == ASSUME AttachTypeOK, AttachRefuse PROVE AttachTypeOK'
<1>1. events' \in Seq(Events) BY EmitTyped DEF AttachTypeOK, AttachRefuse, EventKinds
<1>2. QED BY <1>1 DEF AttachTypeOK, AttachRefuse, hostVars, contextVars, UsbPcs

\* A claim, granted or not, is recorded and reported.
LEMMA AttachClaimTyped ==
  ASSUME AttachTypeOK, NEW p \in BOOLEAN, NEW g \in BOOLEAN, AttachClaim(p, g)
  PROVE  AttachTypeOK'
<1>1. info' \in Infos BY DEF AttachTypeOK, AttachClaim, Infos
<1>2. events' \in Seq(Events) BY <1>1, EmitTyped DEF AttachTypeOK, AttachClaim, EventKinds
<1>3. dev' \in 0..MaxPlugs /\ claimed' \in BOOLEAN BY DEF AttachTypeOK, AttachClaim, NoConn
<1>4. QED BY <1>1, <1>2, <1>3 DEF AttachTypeOK, AttachClaim, hostVars, UsbPcs

\* A plugged device gets the next connection and is announced.
LEMMA PlugTyped ==
  ASSUME AttachTypeOK, ConnsKnown, NEW m \in Profiles \cup {NoProfile}, Plug(m)
  PROVE  AttachTypeOK' /\ ConnsKnown'
<1>1. /\ model' \in Seq(Profiles \cup {NoProfile})
      /\ Len(model) \in Nat /\ Len(model') = Len(model) + 1
  BY DEF AttachTypeOK, Plug
<1>2. Len(model') \in Conns BY <1>1 DEF Plug, Conns
<1>3. [ev |-> "NEW_DEV", conn |-> Len(model')] \in ClientMsgs BY <1>2 DEF ClientMsgs
<1>4. clientQ' \in Seq(ClientMsgs) BY <1>3 DEF AttachTypeOK, Plug
<1>5. ConnsKnown'
  <2>1. \A c \in plugged : c \in 1..Len(model) BY DEF ConnsKnown
  <2>2. \A c \in 1..Len(model) : c \in 1..Len(model') BY <1>1
  <2>3. Len(model') \in 1..Len(model') BY <1>1
  <2>4. plugged' = plugged \cup {Len(model')} BY DEF Plug
  <2>5. \A c \in plugged' : c \in 1..Len(model') BY <2>1, <2>2, <2>3, <2>4
  <2>6. QED BY <2>5 DEF ConnsKnown
<1>6. plugged' \subseteq Conns BY <1>2 DEF AttachTypeOK, Plug
<1>7. QED BY <1>1, <1>4, <1>5, <1>6 DEF AttachTypeOK, Plug, contextVars

\* A removal is announced at most once.
LEMMA UnplugTyped == ASSUME AttachTypeOK, NEW c \in plugged, Unplug(c) PROVE AttachTypeOK'
<1>1. [ev |-> "DEV_GONE", conn |-> c] \in ClientMsgs BY DEF AttachTypeOK, ClientMsgs
<1>2. clientQ' \in Seq(ClientMsgs) BY <1>1 DEF AttachTypeOK, Unplug
<1>3. QED BY <1>2 DEF AttachTypeOK, Unplug, contextVars

\* The actions left move the program counter, clear a flag or take an event.
LEMMA AttachTyped == ASSUME AttachTypeOK, ConnsKnown, AttachNext PROVE AttachTypeOK'
<1>1. CASE EventsReturn \/ SkipDetach \/ SkipAttach \/ AttachIgnored \/ AttachInvalidateCache
  BY <1>1 DEF EventsReturn, SkipDetach, SkipAttach, AttachIgnored, AttachInvalidateCache,
              AttachTypeOK, hostVars, contextVars, UsbPcs, NoConn
<1>2. CASE EventTask
  <2>1. events' \in Seq(Events) BY <1>2 DEF EventTask, AttachTypeOK
  <2>2. QED BY <1>2, <2>1 DEF EventTask, AttachTypeOK, hostVars, contextVars
<1>3. QED
  BY <1>1, <1>2, ClientCallbackTyped, DetachClearTyped, DetachRenumberTyped,
     DetachFinishTyped, AttachOpenTyped, AttachRefuseTyped, AttachClaimTyped, PlugTyped,
     UnplugTyped
  DEF AttachNext, UsbStep, BusStep

-----------------------------------------------------------------------------
(* The invariant of the attachment.                                        *)

\* Opening a device gives it a generation nobody had.
LEMMA AttachOpenBinds ==
  ASSUME AttachTypeOK, AttachInv, AttachOpen
  PROVE  GenerationsBound' /\ GenerationNamesOneAttachment'
<1>1. /\ bindings' = bindings \cup {<<generation + 1, newPending>>}
      /\ generation' = generation + 1 /\ observed' = newPending
      /\ \A p \in bindings : p[1] \in Nat /\ p[1] <= generation
      /\ generation \in Nat
  BY DEF AttachOpen, AttachTypeOK, AttachInv, GenerationsBound
<1>2. GenerationsBound' BY <1>1 DEF GenerationsBound
<1>3. GenerationNamesOneAttachment'
  BY <1>1 DEF AttachInv, GenerationNamesOneAttachment
<1>4. QED BY <1>2, <1>3

\* Closing one retires its generation.
LEMMA DetachRenumberBinds ==
  ASSUME AttachTypeOK, AttachInv, DetachRenumber
  PROVE  GenerationsBound' /\ GenerationNamesOneAttachment'
<1>1. /\ bindings' = bindings \cup {<<generation + 1, observed>>}
      /\ generation' = generation + 1 /\ observed' = observed
      /\ \A p \in bindings : p[1] \in Nat /\ p[1] <= generation
      /\ generation \in Nat
  BY DEF DetachRenumber, AttachTypeOK, AttachInv, GenerationsBound
<1>2. GenerationsBound' BY <1>1 DEF GenerationsBound
<1>3. GenerationNamesOneAttachment'
  BY <1>1 DEF AttachInv, GenerationNamesOneAttachment
<1>4. QED BY <1>2, <1>3

\* AttachInv is inductive for everything that runs beside the callers.
LEMMA AttachInvKept == ASSUME AttachTypeOK, AttachInv, AttachNext PROVE AttachInv'
<1>1. ConnsKnown'
  <2>1. ASSUME NEW m \in Profiles \cup {NoProfile}, Plug(m) PROVE ConnsKnown'
    BY <2>1, PlugTyped DEF AttachInv
  <2>2. ASSUME NEW c \in plugged, Unplug(c) PROVE ConnsKnown'
    BY <2>2 DEF AttachInv, ConnsKnown, Unplug
  <2>3. CASE UsbStep \/ EventTask
    BY <2>3 DEF AttachInv, ConnsKnown, UsbStep, EventTask, ClientCallback, EventsReturn,
                SkipDetach, DetachClear, DetachRenumber, DetachFinish, SkipAttach,
                AttachIgnored, AttachOpen, AttachInvalidateCache, AttachRefuse, AttachClaim,
                hostVars
  <2>4. QED BY <2>1, <2>2, <2>3 DEF AttachNext, BusStep
<1>2. UsbHoldsLease'
  BY DEF AttachInv, UsbHoldsLease, AttachNext, UsbStep, BusStep, EventTask, Plug, Unplug,
         ClientCallback, EventsReturn, SkipDetach, DetachClear, DetachRenumber, DetachFinish,
         SkipAttach, AttachIgnored, AttachOpen, AttachInvalidateCache, AttachRefuse,
         AttachClaim, TryLeaseForDetach, TryLeaseForAttach
<1>3. HandlesAgree'
  <2>1. CASE UNCHANGED <<observed, dev, claimed>> /\ usbPc' \in {usbPc, "events", "new", "gone"}
    BY <2>1 DEF AttachInv, HandlesAgree
  <2>2. CASE DetachClear BY <2>2 DEF HandlesAgree, DetachClear
  <2>3. CASE DetachRenumber BY <2>3 DEF AttachInv, HandlesAgree, DetachRenumber
  <2>4. CASE AttachOpen
    BY <2>4 DEF AttachInv, HandlesAgree, AttachOpen, TryLeaseForAttach, NoConn
  <2>5. CASE AttachInvalidateCache
    BY <2>5 DEF AttachInv, HandlesAgree, AttachInvalidateCache, contextVars
  <2>6. ASSUME NEW p \in BOOLEAN, NEW g \in BOOLEAN, AttachClaim(p, g) PROVE HandlesAgree'
    BY <2>6 DEF AttachInv, HandlesAgree, AttachClaim
  <2>7. QED
    BY <2>1, <2>2, <2>3, <2>4, <2>5, <2>6
    DEF AttachNext, UsbStep, BusStep, EventTask, Plug, Unplug, ClientCallback, EventsReturn,
        SkipDetach, DetachFinish, SkipAttach, AttachIgnored, AttachRefuse, contextVars
<1>4. GenerationsBound' /\ GenerationNamesOneAttachment'
  <2>1. CASE AttachOpen BY <2>1, AttachOpenBinds
  <2>2. CASE DetachRenumber BY <2>2, DetachRenumberBinds
  <2>3. CASE DetachClear
    <3>1. usbPc' = "renumber" /\ UNCHANGED <<bindings, generation>> BY <2>3 DEF DetachClear
    <3>2. QED BY <3>1 DEF AttachInv, GenerationsBound, GenerationNamesOneAttachment
  <2>4. CASE /\ UNCHANGED <<bindings, generation, observed>>
             /\ usbPc # "renumber"
    BY <2>4 DEF AttachInv, GenerationsBound, GenerationNamesOneAttachment
  <2>5. CASE UNCHANGED <<bindings, generation, observed, usbPc>>
    BY <2>5 DEF AttachInv, GenerationsBound, GenerationNamesOneAttachment
  <2>6. QED
    BY <2>1, <2>2, <2>3, <2>4, <2>5
    DEF AttachNext, UsbStep, BusStep, EventTask, Plug, Unplug, ClientCallback, EventsReturn,
        SkipDetach, DetachFinish, SkipAttach, AttachIgnored, AttachInvalidateCache,
        AttachRefuse, AttachClaim, contextVars
<1>5. QED BY <1>1, <1>2, <1>3, <1>4 DEF AttachInv

-----------------------------------------------------------------------------
(* What the callers may rely on.                                           *)

\* While a caller has the lease, the context it works with stands still; the
\* cache is only ever emptied, and generations and bindings only grow.
LEMMA AttachRespectsLease ==
  ASSUME AttachTypeOK, AttachInv, AttachNext
  PROVE  /\ ioMtx' # ioMtx => ioMtx \in {Usb, NoTask} /\ ioMtx' \in {Usb, NoTask}
         /\ ioMtx \notin {Usb, NoTask} => UNCHANGED <<dev, claimed, profile, generation>>
         /\ cache' \in {cache, EmptyCache}
         /\ bindings \subseteq bindings'
<1>1. CASE UsbStep
  BY <1>1 DEF AttachInv, UsbHoldsLease, UsbStep, ClientCallback, EventsReturn, SkipDetach,
              DetachClear, DetachRenumber, DetachFinish, SkipAttach, AttachIgnored, AttachOpen,
              AttachInvalidateCache, AttachRefuse, AttachClaim, TryLeaseForDetach,
              TryLeaseForAttach, contextVars
<1>2. CASE BusStep \/ EventTask
  BY <1>2 DEF BusStep, EventTask, Plug, Unplug, contextVars
<1>3. QED BY <1>1, <1>2 DEF AttachNext

\* The invariant holds at start.
LEMMA AttachInitInv == AttachInit => AttachTypeOK /\ AttachInv
<1>1. ASSUME AttachInit PROVE AttachTypeOK
  <2>1. /\ <<>> \in Seq(Profiles \cup {NoProfile}) /\ <<>> \in Seq(ClientMsgs)
        /\ <<>> \in Seq(Events)
    OBVIOUS
  <2>2. {<<0, NoConn>>} \subseteq Nat \X (0..MaxPlugs) BY DEF NoConn
  <2>3. 0 \in 0..MaxPlugs /\ 0 \in Nat OBVIOUS
  <2>4. QED BY <1>1, <2>1, <2>2, <2>3, NoInfoTyped DEF AttachInit, AttachTypeOK, UsbPcs, NoConn
<1>2. ASSUME AttachInit PROVE AttachInv
  BY <1>2 DEF AttachInit, AttachInv, ConnsKnown, UsbHoldsLease, HandlesAgree,
              GenerationsBound, GenerationNamesOneAttachment, NoConn
<1>3. QED BY <1>1, <1>2

-----------------------------------------------------------------------------
(* The event queue.                                                        *)

\* Generations told are numbers.
LEMMA ToldTyped ==
  ASSUME events \in Seq(Events)
  PROVE  \A j \in 1..Len(events) : events[j].info.gen \in Nat
<1>1. \A e \in Events : e.info.gen \in Nat BY DEF Events, Infos
<1>2. QED BY <1>1

\* emit() with an admissible description keeps what is said of the queue: the new
\* event is the last one, and of a later generation than those before it.
LEMMA EmitDescribes ==
  ASSUME events \in Seq(Events), info \in Infos, generation \in Nat, EventsInv,
         NEW k \in EventKinds, NEW i \in Infos, Emit(k, i),
         bindings' = bindings, generation' = generation,
         usbPc' \notin {"admit", "claim"},
         k # "DETACHED" =>
           /\ usbPc \in {"admit", "claim"} /\ i.gen = generation
           /\ <<i.gen, i.conn>> \in bindings
           /\ i.claimed <=> k = "ATTACHED"
  PROVE  EventsInv'
<1> DEFINE e == [kind |-> k, info |-> i]
<1>0. e \in Events BY DEF Events, EventKinds
<1>1. InfoOfTarget' BY DEF InfoOfTarget
<1>2. CASE events' = events
  BY <1>1, <1>2 DEF EventsInv, EventsDescribeTheirAttachment, ToldSoFar
<1>3. CASE events' = Append(events, e)
  <2>1. /\ Len(events') = Len(events) + 1 /\ events'[Len(events) + 1] = e
        /\ \A j \in 1..Len(events) : events'[j] = events[j]
        /\ e.kind = k /\ e.info = i
    BY <1>0, <1>3
  <2>2. \A j \in 1..Len(events') : j \in 1..Len(events) \/ j = Len(events) + 1
    BY <2>1
  <2>3. \A j \in 1..Len(events) : events[j].kind # "DETACHED" =>
          /\ events[j].info.gen <= generation
          /\ k # "DETACHED" => events[j].info.gen < generation
    BY DEF EventsInv, ToldSoFar
  <2>4. ToldSoFar'
    <3>1. ASSUME NEW j \in 1..Len(events'), events'[j].kind # "DETACHED"
          PROVE  events'[j].info.gen <= generation
      <4>1. CASE j \in 1..Len(events) BY <2>1, <2>3, <3>1, <4>1
      <4>2. CASE j = Len(events) + 1 BY <2>1, <3>1, <4>2
      <4>3. QED BY <2>2, <4>1, <4>2
    <3>2. QED BY <3>1 DEF ToldSoFar
  <2>5. ASSUME NEW j \in 1..Len(events'), events'[j].kind # "DETACHED"
        PROVE  /\ <<events'[j].info.gen, events'[j].info.conn>> \in bindings
               /\ events'[j].info.claimed <=> events'[j].kind = "ATTACHED"
    <3>1. CASE j \in 1..Len(events)
      BY <2>1, <2>5, <3>1 DEF EventsInv, EventsDescribeTheirAttachment
    <3>2. CASE j = Len(events) + 1 BY <2>1, <2>5, <3>2
    <3>3. QED BY <2>2, <3>1, <3>2
  <2>6. ASSUME NEW m \in 1..Len(events'), NEW n \in 1..Len(events'), m < n,
               events'[m].kind # "DETACHED", events'[n].kind # "DETACHED"
        PROVE  events'[m].info.gen < events'[n].info.gen
    <3>1. m \in 1..Len(events) BY <2>1, <2>2, <2>6
    <3>2. CASE n \in 1..Len(events)
      BY <2>1, <2>6, <3>1, <3>2 DEF EventsInv, EventsDescribeTheirAttachment
    <3>3. CASE n = Len(events) + 1
      <4>1. k # "DETACHED" /\ events'[n].info.gen = generation BY <2>1, <2>6, <3>3
      <4>2. events[m].kind # "DETACHED" /\ events'[m] = events[m] BY <2>1, <2>6, <3>1
      <4>3. QED BY <2>3, <3>1, <4>1, <4>2
    <3>4. QED BY <2>2, <3>2, <3>3
  <2>7. EventsDescribeTheirAttachment' BY <2>5, <2>6 DEF EventsDescribeTheirAttachment
  <2>8. QED BY <1>1, <2>4, <2>7 DEF EventsInv
<1>4. QED BY <1>2, <1>3 DEF Emit

\* Taking the oldest event, and an attach or a detach that numbers a new
\* generation, keep it as well.
LEMMA EventsKept ==
  ASSUME AttachTypeOK, AttachInv, EventsInv, AttachNext
  PROVE  EventsInv'
<1>1. CASE /\ UNCHANGED <<events, bindings, generation, info, observed>>
           /\ usbPc' \in {"admit", "claim"} => usbPc \in {"admit", "claim"}
  BY <1>1 DEF EventsInv, EventsDescribeTheirAttachment, InfoOfTarget, ToldSoFar
<1>2. CASE EventTask
  <2>1. /\ Len(events') = Len(events) - 1
        /\ \A j \in 1..Len(events') : j + 1 \in 1..Len(events) /\ events'[j] = events[j + 1]
        /\ UNCHANGED <<bindings, generation, info, observed, usbPc>>
    BY <1>2 DEF EventTask, AttachTypeOK, contextVars
  <2>2. ToldSoFar' BY <2>1 DEF EventsInv, ToldSoFar
  <2>3. EventsDescribeTheirAttachment'
    <3>1. \A j \in 1..Len(events') : events'[j].kind # "DETACHED" =>
            /\ <<events'[j].info.gen, events'[j].info.conn>> \in bindings
            /\ events'[j].info.claimed <=> events'[j].kind = "ATTACHED"
      BY <2>1 DEF EventsInv, EventsDescribeTheirAttachment
    <3>2. ASSUME NEW m \in 1..Len(events'), NEW n \in 1..Len(events'), m < n,
                 events'[m].kind # "DETACHED", events'[n].kind # "DETACHED"
          PROVE  events'[m].info.gen < events'[n].info.gen
      <4>1. m + 1 \in 1..Len(events) /\ n + 1 \in 1..Len(events) /\ m + 1 < n + 1
        BY <2>1, <3>2
      <4>2. events'[m] = events[m + 1] /\ events'[n] = events[n + 1] BY <2>1
      <4>3. QED BY <3>2, <4>1, <4>2 DEF EventsInv, EventsDescribeTheirAttachment
    <3>3. QED BY <2>1, <3>1, <3>2 DEF EventsDescribeTheirAttachment
  <2>4. InfoOfTarget' BY <2>1 DEF EventsInv, InfoOfTarget
  <2>5. QED BY <2>2, <2>3, <2>4 DEF EventsInv
<1>3. CASE DetachClear \/ DetachRenumber \/ AttachOpen
  <2>1. /\ events' = events /\ bindings \subseteq bindings'
        /\ generation' \in {generation, generation + 1} /\ generation \in Nat
        /\ usbPc' \in {"admit", "claim"} => AttachOpen
    BY <1>3 DEF DetachClear, DetachRenumber, AttachOpen, AttachTypeOK
  <2>2. \A j \in 1..Len(events) : events[j].info.gen \in Nat
    BY ToldTyped DEF AttachTypeOK
  <2>3. AttachOpen => generation' = generation + 1
                      /\ info' = [conn |-> observed', gen |-> generation', claimed |-> FALSE]
    BY DEF AttachOpen
  <2>4. ToldSoFar' BY <2>1, <2>2, <2>3 DEF EventsInv, ToldSoFar
  <2>5. EventsDescribeTheirAttachment'
    BY <2>1 DEF EventsInv, EventsDescribeTheirAttachment
  <2>6. InfoOfTarget' BY <2>1, <2>3 DEF InfoOfTarget
  <2>7. QED BY <2>4, <2>5, <2>6 DEF EventsInv
<1>4. CASE DetachFinish
  BY <1>4, EmitDescribes, NoInfoTyped DEF DetachFinish, AttachTypeOK, EventKinds, contextVars
<1>5. CASE AttachRefuse
  <2>1. /\ info.gen = generation /\ info.conn = observed /\ ~info.claimed
        /\ <<generation, observed>> \in bindings
    BY <1>5 DEF AttachRefuse, EventsInv, InfoOfTarget, AttachInv, GenerationsBound
  <2>2. QED
    BY <1>5, <2>1, EmitDescribes DEF AttachRefuse, AttachTypeOK, EventKinds, contextVars
<1>6. ASSUME NEW p \in BOOLEAN, NEW g \in BOOLEAN, AttachClaim(p, g) PROVE EventsInv'
  <2>1. /\ info'.gen = generation /\ info'.conn = observed /\ info'.claimed = (p /\ g)
        /\ <<generation, observed>> \in bindings /\ info' \in Infos
    <3>1. info = [conn |-> observed, gen |-> generation, claimed |-> FALSE]
      BY <1>6 DEF AttachClaim, EventsInv, InfoOfTarget
    <3>2. info' = [info EXCEPT !.claimed = (p /\ g)] BY <1>6 DEF AttachClaim
    <3>3. info' = [conn |-> observed, gen |-> generation, claimed |-> (p /\ g)]
      BY <3>1, <3>2
    <3>4. info' \in Infos BY <3>3 DEF AttachTypeOK, Infos
    <3>5. <<generation, observed>> \in bindings
      BY <1>6 DEF AttachClaim, AttachInv, GenerationsBound
    <3>6. QED BY <3>3, <3>4, <3>5
  <2>2. PICK k \in EventKinds : Emit(k, info') /\ k # "DETACHED" /\ (k = "ATTACHED" <=> (p /\ g))
    <3>1. CASE p /\ g BY <1>6, <3>1 DEF AttachClaim, EventKinds
    <3>2. CASE ~(p /\ g) BY <1>6, <3>2 DEF AttachClaim, EventKinds
    <3>3. QED BY <3>1, <3>2
  <2>3. /\ bindings' = bindings /\ generation' = generation
        /\ usbPc = "claim" /\ usbPc' = "events"
    BY <1>6 DEF AttachClaim
  <2>4. QED BY <2>1, <2>2, <2>3, EmitDescribes DEF AttachTypeOK
<1>7. QED
  BY <1>1, <1>2, <1>3, <1>4, <1>5, <1>6
  DEF AttachNext, UsbStep, BusStep, Plug, Unplug, ClientCallback, EventsReturn, SkipDetach,
      SkipAttach, AttachIgnored, AttachInvalidateCache, contextVars

-----------------------------------------------------------------------------
(* The calls.                                                              *)

\* A call that moves the lease only between itself and nobody leaves the
\* attachment's types and invariant as they are.
LEMMA ContextKept ==
  ASSUME AttachTypeOK, AttachInv, AttachContextUnchanged,
         ioMtx' = ioMtx \/ (ioMtx # Usb /\ ioMtx' # Usb)
  PROVE  AttachTypeOK' /\ AttachInv'
BY DEF AttachContextUnchanged, AttachTypeOK, AttachInv, ConnsKnown, UsbHoldsLease,
       HandlesAgree, GenerationsBound, GenerationNamesOneAttachment, hostVars, contextVars

\* The locals of nobody are typed as locals.
LEMMA NoTxnTyped == NoTxn \in Txns
BY FramesAssumption DEF NoTxn, Txns

\* The invalidated cache is one.
LEMMA EmptyCacheTyped == EmptyCache \in Caches
BY BoundAssumption DEF EmptyCache, Caches, NoConn

\* And so is the job of a task that has none.
LEMMA NoJobTyped == NoJob \in Jobs
BY FramesAssumption, BoundAssumption DEF NoJob, Jobs, NoConn

\* Counting one packet or chunk down keeps the locals' type.
LEMMA CountedTyped ==
  ASSUME txn \in Txns, NEW n \in 0..MaxFrames, NEW s \in BOOLEAN
  PROVE  [txn EXCEPT !.left = n, !.sent = s] \in Txns
BY DEF Txns

\* A job built from a snapshot carries the snapshot.
LEMMA JobsForTyped ==
  ASSUME NEW p \in Profiles \cup {NoProfile}, NEW g \in Nat, NEW c \in 0..MaxPlugs,
         NEW j \in JobsFor(p, g, c)
  PROVE  j \in Jobs /\ j.gen = g /\ j.conn = c
<1>1. PICK chained \in {x \in BOOLEAN : x => p \in Chainable}, n \in 1..MaxFrames :
        j = [profile |-> p, gen |-> g, conn |-> c, chain |-> chained, frames |-> n]
  BY DEF JobsFor
<1>2. chained \in BOOLEAN OBVIOUS
<1>3. QED BY <1>1, <1>2 DEF Jobs

\* Entering a call changes nothing but the caller's own place.
LEMMA CallKeeps ==
  ASSUME IInv, NEW t \in Callers, NEW o \in Ops, Call(t, o)
  PROVE  IInv'
<1> USE CallersAssumption, OwnerAssumption DEF IInv, TypeOK, Call, Goto, AttachContextUnchanged,
        contextVars, gateVars, historyVars
<1>1. CallTypeOK' BY OpsAssumption DEF CallTypeOK, HolderPcs, FreePcs
<1>2. SharedTypeOK' /\ GateTypeOK' BY DEF SharedTypeOK, GateTypeOK
<1>3. LeaseHeld' /\ WorkLeft' /\ StepsOfOp' BY DEF LeaseHeld, WorkLeft, StepsOfOp, HolderPcs
<1>4. DeviceOfCalls' BY DEF DeviceOfCalls, Claimed, TransferPcs, StatusPcs, OutputPcs
<1>5. GatesOfCalls' BY DEF GatesOfCalls, TransferPcs, StatusPcs, OutputPcs
<1>6. ChainOfCalls' BY DEF ChainOfCalls
<1>7. OutputAccounted' BY DEF OutputAccounted
<1>8. StatusOnlyToSettledPrinter' BY DEF StatusOnlyToSettledPrinter
<1>9. CarriedGenerations' BY DEF CarriedGenerations
<1> QED BY <1>1, <1>2, <1>3, <1>4, <1>5, <1>6, <1>7, <1>8, <1>9, ContextKept

\* Taking the free lease starts a call with fresh locals and the current generation.
LEMMA TakeLeaseKeeps ==
  ASSUME IInv, NEW t \in Callers, TakeLease(t)
  PROVE  IInv'
<1> USE CallersAssumption, OwnerAssumption DEF IInv, TypeOK, TakeLease, Goto,
        AttachContextUnchanged, contextVars, gateVars, historyVars
<1>t. txn' \in Txns
  <2>1. generation \in Nat BY DEF AttachTypeOK
  <2>2. [NoTxn EXCEPT !.gen = generation] \in Txns BY <2>1, NoTxnTyped DEF Txns
  <2>3. QED BY <2>2
<1>1. CallTypeOK' BY <1>t DEF CallTypeOK, HolderPcs
<1>2. SharedTypeOK' /\ GateTypeOK' BY DEF SharedTypeOK, GateTypeOK
<1>3. LeaseHeld' /\ WorkLeft' /\ StepsOfOp'
  BY DEF CallTypeOK, LeaseHeld, WorkLeft, StepsOfOp, HolderPcs
<1>4. DeviceOfCalls' BY DEF DeviceOfCalls, Claimed, TransferPcs, StatusPcs, OutputPcs
<1>5. GatesOfCalls'
  BY DEF LeaseHeld, GatesOfCalls, HolderPcs, NoTxn, TransferPcs, StatusPcs, OutputPcs
<1>6. ChainOfCalls' BY DEF LeaseHeld, ChainOfCalls, HolderPcs
<1>7. OutputAccounted' BY DEF LeaseHeld, OutputAccounted, HolderPcs
<1>8. StatusOnlyToSettledPrinter' BY DEF StatusOnlyToSettledPrinter
<1>9. CarriedGenerations' BY DEF CarriedGenerations
<1> QED BY <1>1, <1>2, <1>3, <1>4, <1>5, <1>6, <1>7, <1>8, <1>9, ContextKept

\* A poll that misses the lease goes on without it.
LEMMA TryLeaseFailsKeeps ==
  ASSUME IInv, NEW t \in Callers, TryLeaseFails(t)
  PROVE  IInv'
<1> USE CallersAssumption, OwnerAssumption DEF IInv, TypeOK, TryLeaseFails, Goto,
        AttachContextUnchanged, contextVars, gateVars, historyVars
<1>1. CallTypeOK' BY DEF CallTypeOK, FreePcs
<1>2. SharedTypeOK' /\ GateTypeOK' BY DEF SharedTypeOK, GateTypeOK
<1>3. LeaseHeld' /\ WorkLeft' /\ StepsOfOp' BY DEF LeaseHeld, WorkLeft, StepsOfOp, HolderPcs
<1>4. DeviceOfCalls' BY DEF DeviceOfCalls, Claimed, TransferPcs, StatusPcs, OutputPcs
<1>5. GatesOfCalls' BY DEF GatesOfCalls, TransferPcs, StatusPcs, OutputPcs
<1>6. ChainOfCalls' BY DEF ChainOfCalls
<1>7. OutputAccounted' BY DEF OutputAccounted
<1>8. StatusOnlyToSettledPrinter' BY DEF StatusOnlyToSettledPrinter
<1>9. CarriedGenerations' BY DEF CarriedGenerations
<1> QED BY <1>1, <1>2, <1>3, <1>4, <1>5, <1>6, <1>7, <1>8, <1>9, ContextKept

\* A snapshot's job carries the generation bound to the claimed device.
LEMMA SnapshotKeeps ==
  ASSUME IInv, NEW t \in Callers, Snapshot(t)
  PROVE  IInv'
<1> USE CallersAssumption, OwnerAssumption DEF IInv, TypeOK, Snapshot, Return, Goto,
        AttachContextUnchanged, contextVars, gateVars, historyVars
<1>t. txn' \in Txns BY NoTxnTyped
<1>c. ioMtx = t /\ ioMtx' = NoTask BY DEF LeaseHeld, HolderPcs
<1>1. CallTypeOK' BY <1>t DEF CallTypeOK, FreePcs
<1>2. SharedTypeOK' /\ GateTypeOK'
  <2>1. profile \in Profiles \cup {NoProfile} /\ generation \in Nat /\ dev \in 0..MaxPlugs
    BY DEF AttachTypeOK
  <2>2. \E j \in Jobs : job' = [job EXCEPT ![t] = j] BY <2>1, JobsForTyped DEF SharedTypeOK
  <2>3. QED BY <2>2, <1>c DEF SharedTypeOK, GateTypeOK
<1>3. LeaseHeld' /\ WorkLeft' /\ StepsOfOp'
  BY DEF CallTypeOK, LeaseHeld, WorkLeft, StepsOfOp, HolderPcs
<1>4. DeviceOfCalls' BY DEF DeviceOfCalls, Claimed, TransferPcs, StatusPcs, OutputPcs
<1>5. GatesOfCalls'
  BY DEF CallTypeOK, LeaseHeld, GatesOfCalls, HolderPcs, TransferPcs, StatusPcs, OutputPcs
<1>6. ChainOfCalls' BY DEF LeaseHeld, ChainOfCalls, HolderPcs
<1>7. OutputAccounted' BY DEF LeaseHeld, OutputAccounted, HolderPcs
<1>8. StatusOnlyToSettledPrinter' BY DEF StatusOnlyToSettledPrinter
<1>9. CarriedGenerations'
  <2>1. Ready => <<generation, dev>> \in bindings
    BY <1>c DEF Ready, Claimed, AttachInv, UsbHoldsLease, HandlesAgree, GenerationsBound
  <2>2. profile \in Profiles \cup {NoProfile} /\ generation \in Nat /\ dev \in 0..MaxPlugs
    BY DEF AttachTypeOK
  <2>3. PICK j : /\ job' = [job EXCEPT ![t] = j]
                 /\ j = job[t] \/ (Ready /\ j \in JobsFor(profile, generation, dev))
    OBVIOUS
  <2>4. <<j.gen, j.conn>> \in bindings
    <3>1. CASE j = job[t] BY <3>1 DEF CarriedGenerations
    <3>2. CASE Ready /\ j \in JobsFor(profile, generation, dev)
      <4>1. j.gen = generation /\ j.conn = dev BY <3>2, <2>2, JobsForTyped
      <4>2. QED BY <4>1, <3>2, <2>1
    <3>3. QED BY <2>3, <3>1, <3>2
  <2>5. QED
    BY <2>3, <2>4 DEF CarriedGenerations, CallTypeOK, SharedTypeOK
<1> QED BY <1>c, <1>1, <1>2, <1>3, <1>4, <1>5, <1>6, <1>7, <1>8, <1>9, ContextKept

\* The cached snapshot only reads.
LEMMA CachedReadyKeeps ==
  ASSUME IInv, NEW t \in Callers, CachedReady(t)
  PROVE  IInv'
<1> USE CallersAssumption, OwnerAssumption DEF IInv, TypeOK, CachedReady, Return, Goto,
        AttachContextUnchanged, contextVars, gateVars, historyVars
<1>t. txn' \in Txns BY NoTxnTyped
<1>c. ioMtx = t /\ ioMtx' = NoTask BY DEF LeaseHeld, HolderPcs
<1>1. CallTypeOK' BY <1>t DEF CallTypeOK, FreePcs
<1>2. SharedTypeOK' /\ GateTypeOK' BY DEF SharedTypeOK, GateTypeOK
<1>3. LeaseHeld' /\ WorkLeft' /\ StepsOfOp'
  BY DEF CallTypeOK, LeaseHeld, WorkLeft, StepsOfOp, HolderPcs
<1>4. DeviceOfCalls' BY DEF DeviceOfCalls, Claimed, TransferPcs, StatusPcs, OutputPcs
<1>5. GatesOfCalls'
  BY DEF CallTypeOK, LeaseHeld, GatesOfCalls, HolderPcs, TransferPcs, StatusPcs, OutputPcs
<1>6. ChainOfCalls' BY DEF LeaseHeld, ChainOfCalls, HolderPcs
<1>7. OutputAccounted' BY DEF LeaseHeld, OutputAccounted, HolderPcs
<1>8. StatusOnlyToSettledPrinter' BY DEF StatusOnlyToSettledPrinter
<1>9. CarriedGenerations' BY DEF CarriedGenerations
<1> QED BY <1>c, <1>1, <1>2, <1>3, <1>4, <1>5, <1>6, <1>7, <1>8, <1>9, ContextKept

\* A refused job has sent nothing; what it settles is its continuation.
LEMMA JobRefusedKeeps ==
  ASSUME IInv, NEW t \in Callers, JobRefused(t)
  PROVE  IInv'
<1> USE CallersAssumption, OwnerAssumption DEF IInv, TypeOK, JobRefused, Goto,
        AttachContextUnchanged, contextVars, gateVars, historyVars
<1>t. txn' \in Txns BY FramesAssumption DEF CallTypeOK, Txns
<1>1. CallTypeOK' BY <1>t DEF CallTypeOK, HolderPcs
<1>2. SharedTypeOK' /\ GateTypeOK' BY DEF SharedTypeOK, GateTypeOK
<1>3. LeaseHeld' /\ WorkLeft' /\ StepsOfOp'
  BY DEF LeaseHeld, WorkLeft, StepsOfOp, HolderPcs, PrintOps
<1>4. DeviceOfCalls' BY DEF DeviceOfCalls, Claimed, TransferPcs, StatusPcs, OutputPcs
<1>5. GatesOfCalls'
  BY DEF CallTypeOK, LeaseHeld, GatesOfCalls, HolderPcs, TransferPcs, StatusPcs, OutputPcs
<1>6. ChainOfCalls' BY DEF LeaseHeld, ChainOfCalls, HolderPcs
<1>7. OutputAccounted' BY DEF GatesOfCalls, OutputAccounted
<1>8. StatusOnlyToSettledPrinter' BY DEF StatusOnlyToSettledPrinter
<1>9. CarriedGenerations' BY DEF CarriedGenerations
<1> QED BY <1>1, <1>2, <1>3, <1>4, <1>5, <1>6, <1>7, <1>8, <1>9, ContextKept

\* A job that starts no continuation goes to its preflight with every gate open.
LEMMA JobPreflightKeeps ==
  ASSUME IInv, NEW t \in Callers, JobPreflight(t)
  PROVE  IInv'
<1> USE CallersAssumption, OwnerAssumption DEF IInv, TypeOK, JobPreflight, Goto,
        AttachContextUnchanged, contextVars, gateVars, historyVars
<1>1. CallTypeOK' BY DEF CallTypeOK, HolderPcs
<1>2. SharedTypeOK' /\ GateTypeOK' BY DEF SharedTypeOK, GateTypeOK
<1>3. LeaseHeld' /\ WorkLeft' /\ StepsOfOp' BY DEF LeaseHeld, WorkLeft, StepsOfOp, HolderPcs
<1>4. DeviceOfCalls'
  BY DEF DeviceOfCalls, Claimed, TransferPcs, StatusPcs, OutputPcs, Ready, JobAdmitted
<1>5. GatesOfCalls' BY DEF GatesOfCalls, OutputBlocked, JobAdmitted
<1>6. ChainOfCalls' BY DEF CallTypeOK, GateTypeOK, Txns, GatesOfCalls, ChainOfCalls
<1>7. OutputAccounted' BY DEF OutputAccounted
<1>8. StatusOnlyToSettledPrinter' BY DEF StatusOnlyToSettledPrinter
<1>9. CarriedGenerations' BY DEF CarriedGenerations
<1> QED BY <1>1, <1>2, <1>3, <1>4, <1>5, <1>6, <1>7, <1>8, <1>9, ContextKept

\* A continuation is admitted with the chain it continues still open.
LEMMA JobContinuesKeeps ==
  ASSUME IInv, NEW t \in Callers, JobContinues(t)
  PROVE  IInv'
<1> USE CallersAssumption, OwnerAssumption DEF IInv, TypeOK, JobContinues, Goto,
        AttachContextUnchanged, contextVars, gateVars, historyVars
<1>t. txn' \in Txns BY FramesAssumption DEF CallTypeOK, Txns
<1>1. CallTypeOK' BY <1>t DEF CallTypeOK, HolderPcs
<1>2. SharedTypeOK' /\ GateTypeOK' BY DEF SharedTypeOK, GateTypeOK
<1>3. LeaseHeld' /\ WorkLeft' /\ StepsOfOp' BY DEF LeaseHeld, WorkLeft, StepsOfOp, HolderPcs
<1>4. DeviceOfCalls'
  BY DEF DeviceOfCalls, Claimed, TransferPcs, StatusPcs, OutputPcs, Ready, JobAdmitted
<1>5. GatesOfCalls'
  BY DEF CallTypeOK, LeaseHeld, GatesOfCalls, HolderPcs, OutputBlocked, JobAdmitted
<1>6. ChainOfCalls' BY DEF LeaseHeld, ChainOfCalls, HolderPcs
<1>7. OutputAccounted' BY DEF OutputAccounted
<1>8. StatusOnlyToSettledPrinter' BY DEF StatusOnlyToSettledPrinter
<1>9. CarriedGenerations' BY DEF CarriedGenerations
<1> QED BY <1>1, <1>2, <1>3, <1>4, <1>5, <1>6, <1>7, <1>8, <1>9, ContextKept

\* The compatibility path starts only with every gate and the chain closed.
LEMMA LegacyPreflightKeeps ==
  ASSUME IInv, NEW t \in Callers, LegacyPreflight(t)
  PROVE  IInv'
<1> USE CallersAssumption, OwnerAssumption DEF IInv, TypeOK, LegacyPreflight, Goto,
        AttachContextUnchanged, contextVars, gateVars, historyVars
<1>1. CallTypeOK' BY DEF CallTypeOK, HolderPcs
<1>2. SharedTypeOK' /\ GateTypeOK' BY DEF SharedTypeOK, GateTypeOK
<1>3. LeaseHeld' /\ WorkLeft' /\ StepsOfOp' BY DEF LeaseHeld, WorkLeft, StepsOfOp, HolderPcs
<1>4. DeviceOfCalls' BY DEF DeviceOfCalls, Claimed, TransferPcs, StatusPcs, OutputPcs
<1>5. GatesOfCalls' BY DEF GatesOfCalls, StatusCommandsBlocked, LegacyAdmitted
<1>6. ChainOfCalls' BY DEF ChainOfCalls, StatusCommandsBlocked, LegacyAdmitted
<1>7. OutputAccounted' BY DEF OutputAccounted
<1>8. StatusOnlyToSettledPrinter' BY DEF StatusOnlyToSettledPrinter
<1>9. CarriedGenerations' BY DEF CarriedGenerations
<1> QED BY <1>1, <1>2, <1>3, <1>4, <1>5, <1>6, <1>7, <1>8, <1>9, ContextKept

\* A raw command starts on a claimed device, unquarantined and sound.
LEMMA BulkStartKeeps ==
  ASSUME IInv, NEW t \in Callers, NEW n \in 1..MaxFrames, BulkStart(t, n)
  PROVE  IInv'
<1> USE CallersAssumption, OwnerAssumption DEF IInv, TypeOK, BulkStart, Goto,
        AttachContextUnchanged, contextVars, gateVars, historyVars
<1>t. txn' \in Txns BY FramesAssumption DEF CallTypeOK, Txns
<1>1. CallTypeOK' BY <1>t DEF CallTypeOK, HolderPcs
<1>2. SharedTypeOK' /\ GateTypeOK' BY DEF SharedTypeOK, GateTypeOK
<1>3. LeaseHeld' /\ WorkLeft' /\ StepsOfOp' BY DEF LeaseHeld, WorkLeft, StepsOfOp, HolderPcs
<1>4. DeviceOfCalls' BY DEF DeviceOfCalls, Claimed, TransferPcs, OutputPcs, BulkAdmitted
<1>5. GatesOfCalls' BY DEF GatesOfCalls, BulkAdmitted
<1>6. ChainOfCalls' BY DEF ChainOfCalls
<1>7. OutputAccounted' BY DEF OutputAccounted
<1>8. StatusOnlyToSettledPrinter' BY DEF StatusOnlyToSettledPrinter
<1>9. CarriedGenerations' BY DEF CarriedGenerations
<1> QED BY <1>1, <1>2, <1>3, <1>4, <1>5, <1>6, <1>7, <1>8, <1>9, ContextKept

\* These refusals release the lease and touch nothing else.
LEMMA RefusedKeeps ==
  ASSUME IInv, NEW t \in Callers, Refused(t)
  PROVE  IInv'
<1> USE CallersAssumption, OwnerAssumption DEF IInv, TypeOK, Refused, Return, Goto,
        AttachContextUnchanged, contextVars, gateVars, historyVars
<1>t. txn' \in Txns BY NoTxnTyped
<1>c. ioMtx = t /\ ioMtx' = NoTask BY DEF LeaseHeld, HolderPcs
<1>1. CallTypeOK' BY <1>t DEF CallTypeOK, FreePcs
<1>2. SharedTypeOK' /\ GateTypeOK' BY DEF SharedTypeOK, GateTypeOK
<1>3. LeaseHeld' /\ WorkLeft' /\ StepsOfOp'
  BY DEF CallTypeOK, LeaseHeld, WorkLeft, StepsOfOp, HolderPcs
<1>4. DeviceOfCalls' BY DEF DeviceOfCalls, Claimed, TransferPcs, StatusPcs, OutputPcs
<1>5. GatesOfCalls'
  BY DEF CallTypeOK, LeaseHeld, GatesOfCalls, HolderPcs, TransferPcs, StatusPcs, OutputPcs
<1>6. ChainOfCalls' BY DEF LeaseHeld, ChainOfCalls, HolderPcs
<1>7. OutputAccounted' BY DEF LeaseHeld, OutputAccounted, HolderPcs
<1>8. StatusOnlyToSettledPrinter' BY DEF StatusOnlyToSettledPrinter
<1>9. CarriedGenerations' BY DEF CarriedGenerations
<1> QED BY <1>c, <1>1, <1>2, <1>3, <1>4, <1>5, <1>6, <1>7, <1>8, <1>9, ContextKept

\* Raster starts on the generation the job names, with the gates still open.
LEMMA RasterStartKeeps ==
  ASSUME IInv, NEW t \in Callers, NEW n \in 1..MaxFrames, RasterStart(t, n)
  PROVE  IInv'
<1> USE CallersAssumption, OwnerAssumption DEF IInv, TypeOK, RasterStart, Goto,
        AttachContextUnchanged, contextVars, gateVars, historyVars
<1>t. txn' \in Txns BY FramesAssumption DEF CallTypeOK, Txns
<1>1. CallTypeOK' BY <1>t DEF CallTypeOK, HolderPcs
<1>2. SharedTypeOK' /\ GateTypeOK' BY DEF SharedTypeOK, GateTypeOK
<1>3. LeaseHeld' /\ WorkLeft' /\ StepsOfOp' BY DEF LeaseHeld, WorkLeft, StepsOfOp, HolderPcs
<1>4. DeviceOfCalls'
  BY DEF DeviceOfCalls, Claimed, TransferPcs, OutputPcs, BulkAdmitted, RasterAdmitted
<1>5. GatesOfCalls' BY DEF GatesOfCalls, RasterAdmitted
<1>6. ChainOfCalls' BY DEF ChainOfCalls
<1>7. OutputAccounted' BY DEF OutputAccounted
<1>8. StatusOnlyToSettledPrinter' BY DEF StatusOnlyToSettledPrinter
<1>9. CarriedGenerations' BY DEF CarriedGenerations, SameTarget, RasterAdmitted
<1> QED BY <1>1, <1>2, <1>3, <1>4, <1>5, <1>6, <1>7, <1>8, <1>9, ContextKept

\* A print refused after its preflight has sent nothing.
LEMMA RasterRefusedKeeps ==
  ASSUME IInv, NEW t \in Callers, RasterRefused(t)
  PROVE  IInv'
<1> USE CallersAssumption, OwnerAssumption DEF IInv, TypeOK, RasterRefused, Goto,
        AttachContextUnchanged, contextVars, gateVars, historyVars
<1>t. txn' \in Txns BY FramesAssumption DEF CallTypeOK, Txns
<1>1. CallTypeOK' BY <1>t DEF CallTypeOK, HolderPcs
<1>2. SharedTypeOK' /\ GateTypeOK' BY DEF SharedTypeOK, GateTypeOK
<1>3. LeaseHeld' /\ WorkLeft' /\ StepsOfOp'
  BY DEF LeaseHeld, WorkLeft, StepsOfOp, HolderPcs, PrintOps
<1>4. DeviceOfCalls' BY DEF DeviceOfCalls, Claimed, TransferPcs, StatusPcs, OutputPcs
<1>5. GatesOfCalls' BY DEF GatesOfCalls, TransferPcs, StatusPcs, OutputPcs
<1>6. ChainOfCalls' BY DEF ChainOfCalls
<1>7. OutputAccounted' BY DEF OutputAccounted
<1>8. StatusOnlyToSettledPrinter' BY DEF StatusOnlyToSettledPrinter
<1>9. CarriedGenerations' BY DEF CarriedGenerations
<1> QED BY <1>1, <1>2, <1>3, <1>4, <1>5, <1>6, <1>7, <1>8, <1>9, ContextKept

\* A transaction begins on a claimed device; an ordinary one, on a settled printer.
LEMMA StatusBeginKeeps ==
  ASSUME IInv, NEW t \in Callers, StatusBegin(t)
  PROVE  IInv'
<1> USE CallersAssumption, OwnerAssumption DEF IInv, TypeOK, StatusBegin, Goto,
        AttachContextUnchanged, contextVars, gateVars, historyVars
<1>1. CallTypeOK' BY DEF CallTypeOK, HolderPcs
<1>2. SharedTypeOK' /\ GateTypeOK' BY DEF SharedTypeOK, GateTypeOK
<1>3. LeaseHeld' /\ WorkLeft' /\ StepsOfOp'
  BY DEF LeaseHeld, WorkLeft, StepsOfOp, HolderPcs, AtStatusTxn
<1>4. DeviceOfCalls' BY DEF DeviceOfCalls, Claimed, TransferPcs, StatusPcs, StatusAdmitted
<1>5. GatesOfCalls' BY DEF GatesOfCalls, StatusCommandsBlocked, AtStatusTxn, StatusAdmitted
<1>6. ChainOfCalls' BY DEF ChainOfCalls, StatusOps, AtStatusTxn
<1>7. OutputAccounted' BY DEF OutputAccounted, AtStatusTxn
<1>8. StatusOnlyToSettledPrinter'
  BY DEF LeaseHeld, OutputAccounted, StatusOnlyToSettledPrinter, HolderPcs, StatusCommandsBlocked,
     AtStatusTxn, StatusAdmitted
<1>9. CarriedGenerations' BY DEF CarriedGenerations
<1> QED BY <1>1, <1>2, <1>3, <1>4, <1>5, <1>6, <1>7, <1>8, <1>9, ContextKept

\* A refused transaction fails without a transfer.
LEMMA StatusRefusedKeeps ==
  ASSUME IInv, NEW t \in Callers, StatusRefused(t)
  PROVE  IInv'
<1> USE CallersAssumption, OwnerAssumption DEF IInv, TypeOK, StatusRefused, Goto,
        AttachContextUnchanged, contextVars, gateVars, historyVars
<1>t. txn' \in Txns BY FramesAssumption DEF CallTypeOK, Txns
<1>1. CallTypeOK' BY <1>t DEF CallTypeOK, HolderPcs
<1>2. SharedTypeOK' /\ GateTypeOK' BY DEF SharedTypeOK, GateTypeOK
<1>3. LeaseHeld' /\ WorkLeft' /\ StepsOfOp'
  BY DEF LeaseHeld, WorkLeft, StepsOfOp, HolderPcs, AtStatusTxn
<1>4. DeviceOfCalls'
  BY DEF DeviceOfCalls, Claimed, TransferPcs, StatusPcs, OutputPcs, StatusOps, AtStatusTxn
<1>5. GatesOfCalls'
  BY DEF GatesOfCalls, TransferPcs, StatusPcs, OutputPcs, StatusOps, AtStatusTxn
<1>6. ChainOfCalls' BY DEF ChainOfCalls, StatusOps, AtStatusTxn
<1>7. OutputAccounted' BY DEF OutputAccounted, AtStatusTxn
<1>8. StatusOnlyToSettledPrinter' BY DEF StatusOnlyToSettledPrinter
<1>9. CarriedGenerations' BY DEF CarriedGenerations
<1> QED BY <1>1, <1>2, <1>3, <1>4, <1>5, <1>6, <1>7, <1>8, <1>9, ContextKept

\* The request is out: the frame limit starts counting.
LEMMA StatusSentKeeps ==
  ASSUME IInv, NEW t \in Callers, StatusSent(t)
  PROVE  IInv'
<1> USE CallersAssumption, OwnerAssumption DEF IInv, TypeOK, StatusSent, Goto,
        AttachContextUnchanged, contextVars, gateVars, historyVars
<1>t. txn' \in Txns BY FramesAssumption DEF CallTypeOK, Txns
<1>1. CallTypeOK' BY <1>t DEF CallTypeOK, HolderPcs
<1>2. SharedTypeOK' /\ GateTypeOK' BY DEF SharedTypeOK, GateTypeOK
<1>3. LeaseHeld' /\ WorkLeft' /\ StepsOfOp'
  BY FramesAssumption DEF LeaseHeld, WorkLeft, StepsOfOp, HolderPcs
<1>4. DeviceOfCalls' BY DEF DeviceOfCalls, Claimed
<1>5. GatesOfCalls' BY DEF GatesOfCalls, TransferPcs, StatusPcs
<1>6. ChainOfCalls' BY DEF ChainOfCalls
<1>7. OutputAccounted' BY DEF LeaseHeld, OutputAccounted, HolderPcs
<1>8. StatusOnlyToSettledPrinter' BY DEF StatusOnlyToSettledPrinter
<1>9. CarriedGenerations' BY DEF CarriedGenerations
<1> QED BY <1>1, <1>2, <1>3, <1>4, <1>5, <1>6, <1>7, <1>8, <1>9, ContextKept

\* A drained packet counts against the limit and at least one is left.
LEMMA StatusDrainedKeeps ==
  ASSUME IInv, NEW t \in Callers, StatusDrained(t)
  PROVE  IInv'
<1> USE CallersAssumption, OwnerAssumption DEF IInv, TypeOK, StatusDrained,
        AttachContextUnchanged, contextVars, gateVars, historyVars
<1>t. txn' \in Txns BY FramesAssumption DEF CallTypeOK, Txns
<1>1. CallTypeOK' BY <1>t DEF CallTypeOK
<1>2. SharedTypeOK' /\ GateTypeOK' BY DEF SharedTypeOK, GateTypeOK
<1>3. LeaseHeld' /\ WorkLeft' /\ StepsOfOp'
  BY DEF CallTypeOK, LeaseHeld, WorkLeft, StepsOfOp, Txns
<1>4. DeviceOfCalls' BY DEF DeviceOfCalls, Claimed
<1>5. GatesOfCalls' BY DEF GatesOfCalls
<1>6. ChainOfCalls' BY DEF ChainOfCalls
<1>7. OutputAccounted' BY DEF LeaseHeld, OutputAccounted, HolderPcs
<1>8. StatusOnlyToSettledPrinter' BY DEF StatusOnlyToSettledPrinter
<1>9. CarriedGenerations' BY DEF CarriedGenerations
<1> QED BY <1>1, <1>2, <1>3, <1>4, <1>5, <1>6, <1>7, <1>8, <1>9, ContextKept

\* A reply ends the transaction.
LEMMA StatusReplyKeeps ==
  ASSUME IInv, NEW t \in Callers, NEW r \in Replies \cup {"fail"}, StatusReply(t, r)
  PROVE  IInv'
<1> USE CallersAssumption, OwnerAssumption DEF IInv, TypeOK, StatusReply, Goto,
        AttachContextUnchanged, contextVars, gateVars, historyVars
<1>t. txn' \in Txns BY FramesAssumption DEF CallTypeOK, Txns
<1>1. CallTypeOK' BY <1>t DEF CallTypeOK, HolderPcs
<1>2. SharedTypeOK' /\ GateTypeOK' BY DEF SharedTypeOK, GateTypeOK
<1>3. LeaseHeld' /\ WorkLeft' /\ StepsOfOp' BY DEF LeaseHeld, WorkLeft, StepsOfOp, HolderPcs
<1>4. DeviceOfCalls' BY DEF DeviceOfCalls, Claimed
<1>5. GatesOfCalls' BY DEF GatesOfCalls, TransferPcs, StatusPcs
<1>6. ChainOfCalls' BY DEF ChainOfCalls
<1>7. OutputAccounted' BY DEF LeaseHeld, OutputAccounted, HolderPcs
<1>8. StatusOnlyToSettledPrinter' BY DEF StatusOnlyToSettledPrinter
<1>9. CarriedGenerations' BY DEF CarriedGenerations
<1> QED BY <1>1, <1>2, <1>3, <1>4, <1>5, <1>6, <1>7, <1>8, <1>9, ContextKept

\* A published reply is bound to the generation it was read under.
LEMMA StatusPublishKeeps ==
  ASSUME IInv, NEW t \in Callers, StatusPublish(t)
  PROVE  IInv'
<1> USE CallersAssumption, OwnerAssumption DEF IInv, TypeOK, StatusPublish, Return, Goto,
        AttachContextUnchanged, contextVars, gateVars, historyVars
<1>t. txn' \in Txns BY NoTxnTyped
<1>c. ioMtx = t /\ ioMtx' = NoTask BY DEF LeaseHeld, HolderPcs
<1>1. CallTypeOK' BY <1>t DEF CallTypeOK, FreePcs
<1>2. SharedTypeOK' /\ GateTypeOK'
  <2>1. txn.gen \in Nat /\ txn.reply \in Replies /\ dev \in 0..MaxPlugs
    BY DEF CallTypeOK, Txns, AttachTypeOK, Publishes, Replies
  <2>2. cache' \in Caches BY <2>1 DEF Caches
  <2>3. QED BY <2>2, <1>c DEF SharedTypeOK, GateTypeOK
<1>3. LeaseHeld' /\ WorkLeft' /\ StepsOfOp'
  BY DEF CallTypeOK, LeaseHeld, WorkLeft, StepsOfOp, HolderPcs
<1>4. DeviceOfCalls' BY DEF DeviceOfCalls, Claimed, TransferPcs, StatusPcs, OutputPcs
<1>5. GatesOfCalls'
  BY DEF CallTypeOK, LeaseHeld, GatesOfCalls, HolderPcs, TransferPcs, StatusPcs, OutputPcs
<1>6. ChainOfCalls' BY DEF CallTypeOK, LeaseHeld, ChainOfCalls, HolderPcs
<1>7. OutputAccounted' BY DEF LeaseHeld, OutputAccounted, HolderPcs
<1>8. StatusOnlyToSettledPrinter' BY DEF StatusOnlyToSettledPrinter
<1>9. CarriedGenerations'
  BY DEF CarriedGenerations, AttachInv, HandlesAgree, GenerationsBound, Claimed, Publishes
<1> QED BY <1>c, <1>1, <1>2, <1>3, <1>4, <1>5, <1>6, <1>7, <1>8, <1>9, ContextKept

\* A status call that publishes nothing just releases the lease.
LEMMA StatusReturnKeeps ==
  ASSUME IInv, NEW t \in Callers, StatusReturn(t)
  PROVE  IInv'
<1> USE CallersAssumption, OwnerAssumption DEF IInv, TypeOK, StatusReturn, Return, Goto,
        AttachContextUnchanged, contextVars, gateVars
<1>t. txn' \in Txns BY NoTxnTyped
<1>c. ioMtx = t /\ ioMtx' = NoTask BY DEF LeaseHeld, HolderPcs
<1>1. CallTypeOK' BY <1>t DEF CallTypeOK, FreePcs
<1>2. SharedTypeOK' /\ GateTypeOK' BY DEF SharedTypeOK, GateTypeOK
<1>3. LeaseHeld' /\ WorkLeft' /\ StepsOfOp'
  BY DEF CallTypeOK, LeaseHeld, WorkLeft, StepsOfOp, HolderPcs
<1>4. DeviceOfCalls' BY DEF DeviceOfCalls, Claimed, TransferPcs, StatusPcs, OutputPcs
<1>5. GatesOfCalls'
  BY DEF CallTypeOK, LeaseHeld, GatesOfCalls, HolderPcs, TransferPcs, StatusPcs, OutputPcs
<1>6. ChainOfCalls' BY DEF LeaseHeld, ChainOfCalls, HolderPcs
<1>7. OutputAccounted' BY DEF LeaseHeld, OutputAccounted, HolderPcs
<1>8. StatusOnlyToSettledPrinter' BY DEF StatusOnlyToSettledPrinter
<1>9. CarriedGenerations' BY DEF CarriedGenerations
<1> QED BY <1>c, <1>1, <1>2, <1>3, <1>4, <1>5, <1>6, <1>7, <1>8, <1>9, ContextKept

\* A poll whose transaction failed goes on to the cache without the lease.
LEMMA PollMissedKeeps ==
  ASSUME IInv, NEW t \in Callers, PollMissed(t)
  PROVE  IInv'
<1> USE CallersAssumption, OwnerAssumption DEF IInv, TypeOK, PollMissed, Goto,
        AttachContextUnchanged, contextVars, gateVars, historyVars
<1>t. txn' \in Txns BY NoTxnTyped
<1>c. ioMtx = t /\ ioMtx' = NoTask BY DEF LeaseHeld, HolderPcs
<1>1. CallTypeOK' BY <1>t DEF CallTypeOK, FreePcs
<1>2. SharedTypeOK' /\ GateTypeOK' BY DEF SharedTypeOK, GateTypeOK
<1>3. LeaseHeld' /\ WorkLeft' /\ StepsOfOp'
  BY DEF CallTypeOK, LeaseHeld, WorkLeft, StepsOfOp, HolderPcs
<1>4. DeviceOfCalls' BY DEF DeviceOfCalls, Claimed, TransferPcs, StatusPcs, OutputPcs
<1>5. GatesOfCalls'
  BY DEF CallTypeOK, LeaseHeld, GatesOfCalls, HolderPcs, TransferPcs, StatusPcs, OutputPcs
<1>6. ChainOfCalls' BY DEF LeaseHeld, ChainOfCalls, HolderPcs
<1>7. OutputAccounted' BY DEF LeaseHeld, OutputAccounted, HolderPcs
<1>8. StatusOnlyToSettledPrinter' BY DEF StatusOnlyToSettledPrinter
<1>9. CarriedGenerations' BY DEF CarriedGenerations
<1> QED BY <1>c, <1>1, <1>2, <1>3, <1>4, <1>5, <1>6, <1>7, <1>8, <1>9, ContextKept

\* The preflight's answer is carried to the admission.
LEMMA PreflightDoneKeeps ==
  ASSUME IInv, NEW t \in Callers, PreflightDone(t)
  PROVE  IInv'
<1> USE CallersAssumption, OwnerAssumption DEF IInv, TypeOK, PreflightDone, Goto,
        AttachContextUnchanged, contextVars, gateVars, historyVars
<1>1. CallTypeOK' BY DEF CallTypeOK, HolderPcs
<1>2. SharedTypeOK' /\ GateTypeOK' BY DEF SharedTypeOK, GateTypeOK
<1>3. LeaseHeld' /\ WorkLeft' /\ StepsOfOp' BY DEF LeaseHeld, WorkLeft, StepsOfOp, HolderPcs
<1>4. DeviceOfCalls' BY DEF DeviceOfCalls, Claimed, TransferPcs, StatusPcs, OutputPcs
<1>5. GatesOfCalls' BY DEF GatesOfCalls, TransferPcs, StatusPcs, OutputPcs
<1>6. ChainOfCalls' BY DEF ChainOfCalls
<1>7. OutputAccounted' BY DEF OutputAccounted
<1>8. StatusOnlyToSettledPrinter' BY DEF StatusOnlyToSettledPrinter
<1>9. CarriedGenerations' BY DEF CarriedGenerations
<1> QED BY <1>1, <1>2, <1>3, <1>4, <1>5, <1>6, <1>7, <1>8, <1>9, ContextKept

\* The unlocked checks of a poll only read.
LEMMA PollPassesKeeps ==
  ASSUME IInv, NEW t \in Callers, PollPasses(t)
  PROVE  IInv'
<1> USE CallersAssumption, OwnerAssumption DEF IInv, TypeOK, PollPasses, Goto,
        AttachContextUnchanged, contextVars, gateVars, historyVars
<1>1. CallTypeOK' BY DEF CallTypeOK, FreePcs
<1>2. SharedTypeOK' /\ GateTypeOK' BY DEF SharedTypeOK, GateTypeOK
<1>3. LeaseHeld' /\ WorkLeft' /\ StepsOfOp'
  BY DEF CallTypeOK, LeaseHeld, WorkLeft, StepsOfOp, HolderPcs
<1>4. DeviceOfCalls'
  BY DEF CallTypeOK, DeviceOfCalls, Claimed, TransferPcs, StatusPcs, OutputPcs
<1>5. GatesOfCalls' BY DEF CallTypeOK, GatesOfCalls, TransferPcs, StatusPcs, OutputPcs
<1>6. ChainOfCalls' BY DEF CallTypeOK, ChainOfCalls
<1>7. OutputAccounted' BY DEF CallTypeOK, OutputAccounted
<1>8. StatusOnlyToSettledPrinter' BY DEF CallTypeOK, StatusOnlyToSettledPrinter
<1>9. CarriedGenerations' BY DEF CallTypeOK, CarriedGenerations
<1> QED BY <1>1, <1>2, <1>3, <1>4, <1>5, <1>6, <1>7, <1>8, <1>9, ContextKept

\* A poll returns from wherever its checks end it.
LEMMA PollReturnsKeeps ==
  ASSUME IInv, NEW t \in Callers, PollReturns(t)
  PROVE  IInv'
<1> USE CallersAssumption, OwnerAssumption DEF IInv, TypeOK, PollReturns, Goto,
        AttachContextUnchanged, contextVars, gateVars, historyVars
<1>1. CallTypeOK' BY DEF CallTypeOK, FreePcs
<1>2. SharedTypeOK' /\ GateTypeOK' BY DEF SharedTypeOK, GateTypeOK
<1>3. LeaseHeld' /\ WorkLeft' /\ StepsOfOp' BY DEF LeaseHeld, WorkLeft, StepsOfOp, HolderPcs
<1>4. DeviceOfCalls' BY DEF DeviceOfCalls, Claimed, TransferPcs, StatusPcs, OutputPcs
<1>5. GatesOfCalls' BY DEF GatesOfCalls, TransferPcs, StatusPcs, OutputPcs
<1>6. ChainOfCalls' BY DEF ChainOfCalls
<1>7. OutputAccounted' BY DEF OutputAccounted
<1>8. StatusOnlyToSettledPrinter' BY DEF StatusOnlyToSettledPrinter
<1>9. CarriedGenerations' BY DEF CarriedGenerations
<1> QED BY <1>1, <1>2, <1>3, <1>4, <1>5, <1>6, <1>7, <1>8, <1>9, ContextKept

\* A submitted chunk of raster is unsettled output of the lease holder.
LEMMA SubmitKeeps ==
  ASSUME IInv, NEW t \in Callers, Submit(t)
  PROVE  IInv'
<1> USE CallersAssumption, OwnerAssumption DEF IInv, TypeOK, Submit, AttachContextUnchanged,
        contextVars, gateVars
<1>1. CallTypeOK' BY DEF CallTypeOK
<1>2. SharedTypeOK' /\ GateTypeOK' BY DEF SharedTypeOK, GateTypeOK
<1>3. LeaseHeld' /\ WorkLeft' /\ StepsOfOp' BY DEF LeaseHeld, WorkLeft, StepsOfOp
<1>4. DeviceOfCalls' BY DEF DeviceOfCalls, Claimed
<1>5. GatesOfCalls' BY DEF GatesOfCalls
<1>6. ChainOfCalls' BY DEF ChainOfCalls
<1>7. OutputAccounted' BY DEF StepsOfOp, ChainOfCalls, OutputAccounted
<1>8. StatusOnlyToSettledPrinter' BY DEF LeaseHeld, StatusOnlyToSettledPrinter, HolderPcs
<1>9. CarriedGenerations' BY DEF CarriedGenerations
<1> QED BY <1>1, <1>2, <1>3, <1>4, <1>5, <1>6, <1>7, <1>8, <1>9, ContextKept

\* A failed status transfer faults the transport only when it is retained.
LEMMA StatusFailsKeeps ==
  ASSUME IInv, NEW t \in Callers, NEW f \in Failures, StatusFails(t, f)
  PROVE  IInv'
<1> USE CallersAssumption, OwnerAssumption DEF IInv, TypeOK, StatusFails, Goto,
        AttachContextUnchanged, contextVars, historyVars
<1>t. txn' \in Txns BY FramesAssumption DEF CallTypeOK, Txns
<1>1. CallTypeOK' BY <1>t DEF CallTypeOK, HolderPcs
<1>2. SharedTypeOK' /\ GateTypeOK' BY DEF SharedTypeOK, GateTypeOK
<1>3. LeaseHeld' /\ WorkLeft' /\ StepsOfOp'
  BY DEF LeaseHeld, WorkLeft, StepsOfOp, HolderPcs, StatusPcs
<1>4. DeviceOfCalls' BY DEF DeviceOfCalls, Claimed, TransferPcs
<1>5. GatesOfCalls'
  BY DEF CallTypeOK, LeaseHeld, GatesOfCalls, HolderPcs, TransferPcs, StatusPcs, OutputPcs
<1>6. ChainOfCalls' BY DEF ChainOfCalls, StatusPcs
<1>7. OutputAccounted' BY DEF LeaseHeld, OutputAccounted, HolderPcs, StatusPcs
<1>8. StatusOnlyToSettledPrinter' BY DEF StatusOnlyToSettledPrinter
<1>9. CarriedGenerations' BY DEF CarriedGenerations
<1> QED BY <1>1, <1>2, <1>3, <1>4, <1>5, <1>6, <1>7, <1>8, <1>9, ContextKept

\* A failed output transfer latches the gates and leaves the call to settle.
LEMMA OutputFailsKeeps ==
  ASSUME IInv, NEW t \in Callers, NEW f \in Failures, OutputFails(t, f)
  PROVE  IInv'
<1> USE CallersAssumption, OwnerAssumption DEF IInv, TypeOK, OutputFails, Goto,
        AttachContextUnchanged, contextVars, historyVars
<1>t. txn' \in Txns BY FramesAssumption DEF CallTypeOK, Txns
<1>1. CallTypeOK' BY <1>t DEF CallTypeOK, HolderPcs
<1>2. SharedTypeOK' /\ GateTypeOK' BY DEF SharedTypeOK, GateTypeOK
<1>3. LeaseHeld' /\ WorkLeft' /\ StepsOfOp'
  BY DEF LeaseHeld, WorkLeft, StepsOfOp, HolderPcs, PrintOps, OutputPcs
<1>4. DeviceOfCalls' BY DEF DeviceOfCalls, Claimed, TransferPcs
<1>5. GatesOfCalls'
  BY DEF CallTypeOK, LeaseHeld, GatesOfCalls, HolderPcs, TransferPcs, StatusPcs, OutputPcs
<1>6. ChainOfCalls' BY DEF ChainOfCalls
<1>7. OutputAccounted' BY DEF CallTypeOK, LeaseHeld, OutputAccounted, HolderPcs, OutputPcs, Txns
<1>8. StatusOnlyToSettledPrinter' BY DEF StatusOnlyToSettledPrinter
<1>9. CarriedGenerations' BY DEF CarriedGenerations
<1> QED BY <1>1, <1>2, <1>3, <1>4, <1>5, <1>6, <1>7, <1>8, <1>9, ContextKept

\* A chunk that is not the last leaves work and is remembered as sent.
LEMMA ChunkSentKeeps ==
  ASSUME IInv, NEW t \in Callers, ChunkSent(t)
  PROVE  IInv'
<1> USE CallersAssumption, OwnerAssumption DEF IInv, TypeOK, ChunkSent, AttachContextUnchanged,
        contextVars, gateVars, historyVars
<1>t. txn' \in Txns
  <2>1. txn.left - 1 \in 0..MaxFrames BY FramesAssumption DEF CallTypeOK, Txns
  <2>2. (txn.sent \/ pc[t] = "raster") \in BOOLEAN BY DEF CallTypeOK, Txns
  <2>3. QED BY <2>1, <2>2, CountedTyped DEF CallTypeOK
<1>1. CallTypeOK' BY <1>t DEF CallTypeOK
<1>2. SharedTypeOK' /\ GateTypeOK' BY DEF SharedTypeOK, GateTypeOK
<1>3. LeaseHeld' /\ WorkLeft' /\ StepsOfOp'
  BY DEF CallTypeOK, LeaseHeld, WorkLeft, StepsOfOp, Txns
<1>4. DeviceOfCalls' BY DEF DeviceOfCalls, Claimed
<1>5. GatesOfCalls' BY DEF GatesOfCalls
<1>6. ChainOfCalls' BY DEF ChainOfCalls
<1>7. OutputAccounted' BY DEF CallTypeOK, LeaseHeld, OutputAccounted, HolderPcs, Txns
<1>8. StatusOnlyToSettledPrinter' BY DEF StatusOnlyToSettledPrinter
<1>9. CarriedGenerations' BY DEF CarriedGenerations
<1> QED BY <1>1, <1>2, <1>3, <1>4, <1>5, <1>6, <1>7, <1>8, <1>9, ContextKept

\* After the last chunk the job is sent and waits for its completion.
LEMMA RasterSentKeeps ==
  ASSUME IInv, NEW t \in Callers, RasterSent(t)
  PROVE  IInv'
<1> USE CallersAssumption, OwnerAssumption DEF IInv, TypeOK, RasterSent, Goto,
        AttachContextUnchanged, contextVars, gateVars, historyVars
<1>t. txn' \in Txns
  <2>1. MaxFrames \in 0..MaxFrames BY FramesAssumption
  <2>2. QED BY <2>1, CountedTyped DEF CallTypeOK
<1>1. CallTypeOK' BY <1>t DEF CallTypeOK, HolderPcs
<1>2. SharedTypeOK' /\ GateTypeOK' BY DEF SharedTypeOK, GateTypeOK
<1>3. LeaseHeld' /\ WorkLeft' /\ StepsOfOp'
  BY DEF CallTypeOK, LeaseHeld, WorkLeft, StepsOfOp, HolderPcs, Txns
<1>4. DeviceOfCalls' BY DEF DeviceOfCalls, Claimed
<1>5. GatesOfCalls' BY DEF GatesOfCalls, TransferPcs, OutputPcs
<1>6. ChainOfCalls' BY DEF ChainOfCalls
<1>7. OutputAccounted' BY DEF OutputAccounted
<1>8. StatusOnlyToSettledPrinter' BY DEF StatusOnlyToSettledPrinter
<1>9. CarriedGenerations' BY DEF CarriedGenerations
<1> QED BY <1>1, <1>2, <1>3, <1>4, <1>5, <1>6, <1>7, <1>8, <1>9, ContextKept

\* A raw command ends with its last chunk.
LEMMA RawSentKeeps ==
  ASSUME IInv, NEW t \in Callers, RawSent(t)
  PROVE  IInv'
<1> USE CallersAssumption, OwnerAssumption DEF IInv, TypeOK, RawSent, Goto,
        AttachContextUnchanged, contextVars, gateVars, historyVars
<1>t. txn' \in Txns BY FramesAssumption DEF CallTypeOK, Txns
<1>1. CallTypeOK' BY <1>t DEF CallTypeOK, HolderPcs
<1>2. SharedTypeOK' /\ GateTypeOK' BY DEF SharedTypeOK, GateTypeOK
<1>3. LeaseHeld' /\ WorkLeft' /\ StepsOfOp'
  BY DEF LeaseHeld, WorkLeft, StepsOfOp, HolderPcs, PrintOps
<1>4. DeviceOfCalls' BY DEF DeviceOfCalls, Claimed
<1>5. GatesOfCalls' BY DEF GatesOfCalls, TransferPcs, OutputPcs
<1>6. ChainOfCalls' BY DEF ChainOfCalls
<1>7. OutputAccounted' BY DEF LeaseHeld, OutputAccounted, HolderPcs
<1>8. StatusOnlyToSettledPrinter' BY DEF StatusOnlyToSettledPrinter
<1>9. CarriedGenerations' BY DEF CarriedGenerations
<1> QED BY <1>1, <1>2, <1>3, <1>4, <1>5, <1>6, <1>7, <1>8, <1>9, ContextKept

\* A packet that does not end the wait is counted.
LEMMA CompletionWaitsKeeps ==
  ASSUME IInv, NEW t \in Callers, CompletionWaits(t)
  PROVE  IInv'
<1> USE CallersAssumption, OwnerAssumption DEF IInv, TypeOK, CompletionWaits,
        AttachContextUnchanged, contextVars, gateVars, historyVars
<1>t. txn' \in Txns BY FramesAssumption DEF CallTypeOK, Txns
<1>1. CallTypeOK' BY <1>t DEF CallTypeOK
<1>2. SharedTypeOK' /\ GateTypeOK' BY DEF SharedTypeOK, GateTypeOK
<1>3. LeaseHeld' /\ WorkLeft' /\ StepsOfOp'
  BY DEF CallTypeOK, LeaseHeld, WorkLeft, StepsOfOp, Txns
<1>4. DeviceOfCalls' BY DEF DeviceOfCalls, Claimed
<1>5. GatesOfCalls' BY DEF GatesOfCalls
<1>6. ChainOfCalls' BY DEF ChainOfCalls
<1>7. OutputAccounted' BY DEF LeaseHeld, OutputAccounted, HolderPcs
<1>8. StatusOnlyToSettledPrinter' BY DEF StatusOnlyToSettledPrinter
<1>9. CarriedGenerations' BY DEF CarriedGenerations
<1> QED BY <1>1, <1>2, <1>3, <1>4, <1>5, <1>6, <1>7, <1>8, <1>9, ContextKept

\* The wait ends with the call's result.
LEMMA CompletionEndsKeeps ==
  ASSUME IInv, NEW t \in Callers, NEW rc \in {"ok", "fail"}, CompletionEnds(t, rc)
  PROVE  IInv'
<1> USE CallersAssumption, OwnerAssumption DEF IInv, TypeOK, CompletionEnds, Goto,
        AttachContextUnchanged, contextVars, gateVars, historyVars
<1>t. txn' \in Txns BY FramesAssumption DEF CallTypeOK, Txns
<1>1. CallTypeOK' BY <1>t DEF CallTypeOK, HolderPcs
<1>2. SharedTypeOK' /\ GateTypeOK' BY DEF SharedTypeOK, GateTypeOK
<1>3. LeaseHeld' /\ WorkLeft' /\ StepsOfOp'
  BY DEF LeaseHeld, WorkLeft, StepsOfOp, HolderPcs, PrintOps
<1>4. DeviceOfCalls' BY DEF DeviceOfCalls, Claimed
<1>5. GatesOfCalls' BY DEF GatesOfCalls, TransferPcs, OutputPcs
<1>6. ChainOfCalls' BY DEF ChainOfCalls
<1>7. OutputAccounted' BY DEF LeaseHeld, OutputAccounted, HolderPcs
<1>8. StatusOnlyToSettledPrinter' BY DEF StatusOnlyToSettledPrinter
<1>9. CarriedGenerations' BY DEF CarriedGenerations
<1> QED BY <1>1, <1>2, <1>3, <1>4, <1>5, <1>6, <1>7, <1>8, <1>9, ContextKept

\* A confirmed label leaves nothing unsettled and sets the chain it asked for.
LEMMA SettleConfirmedKeeps ==
  ASSUME IInv, NEW t \in Callers, SettleConfirmed(t)
  PROVE  IInv'
<1> USE CallersAssumption, OwnerAssumption DEF IInv, TypeOK, SettleConfirmed, Goto,
        AttachContextUnchanged, contextVars
<1>c. ioMtx = t /\ ioMtx' = t BY DEF LeaseHeld, HolderPcs
<1>o. op[t] \in {"job", "legacy"} BY DEF StepsOfOp, PrintOps, Confirmed
<1>1. CallTypeOK' BY DEF CallTypeOK, HolderPcs
<1>2. SharedTypeOK' /\ GateTypeOK'
  <2>1. job[t].chain \in BOOLEAN BY DEF SharedTypeOK, Jobs
  <2>2. dev \in 0..MaxPlugs BY DEF AttachTypeOK
  <2>3. QED BY <2>1, <2>2, <1>c DEF SharedTypeOK, GateTypeOK, SetChain
<1>3. LeaseHeld' /\ WorkLeft' /\ StepsOfOp'
  BY <1>o DEF CallTypeOK, LeaseHeld, WorkLeft, StepsOfOp, HolderPcs
<1>4. DeviceOfCalls' BY DEF DeviceOfCalls, Claimed, TransferPcs, StatusPcs, OutputPcs
<1>5. GatesOfCalls' BY DEF LeaseHeld, GatesOfCalls, HolderPcs, TransferPcs, StatusPcs, OutputPcs
<1>6. ChainOfCalls' BY DEF LeaseHeld, ChainOfCalls, HolderPcs
<1>7. OutputAccounted' BY DEF OutputAccounted
<1>8. StatusOnlyToSettledPrinter' BY DEF LeaseHeld, StatusOnlyToSettledPrinter, HolderPcs
<1>9. CarriedGenerations' BY DEF CarriedGenerations
<1> QED BY <1>c, <1>1, <1>2, <1>3, <1>4, <1>5, <1>6, <1>7, <1>8, <1>9, ContextKept

\* An ambiguous label is quarantined, then its chain closed, with the lease held.
LEMMA SettleAmbiguousKeeps ==
  ASSUME IInv, NEW t \in Callers, SettleAmbiguous(t)
  PROVE  IInv'
<1> USE CallersAssumption, OwnerAssumption DEF IInv, TypeOK, Goto,
        AttachContextUnchanged, contextVars
<1>u. UNCHANGED <<appBlocked, faulted, op, job, txn, flight, unsettled, chainConn, ioMtx, cache>>
      /\ AttachContextUnchanged
  BY DEF SettleAmbiguous
<1>c. pc[t] \in {"settle", "closing"} /\ pc' = [pc EXCEPT ![t] = IF pc[t] = "settle" THEN "closing"
                                                                                  ELSE "release"]
  BY DEF SettleAmbiguous
<1>l. ioMtx = t BY <1>c DEF LeaseHeld, HolderPcs
<1>o. op[t] \in {"job", "legacy"} BY DEF SettleAmbiguous, StepsOfOp, PrintOps, Ambiguous
<1>g. /\ pc[t] = "settle" => quarantined' /\ UNCHANGED chainPending
      /\ pc[t] = "closing" => /\ quarantined /\ UNCHANGED quarantined
                              /\ op[t] = "job" => ~chainPending'
                              /\ op[t] = "legacy" => UNCHANGED chainPending
  BY DEF SettleAmbiguous, SetChain, GatesOfCalls
<1>i. inspected' \in {inspected, FALSE} BY DEF SettleAmbiguous
<1>h. \A x \in Callers : pc[x] \in HolderPcs => x = t BY <1>l DEF LeaseHeld
<1>1. CallTypeOK' BY <1>c, <1>u DEF CallTypeOK, HolderPcs
<1>2. SharedTypeOK' /\ GateTypeOK'
  <2>1. chainPending' \in BOOLEAN /\ quarantined' \in BOOLEAN
    BY <1>c, <1>g, <1>o DEF GateTypeOK, SettleAmbiguous, SetChain
  <2>2. QED BY <1>u, <1>i, <2>1 DEF SharedTypeOK, GateTypeOK
<1>3. LeaseHeld' /\ WorkLeft' /\ StepsOfOp'
  BY <1>c, <1>u, <1>o, <1>l DEF CallTypeOK, LeaseHeld, WorkLeft, StepsOfOp, HolderPcs
<1>4. DeviceOfCalls'
  BY <1>c, <1>u DEF CallTypeOK, DeviceOfCalls, Claimed, TransferPcs, StatusPcs, OutputPcs
<1>5. GatesOfCalls'
  BY <1>c, <1>u, <1>g, <1>h
  DEF CallTypeOK, GatesOfCalls, HolderPcs, TransferPcs, StatusPcs, OutputPcs
<1>6. ChainOfCalls' BY <1>c, <1>u, <1>h DEF CallTypeOK, ChainOfCalls, HolderPcs
<1>7. OutputAccounted'
  BY <1>c, <1>u, <1>g, <1>h, <1>o DEF CallTypeOK, OutputAccounted, HolderPcs
<1>8. StatusOnlyToSettledPrinter'
  BY <1>c, <1>u, <1>h DEF CallTypeOK, StatusOnlyToSettledPrinter, HolderPcs
<1>9. CarriedGenerations' BY <1>c, <1>u DEF CallTypeOK, CarriedGenerations
<1> QED BY <1>u, <1>1, <1>2, <1>3, <1>4, <1>5, <1>6, <1>7, <1>8, <1>9, ContextKept

\* Returning leaves the gates as they were.
LEMMA SettleReturnKeeps ==
  ASSUME IInv, NEW t \in Callers, SettleReturn(t)
  PROVE  IInv'
<1> USE CallersAssumption, OwnerAssumption DEF IInv, TypeOK, SettleReturn, Return, Goto,
        AttachContextUnchanged, contextVars, gateVars, historyVars
<1>t. txn' \in Txns BY NoTxnTyped
<1>c. ioMtx = t /\ ioMtx' = NoTask BY DEF LeaseHeld, HolderPcs
<1>1. CallTypeOK' BY <1>t DEF CallTypeOK, FreePcs
<1>2. SharedTypeOK' /\ GateTypeOK' BY DEF SharedTypeOK, GateTypeOK
<1>3. LeaseHeld' /\ WorkLeft' /\ StepsOfOp'
  BY DEF CallTypeOK, LeaseHeld, WorkLeft, StepsOfOp, HolderPcs
<1>4. DeviceOfCalls' BY DEF DeviceOfCalls, Claimed, TransferPcs, StatusPcs, OutputPcs
<1>5. GatesOfCalls' BY DEF LeaseHeld, GatesOfCalls, HolderPcs, TransferPcs, StatusPcs, OutputPcs
<1>6. ChainOfCalls' BY DEF LeaseHeld, ChainOfCalls, HolderPcs
<1>7. OutputAccounted' BY DEF LeaseHeld, OutputAccounted, HolderPcs, Confirmed, Ambiguous
<1>8. StatusOnlyToSettledPrinter' BY DEF LeaseHeld, StatusOnlyToSettledPrinter, HolderPcs
<1>9. CarriedGenerations' BY DEF CarriedGenerations
<1> QED BY <1>c, <1>1, <1>2, <1>3, <1>4, <1>5, <1>6, <1>7, <1>8, <1>9, ContextKept

\* The application's gate is in no other invariant.
LEMMA SetAppBlockedKeeps ==
  ASSUME IInv, NEW x \in BOOLEAN, SetAppBlocked(x)
  PROVE  IInv'
<1> USE CallersAssumption, OwnerAssumption DEF IInv, TypeOK, SetAppBlocked,
        AttachContextUnchanged, contextVars, callVars, historyVars
<1>1. CallTypeOK' BY DEF CallTypeOK
<1>2. SharedTypeOK' /\ GateTypeOK' BY DEF SharedTypeOK, GateTypeOK
<1>3. LeaseHeld' /\ WorkLeft' /\ StepsOfOp' BY DEF LeaseHeld, WorkLeft, StepsOfOp
<1>4. DeviceOfCalls' BY DEF DeviceOfCalls, Claimed
<1>5. GatesOfCalls' BY DEF GatesOfCalls
<1>6. ChainOfCalls' BY DEF ChainOfCalls
<1>7. OutputAccounted' BY DEF OutputAccounted
<1>8. StatusOnlyToSettledPrinter' BY DEF StatusOnlyToSettledPrinter
<1>9. CarriedGenerations' BY DEF CarriedGenerations
<1> QED BY <1>1, <1>2, <1>3, <1>4, <1>5, <1>6, <1>7, <1>8, <1>9, ContextKept

\* The operator clears the quarantine only when no print is inside the driver.
LEMMA ClearQuarantineKeeps ==
  ASSUME IInv, ClearQuarantine
  PROVE  IInv'
<1> USE CallersAssumption, OwnerAssumption DEF IInv, TypeOK, ClearQuarantine,
        AttachContextUnchanged, contextVars, callVars
<1>1. CallTypeOK' BY DEF CallTypeOK
<1>2. SharedTypeOK' /\ GateTypeOK' BY DEF SharedTypeOK, GateTypeOK
<1>3. LeaseHeld' /\ WorkLeft' /\ StepsOfOp' BY DEF LeaseHeld, WorkLeft, StepsOfOp
<1>4. DeviceOfCalls' BY DEF DeviceOfCalls, Claimed
<1>5. GatesOfCalls' BY DEF GatesOfCalls, StepsOfOp, PrintOps
<1>6. ChainOfCalls' BY DEF ChainOfCalls
<1>7. OutputAccounted' BY DEF OutputAccounted
<1>8. StatusOnlyToSettledPrinter' BY DEF StatusOnlyToSettledPrinter
<1>9. CarriedGenerations' BY DEF CarriedGenerations
<1> QED BY <1>1, <1>2, <1>3, <1>4, <1>5, <1>6, <1>7, <1>8, <1>9, ContextKept

-----------------------------------------------------------------------------
(* The steps beside the callers.                                           *)

\* usb_task, the bus and the event task disturb only what the lease protects and
\* what AttachRespectsLease promises about it.
LEMMA AttachKeeps ==
  ASSUME IInv, AttachNext, UNCHANGED transportVars
  PROVE  IInv'
<1> USE CallersAssumption, OwnerAssumption
    DEF IInv, TypeOK, transportVars, gateVars, callVars, historyVars
<1>1. AttachTypeOK' /\ AttachInv' BY AttachTyped, AttachInvKept DEF AttachInv
<1>2. CallTypeOK' /\ GateTypeOK' BY DEF CallTypeOK, GateTypeOK
<1>3. cache' \in {cache, EmptyCache} /\ bindings \subseteq bindings'
  BY AttachRespectsLease
<1>4. ioMtx' # ioMtx => ioMtx \in {Usb, NoTask} /\ ioMtx' \in {Usb, NoTask}
  BY AttachRespectsLease
<1>5. ASSUME NEW t \in Callers, pc[t] \in HolderPcs
      PROVE  UNCHANGED <<dev, claimed, profile, generation>>
  <2>1. ioMtx = t BY <1>5 DEF LeaseHeld
  <2>2. QED BY <2>1, AttachRespectsLease
<1>6. SharedTypeOK' BY <1>3, <1>4, EmptyCacheTyped DEF SharedTypeOK
<1>7. LeaseHeld' BY <1>4 DEF LeaseHeld
<1>8. WorkLeft' /\ StepsOfOp' BY DEF WorkLeft, StepsOfOp
<1>9. DeviceOfCalls'
  BY <1>5 DEF DeviceOfCalls, Claimed, HolderPcs, TransferPcs, StatusPcs, OutputPcs
<1>10. GatesOfCalls' /\ ChainOfCalls' BY DEF GatesOfCalls, ChainOfCalls
<1>11. OutputAccounted' /\ StatusOnlyToSettledPrinter'
  BY DEF OutputAccounted, StatusOnlyToSettledPrinter
<1>12. CarriedGenerations'
  BY <1>3, <1>5 DEF CarriedGenerations, HolderPcs, EmptyCache
<1>13. QED BY <1>1, <1>2, <1>6, <1>7, <1>8, <1>9, <1>10, <1>11, <1>12

-----------------------------------------------------------------------------
(* The invariant is inductive.                                             *)

\* The program starts in it.
LEMMA InitInv == Init => IInv
<1> SUFFICES ASSUME Init PROVE IInv OBVIOUS
<1> USE CallersAssumption, OwnerAssumption DEF Init
<1>1. AttachTypeOK /\ AttachInv BY AttachInitInv
<1>2. CallTypeOK BY NoTxnTyped DEF CallTypeOK, FreePcs
<1>3. SharedTypeOK BY NoJobTyped, EmptyCacheTyped DEF SharedTypeOK, AttachInit
<1>4. GateTypeOK
  <2>1. 0 \in 0..MaxPlugs BY BoundAssumption
  <2>2. QED BY <2>1 DEF GateTypeOK, NoConn
<1>5. LeaseHeld /\ WorkLeft /\ StepsOfOp
  BY DEF LeaseHeld, WorkLeft, StepsOfOp, HolderPcs, AttachInit
<1>6. DeviceOfCalls /\ GatesOfCalls /\ ChainOfCalls
  BY DEF DeviceOfCalls, GatesOfCalls, ChainOfCalls, TransferPcs, StatusPcs, OutputPcs
<1>7. OutputAccounted /\ StatusOnlyToSettledPrinter
  BY DEF OutputAccounted, StatusOnlyToSettledPrinter
<1>8. CarriedGenerations BY DEF CarriedGenerations, NoJob, EmptyCache, AttachInit
<1>9. QED BY <1>1, <1>2, <1>3, <1>4, <1>5, <1>6, <1>7, <1>8 DEF IInv, TypeOK

\* Every step of a call that has the lease preserves it.
LEMMA HolderKeeps == ASSUME IInv, NEW t \in Callers, HolderStep(t) PROVE IInv'
<1>1. CASE \/ Snapshot(t) \/ CachedReady(t) \/ JobRefused(t) \/ JobPreflight(t)
           \/ JobContinues(t) \/ LegacyPreflight(t) \/ Refused(t)
           \/ RasterRefused(t) \/ \E n \in 1..MaxFrames : BulkStart(t, n) \/ RasterStart(t, n)
  BY <1>1, SnapshotKeeps, CachedReadyKeeps, JobRefusedKeeps, JobPreflightKeeps,
     JobContinuesKeeps, LegacyPreflightKeeps, RefusedKeeps, RasterRefusedKeeps,
     BulkStartKeeps, RasterStartKeeps
<1>2. CASE \/ StatusBegin(t) \/ StatusRefused(t) \/ StatusSent(t) \/ StatusDrained(t)
           \/ \E r \in Replies \cup {"fail"} : StatusReply(t, r)
           \/ StatusPublish(t) \/ StatusReturn(t) \/ PollMissed(t) \/ PreflightDone(t)
  BY <1>2, StatusBeginKeeps, StatusRefusedKeeps, StatusSentKeeps, StatusDrainedKeeps,
     StatusReplyKeeps, StatusPublishKeeps, StatusReturnKeeps, PollMissedKeeps,
     PreflightDoneKeeps
<1>3. CASE \/ Submit(t) \/ \E f \in Failures : StatusFails(t, f) \/ OutputFails(t, f)
           \/ ChunkSent(t) \/ RasterSent(t) \/ RawSent(t) \/ CompletionWaits(t)
           \/ \E rc \in {"ok", "fail"} : CompletionEnds(t, rc)
  BY <1>3, SubmitKeeps, StatusFailsKeeps, OutputFailsKeeps, ChunkSentKeeps, RasterSentKeeps,
     RawSentKeeps, CompletionWaitsKeeps, CompletionEndsKeeps
<1>4. CASE SettleConfirmed(t) \/ SettleAmbiguous(t) \/ SettleReturn(t)
  BY <1>4, SettleConfirmedKeeps, SettleAmbiguousKeeps, SettleReturnKeeps
<1>5. QED BY <1>1, <1>2, <1>3, <1>4 DEF HolderStep

\* So does every step of the system.
LEMMA NextKeeps == ASSUME IInv, [Next]_vars PROVE IInv'
<1>1. CASE AttachNext /\ UNCHANGED transportVars BY <1>1, AttachKeeps
<1>2. ASSUME NEW t \in Callers, CallerStep(t) PROVE IInv'
  <2>1. ASSUME NEW o \in Ops, Call(t, o) PROVE IInv' BY <2>1, CallKeeps
  <2>2. CASE TakeLease(t) BY <2>2, TakeLeaseKeeps
  <2>3. CASE PollStep(t)
    BY <2>3, TryLeaseFailsKeeps, PollPassesKeeps, PollReturnsKeeps DEF PollStep
  <2>4. CASE HolderStep(t) BY <2>4, HolderKeeps
  <2>5. QED BY <1>2, <2>1, <2>2, <2>3, <2>4 DEF CallerStep
<1>3. CASE GateStep BY <1>3, ClearQuarantineKeeps, SetAppBlockedKeeps DEF GateStep
<1>4. CASE UNCHANGED vars
  <2>1. UNCHANGED <<plugged, model, clientQ, newPending, gonePending, observed, dev, claimed,
                    profile, generation, detected, info, bindings, usbPc, ioMtx, cache, events>>
    BY <1>4 DEF vars, attachVars, hostVars, contextVars
  <2>2. UNCHANGED transportVars BY <1>4 DEF vars
  <2>3. AttachTypeOK' /\ AttachInv'
    BY <2>1, ContextKept DEF IInv, TypeOK, AttachContextUnchanged, hostVars, contextVars
  <2>4. CallTypeOK' /\ GateTypeOK' /\ SharedTypeOK'
    BY <2>1, <2>2 DEF IInv, TypeOK, CallTypeOK, GateTypeOK, SharedTypeOK, transportVars,
                      gateVars, callVars, historyVars
  <2>5. LeaseHeld' /\ WorkLeft' /\ StepsOfOp' /\ DeviceOfCalls' /\ GatesOfCalls' /\ ChainOfCalls'
    BY <2>1, <2>2 DEF IInv, LeaseHeld, WorkLeft, StepsOfOp, DeviceOfCalls, GatesOfCalls,
                      ChainOfCalls, Claimed, transportVars, gateVars, callVars, historyVars
  <2>6. OutputAccounted' /\ StatusOnlyToSettledPrinter' /\ CarriedGenerations'
    BY <2>1, <2>2 DEF IInv, OutputAccounted, StatusOnlyToSettledPrinter, CarriedGenerations,
                      transportVars, gateVars, callVars, historyVars
  <2>7. QED BY <2>3, <2>4, <2>5, <2>6 DEF IInv, TypeOK
<1>5. QED BY <1>1, <1>2, <1>3, <1>4 DEF Next

\* The strengthening IInv is an invariant of the driver: every step of usb_task, of
\* a call and of the application preserves it.
THEOREM Invariance == Spec => []IInv
<1>1. Init => IInv BY InitInv
<1>2. IInv /\ [Next]_vars => IInv' BY NextKeeps
<1>3. QED BY <1>1, <1>2, PTL DEF Spec

-----------------------------------------------------------------------------
(* The event queue again: the callers leave it, and what it tells of, alone. *)

\* No step of a call touches the bus, usb_task or the device context.
LEMMA CallersKeepContext == ASSUME NEW t \in Callers, CallerStep(t) PROVE AttachContextUnchanged
<1>1. CASE \/ Snapshot(t) \/ CachedReady(t) \/ JobRefused(t) \/ JobPreflight(t)
           \/ JobContinues(t) \/ LegacyPreflight(t) \/ Refused(t)
           \/ RasterRefused(t) \/ \E n \in 1..MaxFrames : BulkStart(t, n) \/ RasterStart(t, n)
  BY <1>1 DEF Snapshot, CachedReady, JobRefused, JobPreflight, JobContinues, LegacyPreflight,
              Refused, RasterRefused, BulkStart, RasterStart
<1>2. CASE \/ StatusBegin(t) \/ StatusRefused(t) \/ StatusSent(t) \/ StatusDrained(t)
           \/ \E r \in Replies \cup {"fail"} : StatusReply(t, r)
           \/ StatusPublish(t) \/ StatusReturn(t) \/ PollMissed(t) \/ PreflightDone(t)
  BY <1>2 DEF StatusBegin, StatusRefused, StatusSent, StatusDrained, StatusReply,
              StatusPublish, StatusReturn, PollMissed, PreflightDone
<1>3. CASE \/ Submit(t) \/ \E f \in Failures : StatusFails(t, f) \/ OutputFails(t, f)
           \/ ChunkSent(t) \/ RasterSent(t) \/ RawSent(t) \/ CompletionWaits(t)
           \/ \E rc \in {"ok", "fail"} : CompletionEnds(t, rc)
           \/ SettleConfirmed(t) \/ SettleAmbiguous(t) \/ SettleReturn(t)
  BY <1>3 DEF Submit, StatusFails, OutputFails, ChunkSent, RasterSent, RawSent,
              CompletionWaits, CompletionEnds, SettleConfirmed, SettleAmbiguous,
              SettleReturn
<1>4. CASE (\E o \in Ops : Call(t, o)) \/ TakeLease(t) \/ PollStep(t)
  BY <1>4 DEF Call, TakeLease, PollStep, TryLeaseFails, PollPasses, PollReturns
<1>5. QED BY <1>1, <1>2, <1>3, <1>4 DEF CallerStep, HolderStep

\* So every step of the system keeps the queue telling the truth.
LEMMA EventsStep == ASSUME IInv, EventsInv, [Next]_vars PROVE EventsInv'
<1>1. CASE AttachNext BY <1>1, EventsKept DEF IInv, TypeOK
<1>2. CASE AttachContextUnchanged
  BY <1>2 DEF AttachContextUnchanged, contextVars, EventsInv, EventsDescribeTheirAttachment,
              InfoOfTarget, ToldSoFar
<1>3. CASE GateStep BY <1>2, <1>3 DEF GateStep, ClearQuarantine, SetAppBlocked
<1>4. CASE UNCHANGED vars
  BY <1>2, <1>4 DEF vars, attachVars, AttachContextUnchanged
<1>5. QED BY <1>1, <1>2, <1>3, <1>4, CallersKeepContext DEF Next

-----------------------------------------------------------------------------
(* What follows from it.                                                   *)

\* Every variable of the driver keeps its type.
THEOREM TypeCorrect == Spec => []TypeOK
<1>1. IInv => TypeOK BY DEF IInv
<1>2. QED BY <1>1, Invariance, PTL

\* print_job_and_wait and print_and_wait release the lease with every ambiguous
\* output already quarantined.
THEOREM AmbiguityIsQuarantined == Spec => []AmbiguityQuarantined
<1>1. IInv => AmbiguityQuarantined
  <2>1. ASSUME IInv, ioMtx = NoTask, NEW t \in Callers PROVE pc[t] \notin HolderPcs
    BY <2>1, CallersAssumption DEF IInv, LeaseHeld
  <2>2. QED BY <2>1 DEF IInv, AmbiguityQuarantined, OutputAccounted, HolderPcs
<1>2. QED BY <1>1, Invariance, PTL

\* status_txn_locked sends an ordinary request only to a printer that owes nothing.
THEOREM StatusReachesSettledPrinter == Spec => []StatusOnlyToSettledPrinter
<1>1. IInv => StatusOnlyToSettledPrinter BY DEF IInv
<1>2. QED BY <1>1, Invariance, PTL

\* print_job_and_wait sends raster only to the attachment its job was built for.
THEOREM RasterOnTarget == Spec => []RasterReachesItsTarget
<1>1. ASSUME IInv, NEW t \in Callers, pc[t] = "raster", op[t] = "job" PROVE job[t].conn = dev
  <2>1. claimed /\ dev # NoConn
    BY <1>1 DEF IInv, DeviceOfCalls, Claimed, TransferPcs, OutputPcs
  <2>2. ioMtx = t BY <1>1 DEF IInv, LeaseHeld, HolderPcs
  <2>3. usbPc # "renumber"
    BY <2>2, CallersAssumption, <1>1 DEF IInv, AttachInv, UsbHoldsLease
  <2>4. dev = observed BY <2>1, <1>1 DEF IInv, AttachInv, HandlesAgree
  <2>5. <<generation, dev>> \in bindings
    BY <2>3, <2>4, <1>1 DEF IInv, AttachInv, GenerationsBound
  <2>6. <<job[t].gen, job[t].conn>> \in bindings /\ job[t].gen = generation
    BY <1>1 DEF IInv, CarriedGenerations
  <2>7. \A p, q \in bindings : p[1] = q[1] => p[2] = q[2]
    BY <1>1 DEF IInv, AttachInv, GenerationNamesOneAttachment
  <2>8. QED BY <2>5, <2>6, <2>7
<1>2. IInv => RasterReachesItsTarget BY <1>1 DEF RasterReachesItsTarget
<1>3. QED BY <1>2, Invariance, PTL

\* print_job_out_locked and bulk_out_locked hand over no chunk through a latched
\* quarantine or fault.
THEOREM OutputThroughOpenGates == Spec => []OutputOnlyThroughOpenGates
<1>1. IInv => \A t \in Callers : pc[t] \in {"raster", "raw"} => ~quarantined /\ ~faulted
  BY DEF IInv, GatesOfCalls, TransferPcs, OutputPcs
<1>2. IInv => OutputOnlyThroughOpenGates BY <1>1 DEF OutputOnlyThroughOpenGates
<1>3. QED BY <1>2, Invariance, PTL

\* usb_task leaves the target alone while a transfer is in flight on it.
THEOREM DeviceHeld == Spec => []DeviceHeldDuringTransfer
<1>1. IInv => DeviceHeldDuringTransfer
  BY DEF IInv, DeviceHeldDuringTransfer, DeviceOfCalls, Claimed, AttachInv, HandlesAgree
<1>2. QED BY <1>1, Invariance, PTL

\* s_attachment_generation never returns to a value it had for another attachment.
THEOREM GenerationsAreUnique == Spec => []GenerationNamesOneAttachment
<1>1. IInv => GenerationNamesOneAttachment BY DEF IInv, AttachInv
<1>2. QED BY <1>1, Invariance, PTL

\* Every queued event describes an attachment that took place, in the order the
\* attachments took place, and only ATTACHED promises a claimed interface: the
\* application may compare generations across events (ptouch_usb.c:100).
THEOREM EventsTellTheTruth == Spec => []EventsDescribeTheirAttachment
<1>1. Init => EventsInv
  BY DEF Init, AttachInit, EventsInv, EventsDescribeTheirAttachment, InfoOfTarget, ToldSoFar
<1>2. IInv /\ EventsInv /\ [Next]_vars => EventsInv' BY EventsStep
<1>3. EventsInv => EventsDescribeTheirAttachment BY DEF EventsInv
<1>4. QED BY <1>1, <1>2, <1>3, Invariance, PTL DEF Spec

\* ptouch_usb_status, which reads the cache without the lease, never serves a reply of
\* another attachment.
THEOREM PolledCacheCurrent == Spec => []PolledCacheIsCurrent
<1>1. IInv => PolledCacheIsCurrent
  BY DEF IInv, PolledCacheIsCurrent, CacheUsable, CarriedGenerations
<1>2. QED BY <1>1, Invariance, PTL

\* s_chain_pending is never left set over an unconfirmed label.
THEOREM ChainIsConfirmed == Spec => []ChainOnlyAfterConfirmation
<1>1. IInv => ChainOnlyAfterConfirmation
  <2>1. ASSUME IInv, ioMtx = NoTask, NEW t \in Callers PROVE pc[t] \notin HolderPcs
    BY <2>1, CallersAssumption DEF IInv, LeaseHeld
  <2>2. QED BY <2>1 DEF IInv, ChainOnlyAfterConfirmation, OutputAccounted, HolderPcs
<1>2. QED BY <1>1, Invariance, PTL

\* A transfer begins only in Submit, whose call has found the transport sound and
\* still finds it so.
THEOREM NoSubmissionAfterFault == Spec => NothingSubmittedAfterFault
<1>1. ASSUME IInv, [Next]_vars, faulted, ~flight PROVE ~flight'
  <2>1. ASSUME NEW t \in Callers, HolderStep(t) PROVE ~flight'
    <3>1. CASE Submit(t) BY <1>1, <3>1 DEF IInv, GatesOfCalls, Submit
    <3>2. CASE UNCHANGED flight \/ flight' = FALSE BY <1>1, <3>2
    <3>3. QED
      BY <2>1, <3>1, <3>2
      DEF HolderStep, Snapshot, CachedReady, JobRefused, JobPreflight, JobContinues,
          LegacyPreflight, Refused, BulkStart, RasterRefused, RasterStart, StatusBegin,
          StatusRefused, StatusSent, StatusDrained, StatusReply, StatusPublish, StatusReturn,
          PollMissed, PreflightDone, StatusFails, OutputFails, ChunkSent, RasterSent, RawSent,
          CompletionWaits, CompletionEnds, SettleConfirmed, SettleAmbiguous, SettleReturn
  <2>2. CASE UNCHANGED flight BY <1>1, <2>2
  <2>3. QED
    BY <1>1, <2>1, <2>2
    DEF Next, CallerStep, PollStep, Call, TakeLease, TryLeaseFails, PollPasses, PollReturns,
        GateStep, SetAppBlocked, ClearQuarantine, vars, transportVars, callVars
<1>2. IInv /\ [Next]_vars => [faulted => ~(~flight /\ flight')]_vars BY <1>1
<1>3. QED BY <1>2, Invariance, PTL DEF Spec, NothingSubmittedAfterFault

\* The gate that s_output_quarantined and s_chain_pending make together opens only on a
\* confirmation or an inspection: the end of an unconfirmed label never opens it, not
\* even between its two stores.
THEOREM GateOpensSettled == Spec => GateOpensOnlyWhenSettled
<1>1. ASSUME IInv, [Next]_vars, quarantined \/ chainPending, ~(quarantined' \/ chainPending')
      PROVE  inspected \/ \E t \in Callers : pc[t] = "settle" /\ Confirmed(t)
  <2>1. quarantined \in BOOLEAN BY <1>1 DEF IInv, TypeOK, GateTypeOK
  <2>2. ASSUME NEW t \in Callers, HolderStep(t)
        PROVE  \E u \in Callers : pc[u] = "settle" /\ Confirmed(u)
    <3>1. CASE SettleConfirmed(t) BY <3>1 DEF SettleConfirmed
    <3>2. CASE SettleAmbiguous(t)
      <4>1. pc[t] = "closing" => quarantined = TRUE BY <1>1, <2>1 DEF IInv, GatesOfCalls
      <4>2. quarantined' = TRUE BY <3>2, <4>1 DEF SettleAmbiguous
      <4>3. QED BY <1>1, <4>2
    <3>3. CASE UNCHANGED chainPending /\ (quarantined => quarantined') BY <1>1, <3>3
    <3>4. CASE \E f \in Failures : OutputFails(t, f)
      <4>1. UNCHANGED chainPending /\ (quarantined = TRUE => quarantined' = TRUE)
        BY <3>4 DEF OutputFails
      <4>2. QED BY <1>1, <2>1, <4>1
    <3>5. QED
      BY <2>2, <3>1, <3>2, <3>3, <3>4
      DEF HolderStep, Snapshot, CachedReady, JobRefused, JobPreflight, JobContinues,
          LegacyPreflight, Refused, BulkStart, RasterRefused, RasterStart, StatusBegin,
          StatusRefused, StatusSent, StatusDrained, StatusReply, StatusPublish, StatusReturn,
          PollMissed, PreflightDone, Submit, StatusFails, ChunkSent, RasterSent, RawSent,
          CompletionWaits, CompletionEnds, SettleReturn, gateVars
  <2>3. CASE ClearQuarantine BY <2>3 DEF ClearQuarantine
  <2>4. CASE UNCHANGED <<quarantined, chainPending>> BY <1>1, <2>4
  <2>5. QED
    BY <1>1, <2>2, <2>3, <2>4
    DEF Next, CallerStep, PollStep, Call, TakeLease, TryLeaseFails, PollPasses, PollReturns,
        GateStep, SetAppBlocked, gateVars, vars, transportVars
<1>2. IInv /\ [Next]_vars
        => [(quarantined \/ chainPending) /\ ~(quarantined' \/ chainPending')
              => inspected \/ \E t \in Callers : pc[t] = "settle" /\ Confirmed(t)]_vars
  BY <1>1
<1>3. QED BY <1>2, Invariance, PTL DEF Spec, GateOpensOnlyWhenSettled
==============================================================================
