----------------------------- MODULE PtouchAttach -----------------------------
(***************************************************************************)
(* The attachment side of the driver (src/ptouch_usb.c): the USB client    *)
(* callback that only records what the bus did, and usb_task, which later  *)
(* turns those records into the device context, the attachment generation, *)
(* the status-cache invalidation and the application's events, under the   *)
(* I/O lease s_io_mtx, which it only ever tries for.                        *)
(*                                                                         *)
(* A connection is one plugging-in of a device: a number 1, 2, ... in the  *)
(* order of plugging, standing for the USB address and the device handle.  *)
(* 0 is "none": no handle (NULL) and no pending address (-1).              *)
(*                                                                         *)
(* The lease is the variable ioMtx, naming its owner.  The callers that    *)
(* also take it are in PtouchTransport, which extends this module.         *)
(***************************************************************************)
EXTENDS Naturals, Sequences

CONSTANTS
  Profiles,      \* catalog entries (ptouch_model_profile_t) that devices may have
  NoProfile,     \* NULL: the device is not in the catalog
  Allowed,       \* profiles for which profile_output_allowed() holds
  HasCallback,   \* TRUE iff the application installed cfg.on_event
  QueueLen,      \* length of the event queue (8 in the code)
  MaxPlugs,      \* bound: how many times a device is plugged in
  Usb, NoTask    \* owners of the lease: usb_task, and nobody

ASSUME ProfileAssumption == Allowed \subseteq Profiles /\ NoProfile \notin Profiles
ASSUME BoundAssumption == QueueLen \in Nat \ {0} /\ MaxPlugs \in Nat
ASSUME CallbackAssumption == HasCallback \in BOOLEAN
ASSUME OwnerAssumption == Usb # NoTask

VARIABLES
  (* the bus and the USB host library's client queue, both outside src/ *)
  plugged,      \* connections physically present
  model,        \* model[c]: the profile of the device of connection c
  clientQ,      \* messages for client_cb not delivered yet
  (* the device context *)
  newPending,   \* s_new_dev_addr_pending
  gonePending,  \* s_dev_gone_pending
  observed,     \* s_observed_dev
  dev,          \* s_dev
  claimed,      \* s_intf_claimed
  profile,      \* s_profile
  generation,   \* s_attachment_generation
  detected,     \* s_device_detected
  info,         \* s_device_info: connection, generation, claimed
  (* usb_task, the lease, the cache and the event queue *)
  usbPc,        \* where usb_task is in its loop
  ioMtx,        \* owner of s_io_mtx
  cache,        \* s_status_cache, with its generation and its source
  events,       \* s_event_queue
  (* history, read by properties only *)
  bindings      \* <<g, c>>: generation g was given to connection c (0: none)

hostVars == <<plugged, model, clientQ>>
contextVars == <<observed, dev, claimed, profile, generation, detected, info, bindings>>
attachVars == <<hostVars, newPending, gonePending, contextVars, usbPc, ioMtx, cache, events>>

Conns == 1..MaxPlugs
NoConn == 0

ClientMsgs == [ev : {"NEW_DEV", "DEV_GONE"}, conn : Conns]
Infos == [conn : 0..MaxPlugs, gen : Nat, claimed : BOOLEAN]
Events == [kind : {"DETACHED", "UNSUPPORTED", "ATTACHED", "ATTACH_FAILED"}, info : Infos]

NoInfo == [conn |-> NoConn, gen |-> 0, claimed |-> FALSE]

\* The cached reply, the generation it was published under and, as history,
\* the connection that sent it.  valid is s_status_cache_us >= 0.
EmptyCache == [valid |-> FALSE, gen |-> 0, src |-> NoConn, reply |-> "none"]

\* emit(): a bounded queue served by event_task; a full queue drops the event.
Emit(kind, i) ==
  events' = IF HasCallback /\ Len(events) < QueueLen
            THEN Append(events, [kind |-> kind, info |-> i]) ELSE events

-----------------------------------------------------------------------------
(* The bus.                                                                *)

Plug(m) ==
  /\ Len(model) < MaxPlugs
  /\ model' = Append(model, m)
  /\ plugged' = plugged \cup {Len(model')}
  /\ clientQ' = Append(clientQ, [ev |-> "NEW_DEV", conn |-> Len(model')])
  /\ UNCHANGED <<newPending, gonePending, contextVars, usbPc, ioMtx, cache, events>>

\* The library reports DEV_GONE only to a client that holds the device open.
Unplug(c) ==
  /\ c \in plugged
  /\ plugged' = plugged \ {c}
  /\ clientQ' = IF c = observed
                THEN Append(clientQ, [ev |-> "DEV_GONE", conn |-> c]) ELSE clientQ
  /\ UNCHANGED <<model, newPending, gonePending, contextVars, usbPc, ioMtx, cache, events>>

-----------------------------------------------------------------------------
(* usb_task: usb_host_client_handle_events(), then the detach half, then   *)
(* the attach half of the loop body.                                       *)

\* Mutant: the removal is matched with the claimed handle.
ClientCallbackOfClaimed ==
  /\ usbPc = "events" /\ clientQ # <<>>
  /\ clientQ' = Tail(clientQ)
  /\ LET msg == Head(clientQ) IN
       /\ newPending' = IF msg.ev = "NEW_DEV" /\ newPending = NoConn
                        THEN msg.conn ELSE newPending
       /\ gonePending' = (gonePending \/ (msg.ev = "DEV_GONE" /\ msg.conn = dev))
  /\ UNCHANGED <<plugged, model, contextVars, usbPc, ioMtx, cache, events>>

\* client_cb, run by usb_task inside usb_host_client_handle_events().  It takes
\* no lock.
ClientCallback ==
  /\ usbPc = "events" /\ clientQ # <<>>
  /\ clientQ' = Tail(clientQ)
  /\ LET msg == Head(clientQ) IN
       /\ newPending' = IF msg.ev = "NEW_DEV" /\ newPending = NoConn
                        THEN msg.conn ELSE newPending
       /\ gonePending' = (gonePending \/ (msg.ev = "DEV_GONE" /\ msg.conn = observed))
  /\ UNCHANGED <<plugged, model, contextVars, usbPc, ioMtx, cache, events>>

\* handle_events returns; with nothing pending the loop body does nothing.
EventsReturn ==
  /\ usbPc = "events" /\ (gonePending \/ newPending # NoConn)
  /\ usbPc' = "gone"
  /\ UNCHANGED <<hostVars, newPending, gonePending, contextVars, ioMtx, cache, events>>

\* Mutant: the detach does not try for the lease.
DetachWithoutLease == gonePending

TryLeaseForDetach == gonePending /\ ioMtx = NoTask

SkipDetach ==
  /\ usbPc = "gone" /\ ~TryLeaseForDetach
  /\ usbPc' = "new"
  /\ UNCHANGED <<hostVars, newPending, gonePending, contextVars, ioMtx, cache, events>>

\* The detach half in the order of its stores, as an unlocked reader sees them:
\* the handles, the claim and the profile ...
DetachClear ==
  /\ usbPc = "gone" /\ TryLeaseForDetach
  /\ ioMtx' = Usb
  /\ dev' = NoConn /\ observed' = NoConn /\ claimed' = FALSE /\ profile' = NoProfile
  /\ detected' = FALSE /\ info' = [info EXCEPT !.claimed = FALSE]
  /\ usbPc' = "renumber"
  /\ UNCHANGED <<hostVars, newPending, gonePending, generation, bindings, cache, events>>

\* ... the generation ...
DetachRenumber ==
  /\ usbPc = "renumber"
  /\ generation' = generation + 1
  /\ bindings' = bindings \cup {<<generation', observed>>}
  /\ usbPc' = "detached"
  /\ UNCHANGED <<hostVars, newPending, gonePending, observed, dev, claimed, profile,
                 detected, info, ioMtx, cache, events>>

\* ... the cache, then the flag, the event and the lease.
DetachFinish ==
  /\ usbPc = "detached"
  /\ cache' = EmptyCache /\ gonePending' = FALSE
  /\ Emit("DETACHED", NoInfo)
  /\ ioMtx' = NoTask /\ usbPc' = "new"
  /\ UNCHANGED <<hostVars, newPending, contextVars>>

TryLeaseForAttach == ~gonePending /\ newPending # NoConn /\ ioMtx = NoTask

SkipAttach ==
  /\ usbPc = "new" /\ ~TryLeaseForAttach
  /\ usbPc' = "events"
  /\ UNCHANGED <<hostVars, newPending, gonePending, contextVars, ioMtx, cache, events>>

\* report_device_locked up to the early returns: the address no longer opens,
\* or another target is active.  The address is consumed either way.
AttachIgnored ==
  /\ usbPc = "new" /\ TryLeaseForAttach
  /\ newPending' = NoConn
  /\ usbPc' = "events"
  /\ UNCHANGED <<hostVars, gonePending, contextVars, ioMtx, cache, events>>

\* The device opens and becomes the target under a new generation.
AttachOpen ==
  /\ usbPc = "new" /\ TryLeaseForAttach
  /\ newPending \in plugged /\ observed = NoConn
  /\ newPending' = NoConn
  /\ ioMtx' = Usb
  /\ observed' = newPending
  /\ generation' = generation + 1
  /\ bindings' = bindings \cup {<<generation', newPending>>}
  /\ detected' = TRUE
  /\ profile' = model[newPending]
  /\ info' = [conn |-> newPending, gen |-> generation', claimed |-> FALSE]
  /\ usbPc' = "admit"
  /\ UNCHANGED <<hostVars, gonePending, dev, claimed, cache, events>>

AttachInvalidateCache ==
  /\ usbPc = "admit"
  /\ cache' = EmptyCache
  /\ usbPc' = "claim"
  /\ UNCHANGED <<hostVars, newPending, gonePending, contextVars, ioMtx, events>>

AttachRefuse ==
  /\ usbPc = "claim" /\ profile \notin Allowed
  /\ Emit("UNSUPPORTED", info)
  /\ ioMtx' = NoTask /\ usbPc' = "events"
  /\ UNCHANGED <<hostVars, newPending, gonePending, contextVars, cache>>

\* Mutant: the event carries the device info from before the claim.
AttachClaimStaleInfo(paired, granted) ==
  /\ usbPc = "claim" /\ profile \in Allowed
  /\ claimed' = IF paired THEN granted ELSE claimed
  /\ dev' = IF paired THEN (IF granted THEN observed ELSE NoConn) ELSE dev
  /\ info' = [info EXCEPT !.claimed = paired /\ granted]
  /\ Emit(IF paired /\ granted THEN "ATTACHED" ELSE "ATTACH_FAILED", info)
  /\ ioMtx' = NoTask /\ usbPc' = "events"
  /\ UNCHANGED <<hostVars, newPending, gonePending, observed, profile, generation,
                 detected, bindings, cache>>

\* Descriptor parsing and usb_host_interface_claim; with no endpoint pair
\* (paired = FALSE) s_dev and s_intf_claimed keep their values, which are
\* already NULL and FALSE here.
AttachClaim(paired, granted) ==
  /\ usbPc = "claim" /\ profile \in Allowed
  /\ claimed' = IF paired THEN granted ELSE claimed
  /\ dev' = IF paired THEN (IF granted THEN observed ELSE NoConn) ELSE dev
  /\ info' = [info EXCEPT !.claimed = paired /\ granted]
  /\ Emit(IF paired /\ granted THEN "ATTACHED" ELSE "ATTACH_FAILED", info')
  /\ ioMtx' = NoTask /\ usbPc' = "events"
  /\ UNCHANGED <<hostVars, newPending, gonePending, observed, profile, generation,
                 detected, bindings, cache>>

\* event_task hands the oldest event to the application's callback.
EventTask ==
  /\ events # <<>>
  /\ events' = Tail(events)
  /\ UNCHANGED <<hostVars, newPending, gonePending, contextVars, usbPc, ioMtx, cache>>

-----------------------------------------------------------------------------

AttachInit ==
  /\ plugged = {} /\ model = <<>> /\ clientQ = <<>>
  /\ newPending = NoConn /\ gonePending = FALSE
  /\ observed = NoConn /\ dev = NoConn /\ claimed = FALSE /\ profile = NoProfile
  /\ generation = 0 /\ detected = FALSE /\ info = NoInfo
  /\ usbPc = "events" /\ ioMtx = NoTask
  /\ cache = EmptyCache /\ events = <<>>
  /\ bindings = {<<0, NoConn>>}

UsbStep ==
  \/ ClientCallback \/ EventsReturn
  \/ SkipDetach \/ DetachClear \/ DetachRenumber \/ DetachFinish
  \/ SkipAttach \/ AttachIgnored \/ AttachOpen \/ AttachInvalidateCache \/ AttachRefuse
  \/ \E paired, granted \in BOOLEAN : AttachClaim(paired, granted)

BusStep ==
  \/ \E m \in Profiles \cup {NoProfile} : Plug(m)
  \/ \E c \in plugged : Unplug(c)

AttachNext == UsbStep \/ BusStep \/ EventTask

-----------------------------------------------------------------------------
(* Properties.                                                             *)

UsbPcs == {"events", "gone", "new", "renumber", "detached", "admit", "claim"}

\* Every variable of this module keeps its type; the lease and the cache, which
\* the callers share, are typed in PtouchTransport.
AttachTypeOK ==
  /\ plugged \subseteq Conns /\ model \in Seq(Profiles \cup {NoProfile})
  /\ clientQ \in Seq(ClientMsgs) /\ events \in Seq(Events)
  /\ newPending \in 0..MaxPlugs /\ gonePending \in BOOLEAN
  /\ observed \in 0..MaxPlugs /\ dev \in 0..MaxPlugs /\ claimed \in BOOLEAN
  /\ profile \in Profiles \cup {NoProfile} /\ generation \in Nat
  /\ detected \in BOOLEAN /\ bindings \subseteq Nat \X (0..MaxPlugs)
  /\ info \in Infos /\ usbPc \in UsbPcs

\* One generation never names two attachments, so comparing generations is
\* comparing attachments.
GenerationNamesOneAttachment ==
  \A a, b \in bindings : a[1] = b[1] => a[2] = b[2]

\* Queued events are about attachments that happened, in the order they
\* happened, and only ATTACHED says the interface is claimed (ptouch_usb.c:100).
EventsDescribeTheirAttachment ==
  LET told == {i \in 1..Len(events) : events[i].kind # "DETACHED"} IN
    /\ \A i \in told : /\ <<events[i].info.gen, events[i].info.conn>> \in bindings
                       /\ events[i].info.claimed <=> events[i].kind = "ATTACHED"
    /\ \A i, j \in told : i < j => events[i].info.gen < events[j].info.gen

-----------------------------------------------------------------------------
(* The attachment's part of the inductive invariant.                        *)

\* Connections are numbered as they are plugged in.
ConnsKnown == plugged \subseteq 1..Len(model)

\* usb_task has the lease exactly between its try and its release.
UsbHoldsLease == usbPc \in {"renumber", "detached", "admit", "claim"} <=> ioMtx = Usb

\* The handles agree: a claimed interface has its device open, and the device is
\* the observed one; a detach or an attach under way has cleared what it clears.
HandlesAgree ==
  /\ dev # NoConn => dev = observed
  /\ claimed => dev # NoConn
  /\ usbPc \in {"renumber", "detached"} => observed = NoConn
  /\ usbPc \in {"admit", "claim"} => dev = NoConn /\ observed # NoConn

\* Generations grow, and the current one is bound to the observed device.
GenerationsBound ==
  /\ \A p \in bindings : p[1] <= generation
  /\ usbPc # "renumber" => <<generation, observed>> \in bindings

AttachInv ==
  /\ ConnsKnown /\ UsbHoldsLease /\ HandlesAgree
  /\ GenerationsBound /\ GenerationNamesOneAttachment

\* While an attach is under way the device information is that of its target.
InfoOfTarget ==
  usbPc \in {"admit", "claim"} =>
    info = [conn |-> observed, gen |-> generation, claimed |-> FALSE]

\* A queued event is of a generation that exists, and the attach under way has
\* not told its own yet.
ToldSoFar ==
  \A i \in 1..Len(events) : events[i].kind # "DETACHED" =>
    /\ events[i].info.gen <= generation
    /\ usbPc \in {"admit", "claim"} => events[i].info.gen < generation

EventsInv == EventsDescribeTheirAttachment /\ InfoOfTarget /\ ToldSoFar
=============================================================================
