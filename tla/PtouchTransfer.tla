---------------------------- MODULE PtouchTransfer ----------------------------
(***************************************************************************)
(* One level below PtouchTransport: what a lease holder does between two of *)
(* its steps (src/ptouch_usb.c: xfer_cb, submit_and_wait,                   *)
(* cancel_timed_out_transfer and the loops around them).  A transfer has    *)
(* three owners in turn: the call, the USB host library, and the library's  *)
(* queue of completions, whose callbacks only usb_task runs.  The call has  *)
(* a binary semaphore to wait on, allocates and frees it with its           *)
(* transfers, and gives up waiting on a timeout.                            *)
(*                                                                         *)
(* PtouchTransport summarises a transfer as its submission and one of the   *)
(* ends "sent", "rejected", "error", "timeout" and "retained"; here are the *)
(* steps, with memory that is allocated, freed and allocated again.         *)
(***************************************************************************)
EXTENDS FiniteSets, Naturals

CONSTANTS
  Xfers, Sems,     \* the heap's addresses for transfers and for semaphores
  NoXfer, NoSem,   \* NULL
  MaxChunks        \* bound: OUT chunks of an output, IN packets of a wait

ASSUME NullAssumption == NoXfer \notin Xfers /\ NoSem \notin Sems
ASSUME ChunksAssumption == MaxChunks \in Nat \ {0}

VARIABLES
  (* locals of the call that has the lease *)
  pc,           \* "idle": nobody has the lease
  kind,         \* "status": request OUT, then INs; "output"; "await": completion INs
  mine,         \* transfers it allocated
  cur, sem,     \* the one it runs, and its semaphore
  left,         \* chunks or packets to go, this one included
  undo,         \* the halt or the flush returned ESP_OK
  (* memory *)
  live, liveSems,  \* allocated transfers and semaphores
  ctx,             \* t->context: the semaphore a transfer's callback gives
  status,          \* t->status
  token,           \* semaphores that are given
  retained,        \* transfers left to the library for the rest of the boot
  (* the host library, its client task and the device, outside the call *)
  flying,       \* transfers submitted and not over
  queue,        \* transfers over, callback not run yet
  ep,           \* each endpoint: "active" or "halted"
  present,      \* the open device is plugged in
  open,         \* s_dev, claimed
  gone,         \* s_dev_gone_pending
  usbPc,        \* usb_task: "events", or "lease" when it tries for the lease
  (* the gates *)
  faulted, quarantined,
  (* history and assumptions *)
  erred,        \* endpoints halted by the library since a transfer failed on them
  sound         \* the library cancels what it is asked to, and the grace period
                \* is long enough for usb_task to get to the callback

callLocals == <<kind, mine, cur, sem, left, undo>>
memory == <<live, liveSems, ctx, status, token, retained>>
hostLib == <<flying, queue, ep, erred>>
device == <<present, open, gone, usbPc>>
gates == <<faulted, quarantined, sound>>
vars == <<pc, callLocals, memory, hostLib, device, gates>>

Endpoints == {"in", "out"}
Statuses == {"none", "completed", "error", "canceled", "noDevice"}

\* The endpoint of the running transfer: a status call's first one is its request.
Ep == IF kind = "output" \/ (kind = "status" /\ mine = {cur}) THEN "out" ELSE "in"

-----------------------------------------------------------------------------
(* The calls: allocation.                                                  *)

Allocate(k, t, s, n) ==
  /\ t \notin live /\ s \notin liveSems
  /\ live' = live \cup {t} /\ liveSems' = liveSems \cup {s}
  /\ kind' = k /\ mine' = {t} /\ cur' = t /\ sem' = s /\ left' = n /\ undo' = FALSE
  /\ pc' = "submit"
  /\ UNCHANGED <<ctx, status, token, retained, hostLib, device, gates>>

\* status_txn_locked; an inspection goes through the quarantine.
BeginStatus(t, s) ==
  pc = "idle" /\ ~faulted /\ ~gone /\ open /\ Allocate("status", t, s, 1)

\* bulk_out_locked; print_job_out_locked comes to the same two tests.
BeginOutput(t, s, n) ==
  pc = "idle" /\ ~faulted /\ ~quarantined /\ open /\ Allocate("output", t, s, n)

\* wait_for_print_completion_locked, in the call whose output went out.
BeginAwait(t, s, n) == pc = "await" /\ Allocate("await", t, s, n)

\* A raw command does not wait; the allocations may fail.
NoAwait == pc = "await" /\ pc' = "idle" /\ UNCHANGED <<callLocals, memory, hostLib, device, gates>>

-----------------------------------------------------------------------------
(* submit_and_wait.                                                        *)

\* The library takes transfers for an active endpoint of a device that is there.
SubmitAccepted ==
  /\ pc = "submit" /\ present /\ ep[Ep] = "active"
  /\ ctx' = [ctx EXCEPT ![cur] = sem]
  /\ status' = [status EXCEPT ![cur] = "none"]
  /\ flying' = flying \cup {cur}
  /\ pc' = "wait"
  /\ UNCHANGED <<callLocals, live, liveSems, token, retained, queue, ep, erred, device, gates>>

\* It may reject one for any reason.
SubmitRejected ==
  /\ pc = "submit" /\ pc' = "done"
  /\ UNCHANGED <<callLocals, memory, hostLib, device, gates>>

\* xSemaphoreTake returned in time: the status decides.
Woken ==
  /\ pc = "wait" /\ sem \in token
  /\ token' = token \ {sem}
  /\ pc' = IF status[cur] = "completed" THEN "next" ELSE "done"
  /\ UNCHANGED <<callLocals, live, liveSems, ctx, status, retained, hostLib, device, gates>>

\* Mutant: a transfer that timed out is not waited for.
WaitAbandoned ==
  /\ pc = "wait" /\ sem \notin token /\ pc' = "verdict"
  /\ UNCHANGED <<callLocals, memory, hostLib, device, gates>>

\* It timed out.
WaitExpires ==
  /\ pc = "wait" /\ sem \notin token /\ pc' = "halt"
  /\ UNCHANGED <<callLocals, memory, hostLib, device, gates>>

-----------------------------------------------------------------------------
(* cancel_timed_out_transfer.  The transfer may end at any of its steps.    *)

\* What a library call may return: ESP_OK with its effect, or an error.  A sound
\* library obeys as long as the device is there.
Returns == IF sound /\ present THEN {TRUE} ELSE BOOLEAN

\* An endpoint that is halted already may be reported as an invalid state.
HaltReturns(ok) ==
  /\ ok \in Returns \/ ep[Ep] = "halted"
  /\ ep' = IF ok THEN [ep EXCEPT ![Ep] = "halted"] ELSE ep

Halt ==
  /\ pc = "halt"
  /\ \E ok \in BOOLEAN : HaltReturns(ok) /\ undo' = ok
  /\ pc' = "flush"
  /\ UNCHANGED <<kind, mine, cur, sem, left, memory, flying, queue, erred, device, gates>>

\* Only a halted endpoint is flushed, which cancels what is queued on it.
FlushReturns(ok) ==
  /\ ok \in IF ep[Ep] = "halted" THEN Returns ELSE {FALSE}
  /\ IF ok /\ cur \in flying
     THEN /\ flying' = flying \ {cur} /\ queue' = queue \cup {cur}
          /\ status' = [status EXCEPT ![cur] = "canceled"]
     ELSE UNCHANGED <<flying, queue, status>>

Flush ==
  /\ pc = "flush"
  /\ \E ok \in BOOLEAN : FlushReturns(ok) /\ undo' = (undo \/ ok)
  /\ pc' = "grace"
  /\ UNCHANGED <<kind, mine, cur, sem, left, live, liveSems, ctx, token, retained, ep, erred,
                 device, gates>>

\* Mutant: the endpoint is not cleared.
GraceNoClear ==
  /\ pc = "grace" /\ sem \in token
  /\ token' = token \ {sem} /\ pc' = "verdict"
  /\ UNCHANGED <<callLocals, live, liveSems, ctx, status, retained, hostLib, device, gates>>

\* The second wait, for the callback of the cancellation or of the transfer's own end.
GraceTaken ==
  /\ pc = "grace" /\ sem \in token
  /\ token' = token \ {sem}
  /\ pc' = IF undo THEN "clear" ELSE "verdict"
  /\ UNCHANGED <<callLocals, live, liveSems, ctx, status, retained, hostLib, device, gates>>

\* No callback came: the transfer and its semaphore are retained and the
\* transport is faulted, for an output with its quarantine.
GraceExpires ==
  /\ pc = "grace" /\ sem \notin token /\ ~sound
  /\ retained' = retained \cup {cur}
  /\ faulted' = TRUE /\ quarantined' = (quarantined \/ kind # "status")
  /\ pc' = "done"
  /\ UNCHANGED <<callLocals, live, liveSems, ctx, status, token, hostLib, device, sound>>

\* usb_host_endpoint_clear makes the endpoint usable again, if it can.
ClearReturns ==
  /\ pc = "clear" /\ pc' = "verdict"
  /\ \E ok \in Returns :
       IF ok THEN ep' = [ep EXCEPT ![Ep] = "active"] /\ erred' = erred \ {Ep}
             ELSE UNCHANGED <<ep, erred>>
  /\ UNCHANGED <<callLocals, memory, flying, queue, device, gates>>

\* Mutant: a transfer that completed while it was being cancelled is a timeout.
VerdictTimeout ==
  /\ pc = "verdict" /\ pc' = "done"
  /\ quarantined' = (quarantined \/ kind # "status")
  /\ UNCHANGED <<callLocals, memory, hostLib, device, faulted, sound>>

\* A late success is a success.
Verdict ==
  /\ pc = "verdict"
  /\ IF status[cur] = "completed"
     THEN pc' = "next" /\ UNCHANGED quarantined
     ELSE pc' = "done" /\ quarantined' = (quarantined \/ kind # "status")
  /\ UNCHANGED <<callLocals, memory, hostLib, device, faulted, sound>>

-----------------------------------------------------------------------------
(* The loops around it.                                                    *)

\* Mutant: the loop runs past its last chunk.
NextPastEnd ==
  /\ pc = "next"
  /\ left' = left - 1 /\ pc' = "submit"
  /\ UNCHANGED <<kind, mine, cur, sem, undo, memory, hostLib, device, gates>>

\* The next chunk, or the next packet with the same buffer.
NextTransfer ==
  /\ pc = "next" /\ left > 1
  /\ left' = left - 1 /\ pc' = "submit"
  /\ UNCHANGED <<kind, mine, cur, sem, undo, memory, hostLib, device, gates>>

\* The status request went out: a transfer for the reply, with the same semaphore.
ReceiveReply(t, n) ==
  /\ pc = "next" /\ kind = "status" /\ Ep = "out" /\ t \notin live
  /\ live' = live \cup {t} /\ mine' = mine \cup {t} /\ cur' = t /\ left' = n
  /\ pc' = "submit"
  /\ UNCHANGED <<kind, sem, undo, liveSems, ctx, status, token, retained, hostLib, device, gates>>

\* Its allocation fails, or a packet ends the wait for packets, or the limit does.
LoopEnds ==
  /\ pc = "next"
  /\ IF kind = "output" THEN left = 1 /\ pc' = "sent" ELSE pc' = "done"
  /\ UNCHANGED <<callLocals, memory, hostLib, device, gates>>

\* The locals go out of scope; what is freed keeps nothing.
Leave(freed) ==
  /\ pc \in {"done", "sent"}
  /\ pc' = IF pc = "sent" THEN "await" ELSE "idle"
  /\ kind' = "status" /\ mine' = {} /\ cur' = NoXfer /\ sem' = NoSem /\ left' = 1 /\ undo' = FALSE
  /\ ctx' = [t \in Xfers |-> IF t \in freed THEN NoSem ELSE ctx[t]]
  /\ status' = [t \in Xfers |-> IF t \in freed THEN "none" ELSE status[t]]
  /\ UNCHANGED <<retained, hostLib, device, gates>>

\* Mutants: the retained transfer is freed; the other one is retained with it.
FreeAll ==
  /\ Leave({})
  /\ live' = live \ mine /\ liveSems' = liveSems \ {sem} /\ token' = token \ {sem}

KeepAll ==
  /\ Leave({})
  /\ IF mine \cap retained = {}
     THEN live' = live \ mine /\ liveSems' = liveSems \ {sem} /\ token' = token \ {sem}
     ELSE UNCHANGED <<live, liveSems, token>>

\* Every transfer that is not retained is freed, and the semaphore if none is.
Free ==
  /\ Leave(mine \ retained)
  /\ live' = live \ (mine \ retained)
  /\ IF mine \cap retained = {}
     THEN liveSems' = liveSems \ {sem} /\ token' = token \ {sem}
     ELSE UNCHANGED <<liveSems, token>>

-----------------------------------------------------------------------------
(* The library, usb_task and the device.                                   *)

\* A transfer ends.  An error halts its endpoint, which no longer matters once the
\* transfer is retained.
Complete(t, s) ==
  /\ t \in flying
  /\ s = "noDevice" <=> ~present
  /\ flying' = flying \ {t} /\ queue' = queue \cup {t}
  /\ status' = [status EXCEPT ![t] = s]
  /\ IF s = "error" /\ t = cur
     THEN ep' = [ep EXCEPT ![Ep] = "halted"] /\ erred' = erred \cup {Ep}
     ELSE UNCHANGED <<ep, erred>>
  /\ UNCHANGED <<pc, callLocals, live, liveSems, ctx, token, retained, device, gates>>

\* xfer_cb, in usb_host_client_handle_events: it gives the semaphore.
Callback(t) ==
  /\ usbPc = "events" /\ t \in queue
  /\ queue' = queue \ {t} /\ token' = token \cup {ctx[t]}
  /\ UNCHANGED <<pc, callLocals, live, liveSems, ctx, status, retained, flying, ep, erred,
                 device, gates>>

\* client_cb, in the same loop: it only records the removal.
DevGone ==
  /\ usbPc = "events" /\ open /\ ~present /\ ~gone
  /\ gone' = TRUE
  /\ UNCHANGED <<pc, callLocals, memory, hostLib, present, open, usbPc, gates>>

EventsReturn ==
  /\ usbPc = "events" /\ usbPc' = "lease"
  /\ UNCHANGED <<pc, callLocals, memory, hostLib, present, open, gone, gates>>

\* Mutant: usb_task waits for the lease.
WaitForLease ==
  /\ usbPc = "lease" /\ pc = "idle"
  /\ usbPc' = "events"
  /\ IF gone THEN open' = FALSE /\ gone' = FALSE ELSE UNCHANGED <<open, gone>>
  /\ UNCHANGED <<pc, callLocals, memory, hostLib, present, gates>>

\* usb_task tries for the lease and goes back to its events without it; with it,
\* it releases the device that has gone.
TryLease ==
  /\ usbPc = "lease"
  /\ usbPc' = "events"
  /\ IF gone /\ pc = "idle" THEN open' = FALSE /\ gone' = FALSE ELSE UNCHANGED <<open, gone>>
  /\ UNCHANGED <<pc, callLocals, memory, hostLib, present, gates>>

\* usb_task opens and claims a printer: both endpoints are fresh.
Attach ==
  /\ usbPc = "lease" /\ pc = "idle" /\ ~open /\ ~gone
  /\ open' = TRUE /\ present' = TRUE
  /\ ep' = [e \in Endpoints |-> "active"] /\ erred' = {}
  /\ usbPc' = "events"
  /\ UNCHANGED <<pc, callLocals, memory, flying, queue, gone, gates>>

Unplug ==
  /\ present /\ present' = FALSE
  /\ UNCHANGED <<pc, callLocals, memory, hostLib, open, gone, usbPc, gates>>

\* The operator has inspected the tape.
ClearQuarantine ==
  /\ pc = "idle" /\ quarantined /\ quarantined' = FALSE
  /\ UNCHANGED <<pc, callLocals, memory, hostLib, device, faulted, sound>>

-----------------------------------------------------------------------------

Init ==
  /\ pc = "idle" /\ kind = "status" /\ mine = {} /\ cur = NoXfer /\ sem = NoSem
  /\ left = 1 /\ undo = FALSE
  /\ live = {} /\ liveSems = {} /\ token = {} /\ retained = {}
  /\ ctx = [t \in Xfers |-> NoSem] /\ status = [t \in Xfers |-> "none"]
  /\ flying = {} /\ queue = {} /\ ep = [e \in Endpoints |-> "active"] /\ erred = {}
  /\ present = TRUE /\ open = TRUE /\ gone = FALSE /\ usbPc = "events"
  /\ faulted = FALSE /\ quarantined = FALSE /\ sound \in BOOLEAN

Begin ==
  \E t \in Xfers, s \in Sems :
    BeginStatus(t, s) \/ \E n \in 1..MaxChunks : BeginOutput(t, s, n)

\* What the call does once it has begun.
CallStep ==
  \/ (\E t \in Xfers, s \in Sems, n \in 1..MaxChunks : BeginAwait(t, s, n)) \/ NoAwait
  \/ SubmitAccepted \/ SubmitRejected \/ Woken \/ WaitExpires
  \/ Halt \/ Flush \/ GraceTaken \/ GraceExpires \/ ClearReturns \/ Verdict
  \/ NextTransfer \/ (\E t \in Xfers, n \in 1..MaxChunks : ReceiveReply(t, n)) \/ LoopEnds
  \/ Free

UsbStep == (\E t \in Xfers : Callback(t)) \/ DevGone \/ EventsReturn \/ TryLease \/ Attach

ReportsGone == \E t \in Xfers : Complete(t, "noDevice")

HostStep == ReportsGone \/ \E t \in Xfers, s \in {"completed", "error"} : Complete(t, s)

Next == Begin \/ CallStep \/ UsbStep \/ HostStep \/ Unplug \/ ClearQuarantine

Spec == Init /\ [][Next]_vars

\* The call runs on, its waits time out; the library reports the transfers of a
\* device that has gone; usb_task delivers every callback in its queue.  Nothing
\* makes a transfer on a device that is there end by itself.
Fairness ==
  /\ WF_vars(CallStep) /\ WF_vars(ReportsGone)
  /\ WF_vars(TryLease) /\ \A t \in Xfers : SF_vars(Callback(t))

FairSpec == Spec /\ Fairness
-----------------------------------------------------------------------------
(* Properties.                                                             *)

CallTypeOK ==
  /\ pc \in {"idle", "submit", "wait", "halt", "flush", "grace", "clear", "verdict",
             "next", "done", "sent", "await"}
  /\ kind \in {"status", "output", "await"} /\ left \in 1..MaxChunks /\ undo \in BOOLEAN
  /\ mine \subseteq Xfers /\ cur \in Xfers \cup {NoXfer} /\ sem \in Sems \cup {NoSem}

MemoryTypeOK ==
  /\ live \subseteq Xfers /\ liveSems \subseteq Sems /\ retained \subseteq Xfers
  /\ token \subseteq Sems
  /\ ctx \in [Xfers -> Sems \cup {NoSem}] /\ status \in [Xfers -> Statuses]

HostTypeOK ==
  /\ flying \subseteq Xfers /\ queue \subseteq Xfers
  /\ ep \in [Endpoints -> {"active", "halted"}] /\ erred \subseteq Endpoints

GateTypeOK ==
  /\ present \in BOOLEAN /\ open \in BOOLEAN /\ gone \in BOOLEAN
  /\ usbPc \in {"events", "lease"}
  /\ faulted \in BOOLEAN /\ quarantined \in BOOLEAN /\ sound \in BOOLEAN

\* Every variable keeps its type.
TypeOK == CallTypeOK /\ MemoryTypeOK /\ HostTypeOK /\ GateTypeOK

\* A transfer the library or its queue still has is allocated, and so is the
\* semaphore its callback will give, however long after the call's timeout, its
\* return, and later calls the callback comes.
CallbacksTouchLiveMemory ==
  \A t \in flying \cup queue : t \in live /\ ctx[t] \in liveSems

\* A call reads a transfer's status, reuses it or moves on only after that
\* transfer's own callback, and never begins a wait with a token of an earlier one.
WokenByItsOwnTransfer ==
  pc \in {"submit", "next", "clear", "verdict"} =>
    cur \notin flying \cup queue /\ sem \notin token

\* Between calls nothing is allocated but the one transfer a boot may retain, with
\* its semaphore, and then the transport is faulted (ptouch_usb.c:381).
NothingLeaks ==
  pc = "idle" =>
    /\ live = retained /\ liveSems = {ctx[t] : t \in retained}
    /\ Cardinality(retained) <= 1
    /\ retained # {} => faulted

\* A timeout latches the quarantine only over a transfer that did not complete: one
\* that completed while it was being cancelled is a success.
LateSuccessCounts ==
  [][~quarantined /\ quarantined' => status[cur] # "completed" \/ cur \in queue]_vars

\* After a reclaimed timeout the endpoint is usable again (ptouch_usb.c:348): only a
\* transfer's own error leaves one halted, until the device is plugged in again.
EndpointsComeBack ==
  pc = "idle" /\ sound /\ present => \A e \in Endpoints : ep[e] = "halted" => e \in erred

\* Every call returns; with a sound library it does so with every transfer reclaimed,
\* because usb_task never waits for the lease the call has (ptouch_usb.c:1112).
CallReturns == pc # "idle" ~> pc = "idle"

-----------------------------------------------------------------------------
(* The inductive invariant behind the safety properties, in named parts.    *)

Waiting == {"wait", "halt", "flush", "grace"}

\* A call has exactly what it allocated; nobody has anything else.
MemoryAccounted ==
  IF pc \in {"idle", "await"}
  THEN mine = {} /\ live = retained /\ liveSems = {ctx[t] : t \in retained}
  ELSE cur \in mine /\ sem \in Sems /\ live = mine /\ liveSems = {sem}

\* The fault and the one retained transfer come together, at the end of a call.
FaultRetainsOne ==
  /\ faulted <=> retained # {}
  /\ pc \notin {"idle", "done"} => ~faulted
  /\ pc = "done" /\ faulted => retained = {cur} /\ ctx[cur] = sem
  /\ retained # {} => \E t \in Xfers : retained = {t}

\* The transfer a call waits for is on its way or its token is there, never both;
\* outside a wait only the retained transfer is on its way.
OneOwner ==
  /\ flying \cap queue = {}
  /\ \A t \in flying : status[t] = "none"
  /\ IF pc \in Waiting
     THEN /\ ctx[cur] = sem /\ flying \cup queue \subseteq {cur} /\ token \subseteq {sem}
          /\ sem \in token <=> flying \cup queue = {}
     ELSE flying \cup queue \subseteq retained /\ token \subseteq {ctx[t] : t \in retained}

OwnershipInv == TypeOK /\ MemoryAccounted /\ FaultRetainsOne /\ OneOwner

\* With a sound library an endpoint of a device that is there is halted by a transfer's
\* own error, or by the cancellation that is about to clear it.
EndpointInv ==
  sound /\ present =>
    \A e \in Endpoints :
      ep[e] = "halted" =>
        \/ e \in erred
        \/ e = Ep /\ (pc = "flush" \/ (pc \in {"grace", "clear"} /\ undo))
=============================================================================
