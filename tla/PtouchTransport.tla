---------------------------- MODULE PtouchTransport ----------------------------
(***************************************************************************)
(* The I/O side of the driver (src/ptouch_usb.c): the application's tasks  *)
(* calling the API, every call that touches the device serialised by the   *)
(* lease s_io_mtx, and the gates that decide what may be sent: the         *)
(* application gate, the output quarantine, the terminal transport fault    *)
(* and the open chain.  PtouchAttach supplies usb_task and the bus, which   *)
(* run beside these calls.                                                  *)
(*                                                                         *)
(* A call is a path through pc.  What the lease holder has in its local    *)
(* variables is the record txn; nobody else has any.  A USB transfer is a  *)
(* submission (flight becomes TRUE) and a later end, and everything that    *)
(* takes no lease may happen in between.                                    *)
(***************************************************************************)
EXTENDS PtouchAttach

CONSTANTS
  Callers,       \* the application's tasks
  Ops,           \* the API operations they use, a subset of AllOps
  Validated,     \* profiles with completion_validated
  Chainable,     \* profiles with chain_validated
  Framed,        \* profiles sent frame by frame, the others coalesced
  Legacy,        \* ptouch_model_p710bt(), or NoProfile
  MaxFrames      \* bound: OUT chunks of a job, IN packets of a wait (16 in the
                 \* code's status wait, a deadline in its completion wait)

AllOps == {"snapshot", "job", "legacy", "bulk", "status", "inspect", "ready",
           "cached", "poll"}
PrintOps == {"job", "legacy", "bulk"}

ASSUME OpsAssumption == Ops \subseteq AllOps
ASSUME CallersAssumption == Usb \notin Callers /\ NoTask \notin Callers
ASSUME CapabilityAssumption ==
  /\ Validated \subseteq Profiles /\ Framed \subseteq Profiles
  /\ Chainable \subseteq Validated
  /\ Legacy \in Allowed \cup {NoProfile}
ASSUME FramesAssumption == MaxFrames \in Nat \ {0}

VARIABLES
  (* the gates, guarded by s_gate_lock *)
  appBlocked,   \* s_status_app_blocked
  quarantined,  \* s_output_quarantined
  faulted,      \* s_transport_faulted
  chainPending, \* s_chain_pending
  (* the callers *)
  pc, op,       \* where each task is, in which call
  job,          \* the print job each task has built
  txn,          \* locals of the lease holder's call
  flight,       \* a transfer of the lease holder is submitted and not over
  (* history, read by properties and by what the operator may do *)
  unsettled,    \* raster bytes were submitted and neither confirmed nor inspected
  chainConn,    \* the connection whose chain chainPending speaks of
  inspected     \* an after-inspection transaction has answered idle since output last failed

gateVars == <<appBlocked, quarantined, faulted, chainPending>>
callVars == <<pc, op, job, txn, flight>>
historyVars == <<unsettled, chainConn, inspected>>
transportVars == <<gateVars, callVars, historyVars>>
vars == <<attachVars, transportVars>>

\* What an idle status transaction can answer: an idle reply with the job's
\* media, one with other media, an error frame; "fail" is the error return.
Replies == {"idle", "otherMedia", "error"}

Jobs == [profile : Profiles \cup {NoProfile}, gen : Nat, conn : 0..MaxPlugs,
         chain : BOOLEAN, frames : 1..MaxFrames]
NoJob == [profile |-> NoProfile, gen |-> 0, conn |-> NoConn, chain |-> FALSE, frames |-> 1]

NoTxn == [gen |-> 0, cont |-> FALSE, sent |-> FALSE, left |-> 0, reply |-> "none", rc |-> "none"]

-----------------------------------------------------------------------------
(* Conditions of the source.                                               *)

\* Mutant: the quarantine does not block status commands.
StatusIgnoresQuarantine == appBlocked \/ faulted \/ chainPending

StatusCommandsBlocked == appBlocked \/ quarantined \/ faulted \/ chainPending

OutputBlocked == appBlocked \/ quarantined \/ faulted

Claimed == claimed /\ dev # NoConn

\* ptouch_usb_target_snapshot, and the entry test of the ready snapshots
Ready == ~gonePending /\ Claimed /\ profile \in Allowed

\* Mutant: a job is matched by model alone.
SameModel(j) == j.profile = profile

SameTarget(j) == j.profile = profile /\ j.gen = generation

\* Mutant: a raw command passes a latched quarantine.
BulkIgnoresQuarantine == ~faulted /\ Claimed

\* The checks of bulk_out_locked before its first chunk.
BulkAdmitted == ~faulted /\ ~quarantined /\ Claimed

\* Mutant: the cached generation is not compared.
CacheOfAnyGeneration == cache.valid

\* The cache answers: present, of this generation; its age is up to the clock.
CacheUsable == cache.valid /\ cache.gen = generation

-----------------------------------------------------------------------------
(* Calls and the lease.                                                    *)

\* Everything the callers do leaves usb_task, the bus and the context alone.
AttachContextUnchanged ==
  UNCHANGED <<hostVars, newPending, gonePending, contextVars, usbPc, events>>

Goto(t, label) == pc' = [pc EXCEPT ![t] = label]

\* The call returns, releasing the lease.
Return(t) ==
  /\ Goto(t, "idle")
  /\ op' = [op EXCEPT ![t] = "none"]
  /\ txn' = NoTxn
  /\ ioMtx' = NoTask

\* A task enters an API call.  It prints with a job it has built, and inspects
\* only a quarantined printer: that is the contract of ptouch_usb.h.
Call(t, o) ==
  /\ pc[t] = "idle"
  /\ o = "job" => job[t] # NoJob
  /\ o = "inspect" => quarantined
  /\ op' = [op EXCEPT ![t] = o]
  /\ Goto(t, IF o = "poll" THEN "try" ELSE "lease")
  /\ UNCHANGED <<gateVars, job, txn, flight, historyVars, ioMtx, cache>>
  /\ AttachContextUnchanged

\* xSemaphoreTake(s_io_mtx, portMAX_DELAY); the generation is read first thing.
TakeLease(t) ==
  /\ pc[t] \in {"lease", "try"} /\ ioMtx = NoTask
  /\ ioMtx' = t
  /\ Goto(t, "check")
  /\ txn' = [NoTxn EXCEPT !.gen = generation]
  /\ UNCHANGED <<gateVars, op, job, flight, historyVars, cache>>
  /\ AttachContextUnchanged

\* ptouch_usb_status with the lease taken: straight to the cache.
TryLeaseFails(t) ==
  /\ pc[t] = "try" /\ ioMtx # NoTask
  /\ Goto(t, "pollGate")
  /\ UNCHANGED <<gateVars, op, job, txn, flight, historyVars, ioMtx, cache>>
  /\ AttachContextUnchanged

\* ptouch_usb_target_snapshot, and the job the caller then builds from it
\* outside the lease (ptouch_usb_print_bitmap does both).  With no printable
\* attachment, or when the build fails, the caller has no new job.
JobsFor(p, g, c) ==
  {[profile |-> p, gen |-> g, conn |-> c, chain |-> chained, frames |-> n] :
     chained \in {x \in BOOLEAN : x => p \in Chainable}, n \in 1..MaxFrames}

Snapshot(t) ==
  /\ pc[t] = "check" /\ op[t] = "snapshot"
  /\ Return(t)
  /\ \E j \in {job[t]} \cup (IF Ready THEN JobsFor(profile, generation, dev) ELSE {}) :
       job' = [job EXCEPT ![t] = j]
  /\ UNCHANGED <<gateVars, flight, historyVars, cache>>
  /\ AttachContextUnchanged

\* ptouch_usb_cached_ready_snapshot: reads the cache under the lease and sends
\* nothing.
CachedReady(t) ==
  /\ pc[t] = "check" /\ op[t] = "cached"
  /\ Return(t)
  /\ UNCHANGED <<gateVars, job, flight, historyVars, cache>>
  /\ AttachContextUnchanged

-----------------------------------------------------------------------------
(* Entry of the output calls.                                              *)

\* ptouch_usb_print_job_and_wait up to its preflight.
JobAdmitted(t) == ~OutputBlocked /\ Ready /\ SameTarget(job[t])

\* The fault is tested before continuing_chain is read, so a faulted transport
\* settles as no continuation.
JobRefused(t) ==
  /\ pc[t] = "check" /\ op[t] = "job" /\ ~JobAdmitted(t)
  /\ txn' = [txn EXCEPT !.cont = ~faulted /\ chainPending, !.rc = "fail"]
  /\ Goto(t, "settle")
  /\ UNCHANGED <<gateVars, op, job, flight, historyVars, ioMtx, cache>>
  /\ AttachContextUnchanged

JobPreflight(t) ==
  /\ pc[t] = "check" /\ op[t] = "job" /\ JobAdmitted(t) /\ ~chainPending
  /\ Goto(t, "txn")
  /\ UNCHANGED <<gateVars, op, job, txn, flight, historyVars, ioMtx, cache>>
  /\ AttachContextUnchanged

\* A continuation has no preflight.
JobContinues(t) ==
  /\ pc[t] = "check" /\ op[t] = "job" /\ JobAdmitted(t) /\ chainPending
  /\ txn' = [txn EXCEPT !.cont = TRUE]
  /\ Goto(t, "admit")
  /\ UNCHANGED <<gateVars, op, job, flight, historyVars, ioMtx, cache>>
  /\ AttachContextUnchanged

\* ptouch_usb_print_and_wait up to its preflight.
LegacyAdmitted == ~StatusCommandsBlocked /\ ~gonePending /\ profile = Legacy

LegacyPreflight(t) ==
  /\ pc[t] = "check" /\ op[t] = "legacy" /\ LegacyAdmitted
  /\ Goto(t, "txn")
  /\ UNCHANGED <<gateVars, op, job, txn, flight, historyVars, ioMtx, cache>>
  /\ AttachContextUnchanged

\* ptouch_usb_bulk_out
BulkStart(t, n) ==
  /\ pc[t] = "check" /\ op[t] = "bulk" /\ BulkAdmitted
  /\ txn' = [txn EXCEPT !.left = n]
  /\ Goto(t, "raw")
  /\ UNCHANGED <<gateVars, op, job, flight, historyVars, ioMtx, cache>>
  /\ AttachContextUnchanged

\* These two refuse by returning at once.
Refused(t) ==
  /\ pc[t] = "check"
  /\ \/ op[t] = "legacy" /\ ~LegacyAdmitted
     \/ op[t] = "bulk" /\ ~BulkAdmitted
  /\ Return(t)
  /\ UNCHANGED <<gateVars, job, flight, historyVars, cache>>
  /\ AttachContextUnchanged

\* The checks after the preflight, which for a job are also those before a
\* continuation: the removal flag and the target once more, then what the
\* preflight said.  A coalesced stream goes through bulk_out_locked's checks.
RasterAdmitted(t) ==
  \/ /\ op[t] = "job" /\ ~gonePending /\ SameTarget(job[t])
     /\ txn.cont \/ txn.reply = "idle"
     /\ profile \in Framed \/ BulkAdmitted
  \/ op[t] = "legacy" /\ txn.reply \in {"idle", "otherMedia"} /\ BulkAdmitted

RasterStart(t, n) ==
  /\ pc[t] = "admit" /\ RasterAdmitted(t)
  /\ op[t] = "job" => n = job[t].frames
  /\ txn' = [txn EXCEPT !.left = n]
  /\ Goto(t, "raster")
  /\ UNCHANGED <<gateVars, op, job, flight, historyVars, ioMtx, cache>>
  /\ AttachContextUnchanged

RasterRefused(t) ==
  /\ pc[t] = "admit" /\ ~RasterAdmitted(t)
  /\ txn' = [txn EXCEPT !.rc = "fail"]
  /\ Goto(t, "settle")
  /\ UNCHANGED <<gateVars, op, job, flight, historyVars, ioMtx, cache>>
  /\ AttachContextUnchanged

-----------------------------------------------------------------------------
(* status_txn_locked: one OUT of invalidate, init (ESC @) and the request,  *)
(* then INs until the reply.                                               *)

StatusOps == {"status", "inspect", "ready", "poll"}

\* It starts a status call, after the device tests that ready_snapshot and
\* status make first, and it is the preflight of a printing call (pc "txn").
AtStatusTxn(t) == pc[t] = "txn" \/ (pc[t] = "check" /\ op[t] \in StatusOps)

\* Mutant: an after-inspection transaction ignores the terminal fault.
StatusIgnoresFault(t) ==
  /\ (StatusCommandsBlocked => op[t] = "inspect")
  /\ ~gonePending /\ Claimed

StatusAdmitted(t) ==
  /\ ~faulted /\ (StatusCommandsBlocked => op[t] = "inspect")
  /\ ~gonePending /\ Claimed

StatusBegin(t) ==
  /\ AtStatusTxn(t) /\ StatusAdmitted(t)
  /\ Goto(t, "statusOut")
  /\ UNCHANGED <<gateVars, op, job, txn, flight, historyVars, ioMtx, cache>>
  /\ AttachContextUnchanged

StatusRefused(t) ==
  /\ AtStatusTxn(t) /\ ~StatusAdmitted(t)
  /\ txn' = [txn EXCEPT !.reply = "fail"]
  /\ Goto(t, "txnDone")
  /\ UNCHANGED <<gateVars, op, job, flight, historyVars, ioMtx, cache>>
  /\ AttachContextUnchanged

StatusSent(t) ==
  /\ pc[t] = "statusOut" /\ flight
  /\ flight' = FALSE
  /\ txn' = [txn EXCEPT !.left = MaxFrames]
  /\ Goto(t, "statusIn")
  /\ UNCHANGED <<gateVars, op, job, historyVars, ioMtx, cache>>
  /\ AttachContextUnchanged

\* A short packet or a stale notification is drained, up to the frame limit.
StatusDrained(t) ==
  /\ pc[t] = "statusIn" /\ flight /\ txn.left > 1
  /\ flight' = FALSE
  /\ txn' = [txn EXCEPT !.left = @ - 1]
  /\ UNCHANGED <<gateVars, pc, op, job, historyVars, ioMtx, cache>>
  /\ AttachContextUnchanged

\* A reply to a request, or any error frame, ends the transaction; a reply of
\* another model, and the frame limit, are its failure.
StatusReply(t, r) ==
  /\ pc[t] = "statusIn" /\ flight
  /\ flight' = FALSE
  /\ txn' = [txn EXCEPT !.reply = r]
  /\ Goto(t, "txnDone")
  /\ UNCHANGED <<gateVars, op, job, historyVars, ioMtx, cache>>
  /\ AttachContextUnchanged

\* What each call does with the result.  ready_snapshot and status test the
\* device again, because usb_task may have flagged the removal meanwhile, and
\* publish what they accept.
Publishes(t) ==
  /\ \/ op[t] = "ready" /\ txn.reply = "idle"
     \/ op[t] = "poll" /\ txn.reply \in Replies
  /\ ~gonePending /\ Claimed /\ generation = txn.gen

StatusPublish(t) ==
  /\ pc[t] = "txnDone" /\ Publishes(t)
  /\ cache' = [valid |-> TRUE, gen |-> txn.gen, src |-> dev, reply |-> txn.reply]
  /\ Return(t)
  /\ UNCHANGED <<gateVars, job, flight, historyVars>>
  /\ AttachContextUnchanged

StatusReturn(t) ==
  /\ pc[t] = "txnDone" /\ op[t] \in {"status", "inspect", "ready"} /\ ~Publishes(t)
  /\ inspected' = (inspected \/ (op[t] = "inspect" /\ txn.reply \in {"idle", "otherMedia"}))
  /\ Return(t)
  /\ UNCHANGED <<gateVars, job, flight, unsettled, chainConn, cache>>
  /\ AttachContextUnchanged

\* ptouch_usb_status goes on to its cache, without the lease.
PollMissed(t) ==
  /\ pc[t] = "txnDone" /\ op[t] = "poll" /\ ~Publishes(t)
  /\ txn' = NoTxn /\ ioMtx' = NoTask
  /\ Goto(t, "pollGate")
  /\ UNCHANGED <<gateVars, op, job, flight, historyVars, cache>>
  /\ AttachContextUnchanged

PreflightDone(t) ==
  /\ pc[t] = "txnDone" /\ op[t] \in {"job", "legacy"}
  /\ Goto(t, "admit")
  /\ UNCHANGED <<gateVars, op, job, txn, flight, historyVars, ioMtx, cache>>
  /\ AttachContextUnchanged

\* The rest of ptouch_usb_status: the gates, then whether the device is still
\* there, then the cache under s_cache_mtx, one after the other.
PollPasses(t) ==
  /\ \/ pc[t] = "pollGate" /\ ~StatusCommandsBlocked /\ Goto(t, "pollDev")
     \/ pc[t] = "pollDev" /\ ~gonePending /\ Claimed /\ Goto(t, "pollCache")
  /\ UNCHANGED <<gateVars, op, job, txn, flight, historyVars, ioMtx, cache>>
  /\ AttachContextUnchanged

\* It returns: refused, or at the cache, which serves if CacheUsable and young.
PollReturns(t) ==
  /\ \/ pc[t] = "pollGate" /\ StatusCommandsBlocked
     \/ pc[t] = "pollDev" /\ (gonePending \/ ~Claimed)
     \/ pc[t] = "pollCache"
  /\ Goto(t, "idle") /\ op' = [op EXCEPT ![t] = "none"]
  /\ UNCHANGED <<gateVars, job, txn, flight, historyVars, ioMtx, cache>>
  /\ AttachContextUnchanged

-----------------------------------------------------------------------------
(* Transfers of the lease holder: submit_and_wait and                      *)
(* cancel_timed_out_transfer.                                              *)

StatusPcs == {"statusOut", "statusIn"}
OutputPcs == {"raster", "raw", "completion"}
TransferPcs == StatusPcs \cup OutputPcs

\* usb_host_transfer_submit accepts the transfer.
Submit(t) ==
  /\ pc[t] \in TransferPcs /\ ~flight
  /\ flight' = TRUE
  /\ unsettled' = (unsettled \/ pc[t] = "raster")
  /\ UNCHANGED <<gateVars, pc, op, job, txn, chainConn, inspected, ioMtx, cache>>
  /\ AttachContextUnchanged

\* How a transfer fails: it cannot be allocated or submitted, it ends with an
\* error status, it times out and is reclaimed, or its callback never comes and
\* it is retained, which is the terminal fault.
Failures == {"rejected", "error", "timeout", "retained"}

StatusFails(t, f) ==
  /\ pc[t] \in StatusPcs /\ flight = (f # "rejected")
  /\ flight' = FALSE
  /\ faulted' = (faulted \/ f = "retained")
  /\ txn' = [txn EXCEPT !.reply = "fail"]
  /\ Goto(t, "txnDone")
  /\ UNCHANGED <<appBlocked, quarantined, chainPending, op, job, historyVars, ioMtx, cache>>
  /\ AttachContextUnchanged

\* An output or completion transfer that times out latches the quarantine here,
\* before its call settles.
OutputFails(t, f) ==
  /\ pc[t] \in OutputPcs /\ flight = (f # "rejected")
  /\ flight' = FALSE
  /\ faulted' = (faulted \/ f = "retained")
  /\ quarantined' = (quarantined \/ f \in {"timeout", "retained"})
  /\ txn' = [txn EXCEPT !.rc = "fail",
                        !.sent = txn.sent \/ (pc[t] = "raster" /\ f # "rejected")]
  /\ inspected' = FALSE
  /\ Goto(t, "settle")
  /\ UNCHANGED <<appBlocked, chainPending, op, job, unsettled, chainConn, ioMtx, cache>>
  /\ AttachContextUnchanged

\* Mutants: the loop runs past the last chunk; only the last chunk counts as
\* submitted output.
ChunkSentPastEnd(t) ==
  /\ pc[t] \in {"raster", "raw"} /\ flight
  /\ flight' = FALSE
  /\ txn' = [txn EXCEPT !.sent = txn.sent \/ pc[t] = "raster", !.left = @ - 1]
  /\ UNCHANGED <<gateVars, pc, op, job, historyVars, ioMtx, cache>>
  /\ AttachContextUnchanged

ChunkSentUncounted(t) ==
  /\ pc[t] \in {"raster", "raw"} /\ flight /\ txn.left > 1
  /\ flight' = FALSE
  /\ txn' = [txn EXCEPT !.left = @ - 1]
  /\ UNCHANGED <<gateVars, pc, op, job, historyVars, ioMtx, cache>>
  /\ AttachContextUnchanged

\* One chunk or frame was accepted, not the last.
ChunkSent(t) ==
  /\ pc[t] \in {"raster", "raw"} /\ flight /\ txn.left > 1
  /\ flight' = FALSE
  /\ txn' = [txn EXCEPT !.sent = txn.sent \/ pc[t] = "raster", !.left = @ - 1]
  /\ UNCHANGED <<gateVars, pc, op, job, historyVars, ioMtx, cache>>
  /\ AttachContextUnchanged

\* After its last chunk a print waits for the printer ...
RasterSent(t) ==
  /\ pc[t] = "raster" /\ flight /\ txn.left = 1
  /\ flight' = FALSE
  /\ txn' = [txn EXCEPT !.sent = TRUE, !.left = MaxFrames]
  /\ Goto(t, "completion")
  /\ UNCHANGED <<gateVars, op, job, historyVars, ioMtx, cache>>
  /\ AttachContextUnchanged

\* ... and a raw command is done.
RawSent(t) ==
  /\ pc[t] = "raw" /\ flight /\ txn.left = 1
  /\ flight' = FALSE
  /\ txn' = [txn EXCEPT !.rc = "ok"]
  /\ Goto(t, "settle")
  /\ UNCHANGED <<gateVars, op, job, historyVars, ioMtx, cache>>
  /\ AttachContextUnchanged

\* Mutant: the completion wait has no deadline.
CompletionWaitsForever(t) ==
  /\ pc[t] = "completion" /\ flight /\ txn.left > 1
  /\ flight' = FALSE
  /\ UNCHANGED <<gateVars, pc, op, job, txn, historyVars, ioMtx, cache>>
  /\ AttachContextUnchanged

\* wait_for_print_completion_locked after a packet: wait for another until the
\* deadline, or end: the tracker confirmed the label, or the printer reported
\* an error or broke the protocol, or the deadline passed.
CompletionWaits(t) ==
  /\ pc[t] = "completion" /\ flight /\ txn.left > 1
  /\ flight' = FALSE
  /\ txn' = [txn EXCEPT !.left = @ - 1]
  /\ UNCHANGED <<gateVars, pc, op, job, historyVars, ioMtx, cache>>
  /\ AttachContextUnchanged

\* A profile that is not completion-validated is never confirmed.
CompletionEnds(t, rc) ==
  /\ pc[t] = "completion" /\ flight
  /\ rc = "ok" => profile \in Validated
  /\ flight' = FALSE
  /\ txn' = [txn EXCEPT !.rc = rc]
  /\ Goto(t, "settle")
  /\ UNCHANGED <<gateVars, op, job, historyVars, ioMtx, cache>>
  /\ AttachContextUnchanged

-----------------------------------------------------------------------------
(* The end of an output call: the chain state, the quarantine, the lease,  *)
(* each a store of its own, since some readers of the gates take no lease.  *)
(* print_and_wait has no chain, and bulk_out only releases the lease.       *)

Confirmed(t) == op[t] # "bulk" /\ txn.rc = "ok"

Ambiguous(t) == op[t] # "bulk" /\ txn.rc # "ok" /\ (txn.sent \/ txn.cont)

\* s_chain_pending of a call: print_and_wait leaves it alone.
SetChain(t, open) == chainPending' = IF op[t] = "job" THEN open ELSE chainPending

SettleConfirmed(t) ==
  /\ pc[t] = "settle" /\ Confirmed(t)
  /\ SetChain(t, job[t].chain)
  /\ unsettled' = FALSE /\ chainConn' = dev
  /\ Goto(t, "release")
  /\ UNCHANGED <<appBlocked, quarantined, faulted, op, job, txn, flight, inspected, ioMtx, cache>>
  /\ AttachContextUnchanged

\* Mutants: a failed continuation leaves the chain open; the chain is closed before
\* the quarantine is latched; the lease is released before it.
SettleKeepsChain(t) ==
  /\ pc[t] \in {"settle", "closing"} /\ Ambiguous(t)
  /\ quarantined' = TRUE
  /\ Goto(t, IF pc[t] = "settle" THEN "closing" ELSE "release")
  /\ UNCHANGED <<appBlocked, faulted, chainPending, op, job, txn, flight, historyVars, ioMtx, cache>>
  /\ AttachContextUnchanged

SettleClosesFirst(t) ==
  /\ pc[t] \in {"settle", "closing"} /\ Ambiguous(t)
  /\ IF pc[t] = "settle"
     THEN SetChain(t, FALSE) /\ Goto(t, "closing") /\ UNCHANGED quarantined
     ELSE quarantined' = TRUE /\ Goto(t, "release") /\ UNCHANGED chainPending
  /\ UNCHANGED <<appBlocked, faulted, op, job, txn, flight, historyVars, ioMtx, cache>>
  /\ AttachContextUnchanged

SettleReleasesFirst(t) ==
  /\ pc[t] \in {"settle", "closing"} /\ Ambiguous(t)
  /\ IF pc[t] = "settle"
     THEN ioMtx' = NoTask /\ Goto(t, "closing") /\ UNCHANGED <<quarantined, chainPending, op, txn>>
     ELSE /\ quarantined' = TRUE /\ SetChain(t, FALSE) /\ Goto(t, "idle")
          /\ op' = [op EXCEPT ![t] = "none"] /\ UNCHANGED <<ioMtx, txn>>
  /\ UNCHANGED <<appBlocked, faulted, job, flight, historyVars, cache>>
  /\ AttachContextUnchanged

\* The label "done" of print_job_and_wait, and the same test of print_and_wait: the
\* quarantine is latched, then the chain is closed.
SettleAmbiguous(t) ==
  /\ \/ /\ pc[t] = "settle" /\ Ambiguous(t)
        /\ quarantined' = TRUE /\ inspected' = FALSE
        /\ Goto(t, "closing")
        /\ UNCHANGED chainPending
     \/ /\ pc[t] = "closing"
        /\ SetChain(t, FALSE)
        /\ Goto(t, "release")
        /\ UNCHANGED <<quarantined, inspected>>
  /\ UNCHANGED <<appBlocked, faulted, op, job, txn, flight, unsettled, chainConn, ioMtx, cache>>
  /\ AttachContextUnchanged

\* The lease is released last, and at once if nothing was submitted.
SettleReturn(t) ==
  /\ \/ pc[t] = "release"
     \/ pc[t] = "settle" /\ ~Confirmed(t) /\ ~Ambiguous(t)
  /\ Return(t)
  /\ UNCHANGED <<gateVars, job, flight, historyVars, cache>>
  /\ AttachContextUnchanged

-----------------------------------------------------------------------------
(* The application's gates, which take no lease.                           *)

\* ptouch_usb_set_status_commands_blocked
SetAppBlocked(b) ==
  /\ appBlocked' = b
  /\ UNCHANGED <<quarantined, faulted, chainPending, callVars, historyVars, ioMtx, cache>>
  /\ AttachContextUnchanged

\* ptouch_usb_clear_output_quarantine_after_inspection, called as its contract
\* says: every print path closed, after a fresh idle transaction.
ClearQuarantine ==
  /\ quarantined /\ inspected
  /\ \A t \in Callers : op[t] \notin PrintOps
  /\ quarantined' = FALSE
  /\ unsettled' = FALSE /\ inspected' = FALSE
  /\ UNCHANGED <<appBlocked, faulted, chainPending, callVars, chainConn, ioMtx, cache>>
  /\ AttachContextUnchanged

-----------------------------------------------------------------------------

Init ==
  /\ AttachInit
  /\ appBlocked = FALSE /\ quarantined = FALSE /\ faulted = FALSE /\ chainPending = FALSE
  /\ pc = [t \in Callers |-> "idle"] /\ op = [t \in Callers |-> "none"]
  /\ job = [t \in Callers |-> NoJob]
  /\ txn = NoTxn /\ flight = FALSE
  /\ unsettled = FALSE /\ chainConn = NoConn /\ inspected = FALSE

\* The steps of a call that has the lease.
HolderStep(t) ==
  \/ Snapshot(t) \/ CachedReady(t)
  \/ JobRefused(t) \/ JobPreflight(t) \/ JobContinues(t)
  \/ LegacyPreflight(t) \/ Refused(t) \/ \E n \in 1..MaxFrames : BulkStart(t, n)
  \/ RasterRefused(t) \/ \E n \in 1..MaxFrames : RasterStart(t, n)
  \/ StatusBegin(t) \/ StatusRefused(t) \/ StatusSent(t) \/ StatusDrained(t)
  \/ \E r \in Replies \cup {"fail"} : StatusReply(t, r)
  \/ StatusPublish(t) \/ StatusReturn(t) \/ PollMissed(t) \/ PreflightDone(t)
  \/ Submit(t) \/ \E f \in Failures : StatusFails(t, f) \/ OutputFails(t, f)
  \/ ChunkSent(t) \/ RasterSent(t) \/ RawSent(t)
  \/ CompletionWaits(t) \/ \E rc \in {"ok", "fail"} : CompletionEnds(t, rc)
  \/ SettleConfirmed(t) \/ SettleAmbiguous(t) \/ SettleReturn(t)

PollStep(t) == TryLeaseFails(t) \/ PollPasses(t) \/ PollReturns(t)

CallerStep(t) ==
  \/ \E o \in Ops : Call(t, o)
  \/ TakeLease(t) \/ PollStep(t) \/ HolderStep(t)

GateStep == ClearQuarantine \/ \E b \in BOOLEAN : SetAppBlocked(b)

Next ==
  \/ AttachNext /\ UNCHANGED transportVars
  \/ \E t \in Callers : CallerStep(t)
  \/ GateStep

Spec == Init /\ [][Next]_vars

\* The lease is a FreeRTOS mutex: among waiters of one priority it goes to the
\* one that waited longest.  A call with the lease runs on: each transfer ends by
\* itself or by its timeout.  usb_task loops.  Nothing is assumed of the bus, of
\* the application, or of usb_task's chances at the lease.
Fairness ==
  /\ WF_vars(UsbStep /\ UNCHANGED transportVars)
  /\ \A t \in Callers : WF_vars(HolderStep(t)) /\ WF_vars(PollStep(t)) /\ SF_vars(TakeLease(t))

FairSpec == Spec /\ Fairness

-----------------------------------------------------------------------------
(* Properties.                                                             *)

HolderPcs == {"check", "txn", "statusOut", "statusIn", "txnDone", "admit",
              "raster", "raw", "completion", "settle", "closing", "release"}
FreePcs == {"idle", "lease", "try", "pollGate", "pollDev", "pollCache"}

Txns == [gen : Nat, cont : BOOLEAN, sent : BOOLEAN, left : 0..MaxFrames,
         reply : Replies \cup {"none", "fail"}, rc : {"none", "ok", "fail"}]

CallTypeOK ==
  /\ pc \in [Callers -> HolderPcs \cup FreePcs] /\ op \in [Callers -> AllOps \cup {"none"}]
  /\ txn \in Txns /\ flight \in BOOLEAN

Caches == [valid : BOOLEAN, gen : Nat, src : 0..MaxPlugs, reply : Replies \cup {"none"}]

SharedTypeOK ==
  /\ ioMtx \in Callers \cup {Usb, NoTask} /\ cache \in Caches
  /\ job \in [Callers -> Jobs]

GateTypeOK ==
  /\ appBlocked \in BOOLEAN /\ quarantined \in BOOLEAN
  /\ faulted \in BOOLEAN /\ chainPending \in BOOLEAN
  /\ unsettled \in BOOLEAN /\ chainConn \in 0..MaxPlugs /\ inspected \in BOOLEAN

\* Every variable keeps its type: what each name of the source may hold.
TypeOK == AttachTypeOK /\ CallTypeOK /\ SharedTypeOK /\ GateTypeOK

\* Whenever no call holds the lease, output that was submitted and neither
\* confirmed nor inspected is quarantined: no observer queued on the lease can
\* find an ambiguous printer with its gate open (ptouch_usb.c:822).
AmbiguityQuarantined ==
  ioMtx = NoTask /\ unsettled => quarantined

\* An ordinary status command (it starts with ESC @) is on the wire only while
\* the printer owes nothing: no unconfirmed output, no open chain.
StatusOnlyToSettledPrinter ==
  \A t \in Callers :
    pc[t] \in {"statusOut", "statusIn"} /\ op[t] # "inspect" => ~unsettled /\ ~chainPending

\* Raster goes only to the attachment its job was built for, whatever was
\* unplugged and plugged between the snapshot and the print.
RasterReachesItsTarget ==
  \A t \in Callers : pc[t] = "raster" /\ op[t] = "job" => job[t].conn = dev

\* No chunk is submitted through a latched quarantine or fault: between
\* chunks, where the framed path tests neither again, both are still clear.
OutputOnlyThroughOpenGates ==
  \A t \in Callers : pc[t] \in {"raster", "raw"} /\ ~flight => ~quarantined /\ ~faulted

\* While a transfer is in flight its device stays the claimed, open target:
\* usb_task does not close it, release it or replace it under the transfer.
DeviceHeldDuringTransfer ==
  flight => claimed /\ dev # NoConn /\ dev = observed

\* A cached status the unlocked poll may serve came from the attachment that is
\* current at that moment, also halfway through a detach or an attach.
PolledCacheIsCurrent ==
  \A t \in Callers : pc[t] = "pollCache" /\ CacheUsable => <<generation, cache.src>> \in bindings

\* An open chain is one whose last label was confirmed: an unsettled printer is
\* never left marked as waiting for a continuation, which would skip the
\* preflight.
ChainOnlyAfterConfirmation ==
  ioMtx = NoTask /\ chainPending => ~unsettled

\* After the terminal fault no transfer is ever submitted again, from any call
\* already inside the driver or made later.
NothingSubmittedAfterFault ==
  [][faulted => ~(~flight /\ flight')]_vars

\* An observer that takes no lease (the poll of the cache, the public gate test) never
\* finds the gate of an open chain or a quarantine gone because a label was given up: it
\* opens when the printer confirmed a label or its inspector cleared it, also halfway
\* through the end of a print (ptouch_usb.c:825-828).
GateOpensOnlyWhenSettled ==
  [][(quarantined \/ chainPending) /\ ~(quarantined' \/ chainPending')
       => inspected \/ \E t \in Callers : pc[t] = "settle" /\ Confirmed(t)]_vars

\* Every call returns: no packet, timeout, fault, unplug or rival caller keeps
\* one inside the driver.
CallsReturn == \A t \in Callers : pc[t] # "idle" ~> pc[t] = "idle"

\* A removed device is let go, claimed or not, once the application leaves the
\* lease alone (usb_task only tries for it, so a busy application can hold it off).
RemovedDeviceReleased ==
  <>[](\A t \in Callers : pc[t] = "idle")
    => \A c \in Conns : (observed = c /\ c \notin plugged) ~> observed # c

\* The last label's chain is continued on the attachment that printed it
\* (ptouch_usb.c:58: only the next generation-matched raster job may consume it).
ContinuationStaysOnItsAttachment ==
  \A t \in Callers : pc[t] = "raster" /\ op[t] = "job" /\ txn.cont => chainConn = dev

-----------------------------------------------------------------------------
(* The driver's promise, kept by the calls.                                *)

\* What the lease holder's call is doing on the wire, as PtouchLedger names it.
\* A print goes on until it settles, if it has submitted anything.
WorkOf(t) ==
  CASE pc[t] \in StatusPcs -> IF op[t] = "inspect" THEN "inspecting" ELSE "asking"
    [] pc[t] = "raw" -> "raw"
    [] \/ pc[t] \in {"raster", "completion"}
       \/ pc[t] \in {"settle", "closing"} /\ op[t] # "bulk" /\ txn.sent -> "printing"
    [] OTHER -> "none"

Work == IF ioMtx \in Callers THEN WorkOf(ioMtx) ELSE "none"

Ledger == INSTANCE PtouchLedger WITH
  work <- Work,
  doubt <- unsettled, shut <- quarantined, dead <- faulted, open <- chainPending

\* Whatever the calls, the usb_task, the bus and the operator do, what is on the
\* wire, the doubt about the label and the gates change as PtouchLedger says.
KeepsLedger == Ledger!Spec

-----------------------------------------------------------------------------
(* The inductive invariant behind the safety properties, in named parts.    *)

\* Exactly the lease holder is inside a locked section.
LeaseHeld == \A t \in Callers : pc[t] \in HolderPcs <=> ioMtx = t

\* Where a call counts packets or chunks, at least one is left.
WorkLeft ==
  \A t \in Callers : pc[t] \in {"statusIn", "raster", "raw", "completion"} => txn.left >= 1

\* Calls reach only the steps of their own operation.
StepsOfOp ==
  \A t \in Callers :
    /\ pc[t] \in {"txn", "admit", "raster", "completion"} => op[t] \in {"job", "legacy"}
    /\ pc[t] \in {"statusOut", "statusIn", "txnDone"} => op[t] \in StatusOps \cup {"job", "legacy"}
    /\ pc[t] = "raw" => op[t] = "bulk"
    /\ pc[t] = "settle" => op[t] \in PrintOps
    /\ pc[t] \in {"closing", "release"} => op[t] \in {"job", "legacy"}

\* A transfer in flight belongs to a call, whose device is claimed; so is the
\* device of a print from its entry on.
DeviceOfCalls ==
  /\ flight => \E t \in Callers : pc[t] \in TransferPcs
  /\ \A t \in Callers :
       \/ pc[t] \in TransferPcs
       \/ op[t] = "job" /\ pc[t] \in {"txn", "txnDone", "admit"}
       => Claimed

\* What the gates say at each point of a call: they were read once, and only
\* the lease holder can latch them.
GatesOfCalls ==
  \A t \in Callers :
    /\ pc[t] \in TransferPcs \cup {"txn"} => ~faulted
    /\ pc[t] \in {"raster", "raw", "completion"} => ~quarantined
    /\ pc[t] = "closing" => quarantined
    /\ op[t] \in {"job", "legacy"} /\ pc[t] \in {"txn", "statusOut", "statusIn", "txnDone", "admit"}
         => ~quarantined
    /\ pc[t] = "admit" /\ faulted => txn.reply = "fail" /\ (op[t] = "job" => ~txn.cont)
    /\ pc[t] = "txnDone" /\ faulted => txn.reply = "fail" 
    /\ \/ pc[t] = "check"
       \/ op[t] = "job" /\ pc[t] \in {"txn", "statusOut", "statusIn", "txnDone"}
       => ~txn.cont

\* The open chain during a print is the one its entry saw.
ChainOfCalls ==
  \A t \in Callers :
    /\ op[t] = "job" /\ pc[t] \in {"txn", "statusOut", "statusIn", "txnDone", "admit",
                                 "raster", "completion"} => txn.cont = chainPending
    /\ op[t] = "legacy" /\ pc[t] \in {"txn", "statusOut", "statusIn", "txnDone", "admit",
                                    "raster", "completion"} => ~chainPending

\* Unsettled output is quarantined or belongs to the print that will settle it.
OutputAccounted ==
  /\ unsettled => \/ quarantined
                  \/ \E t \in Callers :
                       /\ pc[t] \in {"raster", "completion", "settle"}
                       /\ op[t] # "bulk"
                       /\ txn.sent \/ (pc[t] = "raster" /\ flight)
  /\ chainPending /\ unsettled =>
       \E t \in Callers : /\ pc[t] \in {"raster", "completion", "settle", "closing"}
                          /\ op[t] = "job" /\ txn.cont

\* Jobs and cached replies carry the generation of their attachment.
CarriedGenerations ==
  /\ \A t \in Callers : <<job[t].gen, job[t].conn>> \in bindings
  /\ \A t \in Callers : pc[t] = "raster" /\ op[t] = "job" => job[t].gen = generation
  /\ cache.valid => <<cache.gen, cache.src>> \in bindings

IInv ==
  /\ TypeOK /\ AttachInv /\ LeaseHeld /\ WorkLeft /\ StepsOfOp
  /\ DeviceOfCalls /\ GatesOfCalls /\ ChainOfCalls /\ OutputAccounted
  /\ StatusOnlyToSettledPrinter /\ CarriedGenerations
=============================================================================
