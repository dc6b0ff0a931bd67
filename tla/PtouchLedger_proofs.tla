-------------------------- MODULE PtouchLedger_proofs --------------------------
(***************************************************************************)
(* PtouchTransport implements PtouchLedger: every step of a call, of         *)
(* usb_task, of the bus and of the application is a step of the ledger or    *)
(* leaves it alone.  IInv says most of what the steps need; SettleInv adds   *)
(* what a print remembers of itself until it settles.                       *)
(***************************************************************************)
EXTENDS PtouchTransport_proofs

BeforeOutput == {"check", "txn", "statusOut", "statusIn", "txnDone", "admit"}

\* A print that has submitted something is in doubt until it settles; it is
\* confirmed only while the gates are open; a continuation settles the open chain.
SettleInv ==
  \A t \in Callers :
    /\ pc[t] \in BeforeOutput => ~txn.sent
    /\ pc[t] = "completion" => txn.sent
    /\ pc[t] = "raster" /\ flight => unsettled
    /\ pc[t] \in {"raster", "completion", "settle", "closing"} /\ op[t] # "bulk" /\ txn.sent
         => unsettled
    /\ pc[t] = "settle" /\ Confirmed(t) => txn.sent /\ ~quarantined /\ ~faulted
    /\ pc[t] \in {"settle", "closing"} /\ op[t] = "job" /\ txn.cont => chainPending
    /\ pc[t] \in HolderPcs /\ op[t] = "legacy" => ~txn.cont
    /\ pc[t] \in {"settle", "closing"} /\ op[t] = "legacy" => ~chainPending
    /\ pc[t] = "closing" => txn.sent \/ (op[t] = "job" /\ txn.cont)

\* Where the lease holder is decides the work.
LEMMA WorkOfHolder ==
  ASSUME IInv, NEW t \in Callers, pc[t] \in HolderPcs
  PROVE  ioMtx = t /\ Work = WorkOf(t)
BY DEF IInv, LeaseHeld, Work

\* Nothing is submitted before the first call.
LEMMA SettleInit == Init => SettleInv
BY DEF Init, SettleInv, BeforeOutput, HolderPcs

\* Two tasks are never both inside a locked section.
LEMMA OneHolder ==
  ASSUME IInv, NEW t \in Callers, NEW u \in Callers, pc[t] \in HolderPcs, pc[u] \in HolderPcs
  PROVE  t = u
BY DEF IInv, LeaseHeld

\* The entry of an output call has submitted nothing yet.
LEMMA EntryKeepsSettle ==
  ASSUME IInv, SettleInv, NEW t \in Callers,
         \/ Snapshot(t) \/ CachedReady(t) \/ JobRefused(t) \/ JobPreflight(t)
         \/ JobContinues(t) \/ LegacyPreflight(t) \/ Refused(t)
         \/ \E n \in 1..MaxFrames : BulkStart(t, n) \/ RasterRefused(t)
         \/ \E n \in 1..MaxFrames : RasterStart(t, n)
  PROVE  SettleInv'
<1> USE DEF IInv, TypeOK, CallTypeOK, Txns, SettleInv, Confirmed, BeforeOutput, HolderPcs, FreePcs,
        TransferPcs, StatusPcs, OutputPcs, ChainOfCalls, GatesOfCalls, StepsOfOp, AtStatusTxn,
        Goto, Return, NoTxn, gateVars, historyVars
<1>h. pc[t] \in HolderPcs => \A u \in Callers : pc[u] \in HolderPcs => u = t BY OneHolder
<1>1. CASE Snapshot(t) BY <1>1, <1>h DEF Snapshot
<1>2. CASE CachedReady(t) BY <1>2, <1>h DEF CachedReady
<1>3. CASE JobRefused(t) BY <1>3, <1>h DEF JobRefused
<1>4. CASE JobPreflight(t) BY <1>4, <1>h DEF JobPreflight
<1>5. CASE JobContinues(t) BY <1>5, <1>h DEF JobContinues
<1>6. CASE LegacyPreflight(t) BY <1>6, <1>h DEF LegacyPreflight
<1>7. CASE Refused(t) BY <1>7, <1>h DEF Refused
<1>8. CASE \E n \in 1..MaxFrames : BulkStart(t, n) BY <1>8, <1>h DEF BulkStart
<1>9. CASE RasterRefused(t) BY <1>9, <1>h DEF RasterRefused
<1>10. CASE \E n \in 1..MaxFrames : RasterStart(t, n) BY <1>10, <1>h DEF RasterStart, DeviceOfCalls
<1> QED BY <1>1, <1>2, <1>3, <1>4, <1>5, <1>6, <1>7, <1>8, <1>9, <1>10

\* Neither has its preflight.
LEMMA StatusKeepsSettle ==
  ASSUME IInv, SettleInv, NEW t \in Callers,
         \/ StatusBegin(t) \/ StatusRefused(t) \/ StatusSent(t) \/ StatusDrained(t)
         \/ \E r \in Replies \cup {"fail"} : StatusReply(t, r) \/ StatusPublish(t)
         \/ StatusReturn(t) \/ PollMissed(t) \/ PreflightDone(t)
         \/ \E f \in Failures : StatusFails(t, f)
  PROVE  SettleInv'
<1> USE DEF IInv, TypeOK, CallTypeOK, Txns, SettleInv, Confirmed, BeforeOutput, HolderPcs, FreePcs,
        TransferPcs, StatusPcs, OutputPcs, ChainOfCalls, GatesOfCalls, StepsOfOp, AtStatusTxn,
        Goto, Return, NoTxn, gateVars, historyVars
<1>h. pc[t] \in HolderPcs => \A u \in Callers : pc[u] \in HolderPcs => u = t BY OneHolder
<1>1. CASE StatusBegin(t) BY <1>1, <1>h DEF StatusBegin
<1>2. CASE StatusRefused(t) BY <1>2, <1>h DEF StatusRefused
<1>3. CASE StatusSent(t) BY <1>3, <1>h DEF StatusSent
<1>4. CASE StatusDrained(t) BY <1>4, <1>h DEF StatusDrained
<1>5. CASE \E r \in Replies \cup {"fail"} : StatusReply(t, r) BY <1>5, <1>h DEF StatusReply
<1>6. CASE StatusPublish(t) BY <1>6, <1>h DEF StatusPublish
<1>7. CASE StatusReturn(t) BY <1>7, <1>h DEF StatusReturn
<1>8. CASE PollMissed(t) BY <1>8, <1>h DEF PollMissed
<1>9. CASE PreflightDone(t) BY <1>9, <1>h DEF PreflightDone
<1>10. CASE \E f \in Failures : StatusFails(t, f) BY <1>10, <1>h DEF StatusFails
<1> QED BY <1>1, <1>2, <1>3, <1>4, <1>5, <1>6, <1>7, <1>8, <1>9, <1>10

\* Submitting is what brings the label into doubt.
LEMMA OutputKeepsSettle ==
  ASSUME IInv, SettleInv, NEW t \in Callers,
         \/ Submit(t) \/ \E f \in Failures : OutputFails(t, f) \/ ChunkSent(t)
         \/ RasterSent(t) \/ RawSent(t) \/ CompletionWaits(t)
         \/ \E rc \in {"ok", "fail"} : CompletionEnds(t, rc) \/ SettleConfirmed(t)
         \/ SettleAmbiguous(t) \/ SettleReturn(t)
  PROVE  SettleInv'
<1> USE DEF IInv, TypeOK, CallTypeOK, Txns, SettleInv, Confirmed, BeforeOutput, HolderPcs, FreePcs,
        TransferPcs, StatusPcs, OutputPcs, ChainOfCalls, GatesOfCalls, StepsOfOp, AtStatusTxn,
        Goto, Return, NoTxn, gateVars, historyVars
<1>h. pc[t] \in HolderPcs => \A u \in Callers : pc[u] \in HolderPcs => u = t BY OneHolder
<1>1. CASE Submit(t) BY <1>1, <1>h DEF Submit
<1>2. CASE \E f \in Failures : OutputFails(t, f)
  <2>1. PICK f \in Failures : OutputFails(t, f) BY <1>2
  <2>2. /\ pc[t] \in OutputPcs /\ flight = (f # "rejected") /\ pc' = [pc EXCEPT ![t] = "settle"]
        /\ UNCHANGED <<op, unsettled, chainPending>> /\ flight' = FALSE
    BY <2>1 DEF OutputFails
  <2>3. /\ txn'.sent = (txn.sent \/ (pc[t] = "raster" /\ f # "rejected"))
        /\ txn'.rc = "fail" /\ txn'.cont = txn.cont
    BY <2>1 DEF OutputFails
  <2>4. txn'.sent /\ op[t] # "bulk" => unsettled BY <2>2, <2>3
  <2>5. pc[t] \in {"raster", "completion"} /\ op[t] = "job" => txn.cont = chainPending BY <2>2
  <2>6. QED BY <2>2, <2>3, <2>4, <2>5, <1>h
<1>3. CASE ChunkSent(t) BY <1>3, <1>h DEF ChunkSent
<1>4. CASE RasterSent(t) BY <1>4, <1>h DEF RasterSent
<1>5. CASE RawSent(t) BY <1>5, <1>h DEF RawSent
<1>6. CASE CompletionWaits(t) BY <1>6, <1>h DEF CompletionWaits
<1>7. CASE \E rc \in {"ok", "fail"} : CompletionEnds(t, rc) BY <1>7, <1>h DEF CompletionEnds
<1>8. CASE SettleConfirmed(t) BY <1>8, <1>h DEF SettleConfirmed
<1>9. CASE SettleAmbiguous(t)
  <2>1. UNCHANGED <<op, txn, flight, unsettled, faulted>> BY <1>9 DEF SettleAmbiguous
  <2>2. CASE pc[t] = "settle"
    <3>1. pc' = [pc EXCEPT ![t] = "closing"] /\ UNCHANGED chainPending /\ Ambiguous(t)
      BY <1>9, <2>2 DEF SettleAmbiguous
    <3>2. op[t] \in {"job", "legacy"} /\ (txn.sent \/ txn.cont)
      BY <2>2, <3>1 DEF Ambiguous, PrintOps
    <3>3. QED BY <2>1, <2>2, <3>1, <3>2, <1>h
  <2>3. CASE pc[t] = "closing"
    <3>1. pc' = [pc EXCEPT ![t] = "release"] BY <1>9, <2>3 DEF SettleAmbiguous
    <3>2. QED BY <2>1, <2>3, <3>1, <1>h
  <2>4. QED BY <1>9, <2>2, <2>3 DEF SettleAmbiguous
<1>10. CASE SettleReturn(t) BY <1>10, <1>h DEF SettleReturn
<1> QED BY <1>1, <1>2, <1>3, <1>4, <1>5, <1>6, <1>7, <1>8, <1>9, <1>10

\* So every step of the lease holder preserves it.
LEMMA HolderKeepsSettle ==
  ASSUME IInv, SettleInv, NEW t \in Callers, HolderStep(t)
  PROVE  SettleInv'
<1>1. CASE \/ Snapshot(t) \/ CachedReady(t) \/ JobRefused(t) \/ JobPreflight(t)
           \/ JobContinues(t) \/ LegacyPreflight(t) \/ Refused(t)
           \/ \E n \in 1..MaxFrames : BulkStart(t, n) \/ RasterRefused(t)
           \/ \E n \in 1..MaxFrames : RasterStart(t, n)
  BY <1>1, EntryKeepsSettle
<1>2. CASE \/ StatusBegin(t) \/ StatusRefused(t) \/ StatusSent(t) \/ StatusDrained(t)
           \/ \E r \in Replies \cup {"fail"} : StatusReply(t, r) \/ StatusPublish(t)
           \/ StatusReturn(t) \/ PollMissed(t) \/ PreflightDone(t)
           \/ \E f \in Failures : StatusFails(t, f)
  BY <1>2, StatusKeepsSettle
<1>3. CASE \/ Submit(t) \/ \E f \in Failures : OutputFails(t, f) \/ ChunkSent(t)
           \/ RasterSent(t) \/ RawSent(t) \/ CompletionWaits(t)
           \/ \E rc \in {"ok", "fail"} : CompletionEnds(t, rc) \/ SettleConfirmed(t)
           \/ SettleAmbiguous(t) \/ SettleReturn(t)
  BY <1>3, OutputKeepsSettle
<1> QED BY <1>1, <1>2, <1>3, FramesAssumption DEF HolderStep, Replies, Failures

\* Nobody else touches a label in doubt; the operator clears the quarantine only
\* with every print path closed.
LEMMA SettleKeeps == ASSUME IInv, SettleInv, [Next]_vars PROVE SettleInv'
<1> USE DEF SettleInv, Confirmed, BeforeOutput, HolderPcs
<1>1. ASSUME NEW t \in Callers, HolderStep(t) PROVE SettleInv'
  BY <1>1, HolderKeepsSettle
<1>2. ASSUME NEW t \in Callers, (\E o \in Ops : Call(t, o)) \/ PollStep(t) PROVE SettleInv'
  <2>1. \E l \in FreePcs : pc' = [pc EXCEPT ![t] = l]
    BY <1>2 DEF Call, PollStep, TryLeaseFails, PollPasses, PollReturns, Goto, FreePcs
  <2>2. \A u \in Callers \ {t} : pc'[u] = pc[u] /\ op'[u] = op[u]
    BY <1>2 DEF IInv, TypeOK, CallTypeOK, Call, PollStep, TryLeaseFails, PollPasses, PollReturns, Goto
  <2>3. UNCHANGED <<gateVars, txn, flight, historyVars>>
    BY <1>2 DEF Call, PollStep, TryLeaseFails, PollPasses, PollReturns
  <2>4. pc'[t] \notin HolderPcs BY <2>1 DEF IInv, TypeOK, CallTypeOK, FreePcs
  <2>5. QED BY <2>2, <2>3, <2>4 DEF gateVars, historyVars
<1>6. ASSUME NEW t \in Callers, TakeLease(t) PROVE SettleInv'
  <2>1. \A u \in Callers : pc[u] \notin HolderPcs
    BY <1>6, CallersAssumption DEF IInv, LeaseHeld, TakeLease
  <2>2. pc' = [pc EXCEPT ![t] = "check"] /\ ~txn'.sent /\ ~txn'.cont
    BY <1>6 DEF TakeLease, Goto, NoTxn
  <2>3. QED BY <2>1, <2>2 DEF IInv, TypeOK, CallTypeOK
<1>3. CASE ClearQuarantine
  <2>1. \A t \in Callers : pc[t] \notin {"raster", "completion", "settle", "closing"}
    BY <1>3 DEF IInv, StepsOfOp, ClearQuarantine, PrintOps
  <2>2. UNCHANGED callVars BY <1>3 DEF ClearQuarantine
  <2>3. QED BY <2>1, <2>2 DEF callVars
<1>4. CASE \E b \in BOOLEAN : SetAppBlocked(b)
  BY <1>4 DEF SetAppBlocked, callVars, historyVars
<1>5. CASE UNCHANGED transportVars
  BY <1>5 DEF transportVars, gateVars, callVars, historyVars
<1> QED
  BY <1>1, <1>2, <1>3, <1>4, <1>5, <1>6 DEF Next, CallerStep, GateStep, vars

-----------------------------------------------------------------------------
(* Each step is a step of the ledger.                                      *)

LedgerStep == Ledger!Next \/ UNCHANGED <<Work, unsettled, quarantined, faulted, chainPending>>

\* The lease stays with the call, or goes to nobody, and the work with it.
LEMMA WorkAfter ==
  ASSUME NEW t \in Callers
  PROVE  /\ ioMtx' = t => Work' = WorkOf(t)'
         /\ ioMtx' = NoTask => Work' = "none"
BY CallersAssumption DEF Work

\* Where an output call may begin nothing is in doubt: all that is is quarantined.
LEMMA NothingInDoubt ==
  ASSUME IInv, NEW t \in Callers, pc[t] \in BeforeOutput, ~quarantined
  PROVE  ~unsettled
<1>1. \A u \in Callers : pc[u] \in HolderPcs => u = t BY OneHolder DEF HolderPcs, BeforeOutput
<1> QED BY <1>1 DEF IInv, OutputAccounted, HolderPcs, BeforeOutput

\* The entry of a call begins raw output and prints.
LEMMA EntryIsLedgerStep ==
  ASSUME IInv, SettleInv, NEW t \in Callers,
         \/ Snapshot(t) \/ CachedReady(t) \/ JobRefused(t) \/ JobPreflight(t) \/ JobContinues(t)
         \/ LegacyPreflight(t) \/ Refused(t) \/ RasterRefused(t)
         \/ \E n \in 1..MaxFrames : BulkStart(t, n) \/ RasterStart(t, n)
  PROVE  LedgerStep
<1> USE DEF LedgerStep, WorkOf, BeforeOutput, StatusPcs, OutputPcs, TransferPcs, HolderPcs,
        Goto, Return, gateVars, historyVars
<1>h. pc[t] \in HolderPcs => ioMtx = t /\ Work = WorkOf(t) BY WorkOfHolder
<1>w. (ioMtx' = t => Work' = WorkOf(t)') /\ (ioMtx' = NoTask => Work' = "none") BY WorkAfter
<1>s. pc[t] \in {"check", "admit"} => ~txn.sent BY DEF SettleInv
<1>y. pc \in [Callers -> HolderPcs \cup FreePcs] /\ txn \in Txns BY DEF IInv, TypeOK, CallTypeOK
<1>1. CASE Snapshot(t) BY <1>1, <1>h, <1>w, <1>s, <1>y DEF Snapshot, Txns
<1>2. CASE CachedReady(t) BY <1>2, <1>h, <1>w, <1>s, <1>y DEF CachedReady, Txns
<1>3. CASE JobRefused(t) BY <1>3, <1>h, <1>w, <1>s, <1>y DEF JobRefused, Txns
<1>4. CASE JobPreflight(t) BY <1>4, <1>h, <1>w, <1>s, <1>y DEF JobPreflight, Txns
<1>5. CASE JobContinues(t) BY <1>5, <1>h, <1>w, <1>s, <1>y DEF JobContinues, Txns
<1>6. CASE LegacyPreflight(t) BY <1>6, <1>h, <1>w, <1>s, <1>y DEF LegacyPreflight, Txns
<1>7. CASE Refused(t) BY <1>7, <1>h, <1>w, <1>s, <1>y DEF Refused, Txns
<1>8. CASE RasterRefused(t) BY <1>8, <1>h, <1>w, <1>s, <1>y DEF RasterRefused, Txns
<1>9. ASSUME NEW n \in 1..MaxFrames, BulkStart(t, n) PROVE LedgerStep
  <2>1. Work = "none" /\ Work' = "raw" BY <1>9, <1>h, <1>w, <1>y DEF BulkStart
  <2>2. ~quarantined /\ ~faulted BY <1>9 DEF BulkStart, BulkAdmitted
  <2>3. Ledger!BeginRaw BY <2>1, <2>2 DEF Ledger!BeginRaw
  <2>4. QED BY <1>9, <2>3 DEF BulkStart, Ledger!Next, Ledger!Begin
<1>10. ASSUME NEW n \in 1..MaxFrames, RasterStart(t, n) PROVE LedgerStep
  <2>1. Work = "none" /\ Work' = "printing" BY <1>10, <1>h, <1>w, <1>y DEF RasterStart
  <2>2. op[t] \in {"job", "legacy"} BY <1>10 DEF RasterStart, RasterAdmitted
  <2>3. ~quarantined /\ ~faulted
    BY <1>10, <2>2 DEF RasterStart, RasterAdmitted, BulkAdmitted, IInv, GatesOfCalls
  <2>4. ~unsettled BY <1>10, <2>3, NothingInDoubt DEF RasterStart
  <2>5. Ledger!BeginPrint BY <2>1, <2>3, <2>4 DEF Ledger!BeginPrint
  <2>6. QED BY <1>10, <2>5 DEF RasterStart, Ledger!Next, Ledger!Begin
<1> QED BY <1>1, <1>2, <1>3, <1>4, <1>5, <1>6, <1>7, <1>8, <1>9, <1>10

\* A status transaction begins as an inspection or, at a settled printer, as an
\* ordinary request, and its end sets at most the fault.
LEMMA StatusIsLedgerStep ==
  ASSUME IInv, SettleInv, NEW t \in Callers,
         \/ StatusBegin(t) \/ StatusRefused(t) \/ StatusSent(t) \/ StatusDrained(t)
         \/ StatusPublish(t) \/ StatusReturn(t) \/ PollMissed(t) \/ PreflightDone(t)
         \/ \E r \in Replies \cup {"fail"} : StatusReply(t, r)
         \/ \E f \in Failures : StatusFails(t, f)
  PROVE  LedgerStep
<1> USE DEF LedgerStep, WorkOf, BeforeOutput, StatusPcs, OutputPcs, TransferPcs, HolderPcs,
        Goto, Return, gateVars, historyVars
<1>h. pc[t] \in HolderPcs => ioMtx = t /\ Work = WorkOf(t) BY WorkOfHolder
<1>w. (ioMtx' = t => Work' = WorkOf(t)') /\ (ioMtx' = NoTask => Work' = "none") BY WorkAfter
<1>y. pc \in [Callers -> HolderPcs \cup FreePcs] BY DEF IInv, TypeOK, CallTypeOK
<1>1. CASE StatusBegin(t)
  <2>1. pc[t] \in {"txn", "check"} /\ Work = "none" BY <1>1, <1>h DEF StatusBegin, AtStatusTxn
  <2>2. Work' = IF op[t] = "inspect" THEN "inspecting" ELSE "asking"
    BY <1>1, <1>h, <1>w, <1>y, <2>1 DEF StatusBegin
  <2>3. ~faulted BY <1>1 DEF StatusBegin, StatusAdmitted
  <2>4. CASE op[t] = "inspect"
    <3>1. Ledger!Inspect BY <2>1, <2>2, <2>3, <2>4 DEF Ledger!Inspect
    <3>2. QED BY <1>1, <3>1 DEF StatusBegin, Ledger!Next, Ledger!Begin
  <2>5. CASE op[t] # "inspect"
    <3>1. ~quarantined /\ ~chainPending
      BY <1>1, <2>5 DEF StatusBegin, StatusAdmitted, StatusCommandsBlocked
    <3>2. ~unsettled BY <2>1, <3>1, NothingInDoubt
    <3>3. Ledger!Ask BY <2>1, <2>2, <2>3, <2>5, <3>1, <3>2 DEF Ledger!Ask
    <3>4. QED BY <1>1, <3>3 DEF StatusBegin, Ledger!Next, Ledger!Begin
  <2>6. QED BY <2>4, <2>5
<1>2. CASE StatusRefused(t)
  BY <1>2, <1>h, <1>w, <1>y DEF StatusRefused, AtStatusTxn
<1>3. CASE StatusSent(t) BY <1>3, <1>h, <1>w, <1>y DEF StatusSent
<1>4. CASE StatusDrained(t) BY <1>4, <1>h, <1>w, <1>y DEF StatusDrained
<1>5. CASE StatusPublish(t) BY <1>5, <1>h, <1>w, <1>y DEF StatusPublish
<1>6. CASE StatusReturn(t) BY <1>6, <1>h, <1>w, <1>y DEF StatusReturn
<1>7. CASE PollMissed(t) BY <1>7, <1>h, <1>w, <1>y DEF PollMissed
<1>8. CASE PreflightDone(t) BY <1>8, <1>h, <1>w, <1>y DEF PreflightDone
<1>9. ASSUME NEW r \in Replies \cup {"fail"}, StatusReply(t, r) PROVE LedgerStep
  <2>1. Work \in {"asking", "inspecting"} /\ Work' = "none"
    BY <1>9, <1>h, <1>w, <1>y DEF StatusReply
  <2>2. Ledger!EndStatus BY <1>9, <2>1 DEF StatusReply, Ledger!EndStatus
  <2>3. QED BY <2>2 DEF Ledger!Next
<1>10. ASSUME NEW f \in Failures, StatusFails(t, f) PROVE LedgerStep
  <2>1. Work \in {"asking", "inspecting"} /\ Work' = "none"
    BY <1>10, <1>h, <1>w, <1>y DEF StatusFails
  <2>2. faulted' \in {faulted, TRUE} BY <1>10 DEF StatusFails, IInv, TypeOK, GateTypeOK
  <2>3. Ledger!EndStatus BY <1>10, <2>1, <2>2 DEF StatusFails, Ledger!EndStatus
  <2>4. QED BY <2>3 DEF Ledger!Next
<1> QED BY <1>1, <1>2, <1>3, <1>4, <1>5, <1>6, <1>7, <1>8, <1>9, <1>10

\* A transfer that fails ends the raw command or latches the print's gates; one
\* that was never submitted withdraws a print that has submitted nothing.
LEMMA FailureIsLedgerStep ==
  ASSUME IInv, SettleInv, NEW t \in Callers, NEW f \in Failures, OutputFails(t, f)
  PROVE  LedgerStep
<1> USE DEF LedgerStep, Ledger!Next
<1>1. /\ pc[t] \in OutputPcs /\ flight = (f # "rejected")
      /\ faulted' = (faulted \/ f = "retained")
      /\ quarantined' = (quarantined \/ f \in {"timeout", "retained"})
      /\ UNCHANGED <<chainPending, unsettled, ioMtx, op>> /\ pc'[t] = "settle"
  BY DEF OutputFails, Goto, historyVars, IInv, TypeOK, CallTypeOK
<1>2. txn'.sent = (txn.sent \/ (pc[t] = "raster" /\ f # "rejected"))
  BY DEF OutputFails, IInv, TypeOK, CallTypeOK, Txns
<1>3. ioMtx = t /\ Work = WorkOf(t) BY <1>1, WorkOfHolder DEF OutputPcs, HolderPcs
<1>4. Work' = WorkOf(t)' BY <1>1, <1>3, WorkAfter
<1>5. quarantined \in BOOLEAN /\ faulted \in BOOLEAN /\ unsettled \in BOOLEAN
  BY DEF IInv, TypeOK, GateTypeOK
<1>6. ~faulted /\ ~quarantined BY <1>1 DEF IInv, GatesOfCalls, TransferPcs, OutputPcs
<1>7. CASE pc[t] = "raw"
  <2>1. op[t] = "bulk" BY <1>7 DEF IInv, StepsOfOp
  <2>2. Work = "raw" /\ Work' = "none" BY <1>1, <1>3, <1>4, <1>7, <2>1 DEF WorkOf, StatusPcs
  <2>3. Ledger!EndRaw BY <1>1, <1>5, <1>6, <2>2 DEF Ledger!EndRaw, Failures
  <2>4. QED BY <2>3
<1>8. CASE pc[t] # "raw"
  <2>1. pc[t] \in {"raster", "completion"} /\ op[t] \in {"job", "legacy"}
    BY <1>1, <1>8 DEF OutputPcs, IInv, StepsOfOp
  <2>2. Work = "printing" BY <1>3, <2>1 DEF WorkOf, StatusPcs
  <2>3. Work' = IF txn'.sent THEN "printing" ELSE "none"
    BY <1>1, <1>4, <2>1 DEF WorkOf, StatusPcs
  <2>4. CASE txn'.sent
    <3>1. unsettled BY <1>1, <1>2, <2>1, <2>4 DEF SettleInv
    <3>2. CASE f \in {"timeout", "retained"}
      <4>1. Ledger!Latch BY <1>1, <1>5, <1>6, <2>2, <2>3, <2>4, <3>1, <3>2 DEF Ledger!Latch
      <4>2. QED BY <4>1
    <3>3. CASE f \notin {"timeout", "retained"} BY <1>1, <1>5, <1>6, <2>2, <2>3, <2>4, <3>3
    <3>4. QED BY <3>2, <3>3
  <2>5. CASE ~txn'.sent
    <3>1. ~txn.sent /\ pc[t] = "raster" /\ f = "rejected"
      BY <1>1, <1>2, <2>1, <2>5 DEF SettleInv
    <3>2. ~unsettled
      <4>1. \A u \in Callers : pc[u] \in HolderPcs => u = t
        BY <2>1, OneHolder DEF HolderPcs
      <4>2. ~(txn.sent \/ (pc[t] = "raster" /\ flight)) BY <1>1, <3>1
      <4>3. QED BY <1>6, <4>1, <4>2 DEF IInv, OutputAccounted, HolderPcs
    <3>3. Ledger!Withdraw
      BY <1>1, <1>5, <1>6, <2>2, <2>3, <2>5, <3>1, <3>2 DEF Ledger!Withdraw
    <3>4. QED BY <3>3
  <2>6. QED BY <2>4, <2>5
<1> QED BY <1>7, <1>8

\* Submitting a chunk is the doubt; the end of the call is its resolution.
LEMMA OutputIsLedgerStep ==
  ASSUME IInv, SettleInv, NEW t \in Callers,
         \/ Submit(t) \/ ChunkSent(t) \/ RasterSent(t) \/ RawSent(t) \/ CompletionWaits(t)
         \/ SettleConfirmed(t) \/ SettleAmbiguous(t) \/ SettleReturn(t)
         \/ \E rc \in {"ok", "fail"} : CompletionEnds(t, rc)
  PROVE  LedgerStep
<1> USE DEF LedgerStep, WorkOf, StatusPcs, OutputPcs, TransferPcs, HolderPcs,
        Goto, Return, gateVars, historyVars
<1>h. pc[t] \in HolderPcs => ioMtx = t /\ Work = WorkOf(t) BY WorkOfHolder
<1>w. (ioMtx' = t => Work' = WorkOf(t)') /\ (ioMtx' = NoTask => Work' = "none") BY WorkAfter
<1>y. /\ pc \in [Callers -> HolderPcs \cup FreePcs] /\ txn \in Txns
      /\ unsettled \in BOOLEAN /\ quarantined \in BOOLEAN /\ faulted \in BOOLEAN
  BY DEF IInv, TypeOK, CallTypeOK, GateTypeOK
<1>o. /\ pc[t] \in {"raster", "completion"} => op[t] \in {"job", "legacy"}
      /\ pc[t] = "settle" => op[t] \in {"job", "legacy", "bulk"}
      /\ pc[t] = "raw" => op[t] = "bulk"
  BY DEF IInv, StepsOfOp, PrintOps
<1>g. pc[t] \in OutputPcs => ~quarantined /\ ~faulted BY DEF IInv, GatesOfCalls
<1>1. CASE Submit(t)
  <2>1. Work' = Work BY <1>1, <1>h, <1>w DEF Submit
  <2>2. CASE pc[t] = "raster"
    <3>1. Ledger!Send BY <1>1, <1>h, <1>g, <2>1, <2>2 DEF Submit, Ledger!Send
    <3>2. QED BY <3>1 DEF Ledger!Next
  <2>3. QED BY <1>1, <1>y, <2>1, <2>2 DEF Submit
<1>2. CASE ChunkSent(t) BY <1>2, <1>h, <1>w DEF ChunkSent
<1>3. CASE RasterSent(t) BY <1>3, <1>h, <1>w, <1>y DEF RasterSent
<1>4. CASE CompletionWaits(t) BY <1>4, <1>h, <1>w DEF CompletionWaits
<1>5. ASSUME NEW rc \in {"ok", "fail"}, CompletionEnds(t, rc) PROVE LedgerStep
  <2>1. txn.sent /\ txn'.sent = txn.sent
    BY <1>5, <1>y DEF CompletionEnds, SettleInv, Txns
  <2>2. Work = "printing" /\ Work' = "printing"
    BY <1>5, <1>h, <1>w, <1>y, <1>o, <2>1 DEF CompletionEnds
  <2>3. QED BY <1>5, <2>2 DEF CompletionEnds
<1>6. CASE RawSent(t)
  <2>1. Work = "raw" /\ Work' = "none" BY <1>6, <1>h, <1>w, <1>y, <1>o DEF RawSent
  <2>2. Ledger!EndRaw BY <1>6, <2>1 DEF RawSent, Ledger!EndRaw
  <2>3. QED BY <2>2 DEF Ledger!Next
<1>7. CASE SettleConfirmed(t)
  <2>1. op[t] # "bulk" /\ txn.sent /\ ~quarantined /\ ~faulted
    BY <1>7 DEF SettleConfirmed, Confirmed, SettleInv
  <2>2. unsettled BY <1>7, <2>1 DEF SettleConfirmed, SettleInv
  <2>3. Work = "printing" /\ Work' = "none" BY <1>7, <1>h, <1>w, <1>y, <2>1 DEF SettleConfirmed
  <2>4. chainPending' \in BOOLEAN
    BY <1>7 DEF SettleConfirmed, SetChain, IInv, TypeOK, GateTypeOK, SharedTypeOK, Jobs
  <2>5. Ledger!Confirm
    BY <1>7, <2>1, <2>2, <2>3, <2>4 DEF SettleConfirmed, Ledger!Confirm
  <2>6. QED BY <2>5 DEF Ledger!Next
<1>8. ASSUME SettleAmbiguous(t), pc[t] = "settle" PROVE LedgerStep
  <2>1. /\ quarantined' = TRUE /\ pc'[t] = "closing" /\ ioMtx' = ioMtx
        /\ UNCHANGED <<unsettled, faulted, chainPending, op, txn>>
    BY <1>8, <1>y DEF SettleAmbiguous
  <2>2. op[t] \in {"job", "legacy"} /\ (txn.sent \/ txn.cont)
    BY <1>8, <1>o DEF SettleAmbiguous, Ambiguous
  <2>3. CASE txn.sent
    <3>1. Work = "printing" /\ Work' = "printing" BY <1>8, <1>h, <1>w, <2>1, <2>2, <2>3
    <3>2. unsettled BY <1>8, <2>2, <2>3 DEF SettleInv
    <3>3. Ledger!Latch BY <1>y, <2>1, <3>1, <3>2 DEF Ledger!Latch
    <3>4. QED BY <3>3 DEF Ledger!Next
  <2>4. CASE ~txn.sent
    <3>1. Work = "none" /\ Work' = "none" BY <1>8, <1>h, <1>w, <2>1, <2>2, <2>4
    <3>2. chainPending BY <1>8, <2>2, <2>4 DEF SettleInv
    <3>3. Ledger!BreakChain BY <2>1, <3>1, <3>2 DEF Ledger!BreakChain
    <3>4. QED BY <3>3 DEF Ledger!Next
  <2>5. QED BY <2>3, <2>4
<1>9. ASSUME SettleAmbiguous(t), pc[t] = "closing" PROVE LedgerStep
  <2>1. /\ pc'[t] = "release" /\ ioMtx' = ioMtx
        /\ UNCHANGED <<unsettled, faulted, quarantined, op, txn>>
    BY <1>9, <1>y DEF SettleAmbiguous
  <2>2. op[t] \in {"job", "legacy"} BY <1>9 DEF IInv, StepsOfOp
  <2>3. quarantined BY <1>9 DEF IInv, GatesOfCalls
  <2>4. chainPending' = FALSE
    <3>1. chainPending \in BOOLEAN /\ (op[t] = "legacy" => ~chainPending)
      BY <1>9 DEF SettleInv, IInv, TypeOK, GateTypeOK
    <3>2. QED BY <1>9, <2>2, <3>1 DEF SettleAmbiguous, SetChain
  <2>5. Work' = "none" BY <1>h, <1>w, <1>9, <2>1
  <2>6. CASE txn.sent
    <3>1. Work = "printing" BY <1>9, <1>h, <2>2, <2>6
    <3>2. unsettled BY <1>9, <2>2, <2>6 DEF SettleInv
    <3>3. Ledger!Abandon BY <2>1, <2>3, <2>4, <2>5, <3>1, <3>2 DEF Ledger!Abandon
    <3>4. QED BY <3>3 DEF Ledger!Next
  <2>7. CASE ~txn.sent
    <3>1. Work = "none" BY <1>9, <1>h, <2>7
    <3>2. chainPending BY <1>9, <2>7 DEF SettleInv
    <3>3. Ledger!BreakChain BY <2>1, <2>3, <2>4, <2>5, <3>1, <3>2 DEF Ledger!BreakChain
    <3>4. QED BY <3>3 DEF Ledger!Next
  <2>8. QED BY <2>6, <2>7
<1>10. CASE SettleReturn(t)
  <2>1. pc[t] = "release" \/ op[t] = "bulk" \/ ~txn.sent
    BY <1>10, <1>o, <1>y DEF SettleReturn, Confirmed, Ambiguous
  <2>2. Work = "none" /\ Work' = "none" BY <1>10, <1>h, <1>w, <2>1 DEF SettleReturn
  <2>3. QED BY <1>10, <2>2 DEF SettleReturn
<1>11. CASE SettleAmbiguous(t) BY <1>8, <1>9, <1>11 DEF SettleAmbiguous
<1> QED BY <1>1, <1>2, <1>3, <1>4, <1>5, <1>6, <1>7, <1>10, <1>11

\* What takes no lease, or only takes it, is no work; the inspection clears the doubt.
LEMMA FreeIsLedgerStep ==
  ASSUME IInv, SettleInv,
         \/ \E t \in Callers : (\E o \in Ops : Call(t, o)) \/ PollStep(t) \/ TakeLease(t)
         \/ GateStep
         \/ UNCHANGED transportVars /\ (AttachNext \/ UNCHANGED vars)
  PROVE  LedgerStep
<1> USE CallersAssumption, OwnerAssumption DEF LedgerStep, gateVars, historyVars
<1>1. ASSUME NEW t \in Callers, (\E o \in Ops : Call(t, o)) \/ PollStep(t) PROVE LedgerStep
  <2>1. /\ \A u \in Callers \ {t} : pc'[u] = pc[u] /\ op'[u] = op[u]
        /\ UNCHANGED <<ioMtx, txn, gateVars, historyVars>> /\ pc[t] \in FreePcs
    BY <1>1 DEF IInv, TypeOK, CallTypeOK, Call, PollStep, TryLeaseFails, PollPasses,
                PollReturns, Goto, FreePcs
  <2>2. ioMtx # t BY <2>1 DEF IInv, LeaseHeld, FreePcs, HolderPcs
  <2>3. \A u \in Callers \ {t} : WorkOf(u)' = WorkOf(u) BY <2>1 DEF WorkOf
  <2>4. Work' = Work BY <2>1, <2>2, <2>3 DEF Work
  <2>5. QED BY <2>1, <2>4
<1>2. ASSUME NEW t \in Callers, TakeLease(t) PROVE LedgerStep
  <2>1. ioMtx' = t /\ pc'[t] = "check"
    BY <1>2 DEF TakeLease, Goto, IInv, TypeOK, CallTypeOK
  <2>2. Work' = "none" BY <2>1 DEF Work, WorkOf, StatusPcs
  <2>3. Work = "none" BY <1>2 DEF TakeLease, Work
  <2>4. QED BY <1>2, <2>2, <2>3 DEF TakeLease
<1>3. CASE ClearQuarantine
  <2>1. Work' = Work BY <1>3 DEF ClearQuarantine, callVars, Work, WorkOf
  <2>2. Work \notin {"printing", "raw"}
    <3>1. \A t \in Callers : op[t] \notin {"job", "legacy", "bulk"}
      BY <1>3 DEF ClearQuarantine, PrintOps
    <3>2. \A t \in Callers : WorkOf(t) \notin {"printing", "raw"}
      BY <3>1 DEF WorkOf, StatusPcs, IInv, StepsOfOp, PrintOps
    <3>3. QED BY <3>2 DEF Work
  <2>3. Ledger!Clear BY <1>3, <2>1, <2>2 DEF ClearQuarantine, Ledger!Clear
  <2>4. QED BY <2>3 DEF Ledger!Next
<1>4. ASSUME NEW b \in BOOLEAN, SetAppBlocked(b) PROVE LedgerStep
  BY <1>4 DEF SetAppBlocked, callVars, Work, WorkOf
<1>5. CASE UNCHANGED transportVars /\ (AttachNext \/ UNCHANGED vars)
  <2>1. ioMtx' # ioMtx => ioMtx \in {Usb, NoTask} /\ ioMtx' \in {Usb, NoTask}
    <3>1. CASE AttachNext BY <3>1, AttachRespectsLease DEF IInv, TypeOK
    <3>2. CASE UNCHANGED vars BY <3>2 DEF vars, attachVars
    <3>3. QED BY <1>5, <3>1, <3>2
  <2>2. \A t : WorkOf(t)' = WorkOf(t)
    BY <1>5 DEF transportVars, callVars, WorkOf
  <2>3. Work' = Work BY <2>1, <2>2 DEF Work
  <2>4. QED BY <1>5, <2>3 DEF transportVars
<1> QED BY <1>1, <1>2, <1>3, <1>4, <1>5 DEF GateStep

\* Every step of the driver is a step of the ledger or leaves it as it is.
LEMMA NextIsLedgerStep == ASSUME IInv, SettleInv, [Next]_vars PROVE LedgerStep
<1>1. ASSUME NEW t \in Callers, HolderStep(t) PROVE LedgerStep
  <2>1. CASE \/ Snapshot(t) \/ CachedReady(t) \/ JobRefused(t) \/ JobPreflight(t)
             \/ JobContinues(t) \/ LegacyPreflight(t) \/ Refused(t) \/ RasterRefused(t)
             \/ \E n \in 1..MaxFrames : BulkStart(t, n) \/ RasterStart(t, n)
    BY <2>1, EntryIsLedgerStep
  <2>2. CASE \/ StatusBegin(t) \/ StatusRefused(t) \/ StatusSent(t) \/ StatusDrained(t)
             \/ StatusPublish(t) \/ StatusReturn(t) \/ PollMissed(t) \/ PreflightDone(t)
             \/ \E r \in Replies \cup {"fail"} : StatusReply(t, r)
             \/ \E f \in Failures : StatusFails(t, f)
    BY <2>2, StatusIsLedgerStep
  <2>3. CASE \/ Submit(t) \/ ChunkSent(t) \/ RasterSent(t) \/ RawSent(t)
             \/ CompletionWaits(t) \/ SettleConfirmed(t) \/ SettleAmbiguous(t)
             \/ SettleReturn(t) \/ \E rc \in {"ok", "fail"} : CompletionEnds(t, rc)
    BY <2>3, OutputIsLedgerStep
  <2>4. CASE \E f \in Failures : OutputFails(t, f) BY <2>4, FailureIsLedgerStep
  <2>5. QED BY <1>1, <2>1, <2>2, <2>3, <2>4 DEF HolderStep
<1>2. ASSUME NEW t \in Callers, (\E o \in Ops : Call(t, o)) \/ PollStep(t) \/ TakeLease(t)
      PROVE  LedgerStep
  BY <1>2, FreeIsLedgerStep
<1>3. CASE GateStep BY <1>3, FreeIsLedgerStep
<1>4. CASE UNCHANGED transportVars /\ (AttachNext \/ UNCHANGED vars)
  BY <1>4, FreeIsLedgerStep
<1>5. UNCHANGED vars => UNCHANGED transportVars BY DEF vars
<1> QED BY <1>1, <1>2, <1>3, <1>4, <1>5 DEF Next, CallerStep

\* The driver implements the ledger: whatever calls are made from however many
\* tasks, and however their transfers end, what is on the wire, the doubt about the
\* label, the quarantine, the fault and the open chain change only as promised.
THEOREM DriverKeepsLedger == Spec => KeepsLedger
<1>1. Init => Ledger!Init
  BY CallersAssumption DEF Init, AttachInit, Ledger!Init, Work, WorkOf, StatusPcs
<1>2. Init => SettleInv BY SettleInit
<1>3. IInv /\ SettleInv /\ [Next]_vars => SettleInv' BY SettleKeeps
<1>4. IInv /\ SettleInv /\ [Next]_vars => [Ledger!Next]_(Ledger!ledgerVars)
  BY NextIsLedgerStep DEF LedgerStep, Ledger!ledgerVars
<1>5. Spec => []IInv BY Invariance
<1>6. QED BY <1>1, <1>2, <1>3, <1>4, <1>5, PTL DEF Spec, KeepsLedger, Ledger!Spec

-----------------------------------------------------------------------------
(* What the ledger alone promises.                                         *)

\* A label in doubt is still being printed or behind the quarantine, and an
\* ordinary status command reaches only a printer that owes nothing.
LedgerSafe == Ledger!TypeOK /\ Ledger!DoubtIsShut /\ Ledger!AskedOnlyWhenSettled

\* The promise is enough: from it alone, whatever keeps it, no label in doubt is
\* ever outside the quarantine once its print is over, and none is ever asked.
THEOREM PromiseIsSafe == Ledger!Spec => []LedgerSafe
<1> USE DEF LedgerSafe, Ledger!TypeOK, Ledger!DoubtIsShut, Ledger!AskedOnlyWhenSettled
<1>1. Ledger!Init => LedgerSafe BY DEF Ledger!Init
<1>2. ASSUME LedgerSafe, Ledger!Next PROVE LedgerSafe'
  <2>1. CASE Ledger!Begin
    BY <1>2, <2>1
    DEF Ledger!Begin, Ledger!Ask, Ledger!Inspect, Ledger!BeginRaw, Ledger!BeginPrint
  <2>2. CASE Ledger!EndStatus
    <3>1. faulted' \in BOOLEAN BY <1>2, <2>2 DEF Ledger!EndStatus
    <3>2. Work' = "none" /\ UNCHANGED <<unsettled, quarantined, chainPending>>
          /\ Work \in {"asking", "inspecting"}
      BY <2>2 DEF Ledger!EndStatus
    <3>3. QED BY <1>2, <3>1, <3>2
  <2>3. CASE Ledger!Send \/ Ledger!Latch \/ Ledger!Confirm \/ Ledger!Abandon
    BY <1>2, <2>3 DEF Ledger!Send, Ledger!Latch, Ledger!Confirm, Ledger!Abandon
  <2>4. CASE Ledger!BreakChain
    <3>1. quarantined' \in BOOLEAN /\ chainPending' \in BOOLEAN
      BY <1>2, <2>4 DEF Ledger!BreakChain
    <3>2. quarantined => quarantined' BY <2>4 DEF Ledger!BreakChain
    <3>3. Work' = "none" /\ Work = "none" /\ UNCHANGED <<unsettled, faulted>>
      BY <2>4 DEF Ledger!BreakChain
    <3>4. QED BY <1>2, <3>1, <3>2, <3>3
  <2>5. CASE Ledger!Clear BY <1>2, <2>5 DEF Ledger!Clear
  <2>6. CASE Ledger!EndRaw
    <3>1. quarantined' \in BOOLEAN /\ faulted' \in BOOLEAN
      BY <1>2, <2>6 DEF Ledger!EndRaw
    <3>2. quarantined => quarantined' BY <2>6 DEF Ledger!EndRaw
    <3>3. Work' = "none" /\ Work = "raw" /\ UNCHANGED <<unsettled, chainPending>>
      BY <2>6 DEF Ledger!EndRaw
    <3>4. QED BY <1>2, <3>1, <3>2, <3>3
  <2>7. CASE Ledger!Withdraw BY <1>2, <2>7 DEF Ledger!Withdraw
  <2>8. QED BY <1>2, <2>1, <2>2, <2>3, <2>4, <2>5, <2>6, <2>7 DEF Ledger!Next
<1>3. LedgerSafe /\ UNCHANGED Ledger!ledgerVars => LedgerSafe'
  BY DEF Ledger!ledgerVars
<1>4. QED BY <1>1, <1>2, <1>3, PTL DEF Ledger!Spec

\* So the driver keeps what the ledger promises.
THEOREM DriverIsSafe == Spec => []LedgerSafe
BY DriverKeepsLedger, PromiseIsSafe DEF KeepsLedger
=============================================================================
