-------------------------- MODULE PtouchStatusStream --------------------------
(***************************************************************************)
(* What the driver reads from the printer's IN endpoint: status_txn_locked *)
(* and wait_for_print_completion_locked of src/ptouch_usb.c taking frames  *)
(* off one queue, and the completion tracker of src/ptouch_completion.c    *)
(* deciding from them whether the label just sent is done.  One printer,    *)
(* attached throughout; the lease makes the calls follow one another, so    *)
(* one call runs at a time.                                                 *)
(*                                                                         *)
(* The printer is outside src/.  As the comment at ptouch_usb.c:914 says,   *)
(* it queues its notifications and its replies in the order in which they   *)
(* arise; it answers a request when it is not printing.  A frame carries,   *)
(* as history, the request it answers or the label it is about.             *)
(***************************************************************************)
EXTENDS Naturals, Sequences

CONSTANTS
  Strategies,    \* completion strategies of the profiles: "strict", "jobStatus"
  FrameLimit,    \* frames a status transaction reads (16 in the code)
  InvalidLimit,  \* invalid frames a completion wait forgives, plus one (4)
  MaxRequests,   \* bound: status requests sent
  MaxLabels,     \* bound: labels sent
  MaxNotices,    \* bound: unasked frames that are not about a label
  MaxUnread      \* bound: replies left unread by transactions that gave up

ASSUME StrategyAssumption == Strategies \subseteq {"strict", "jobStatus"}
ASSUME LimitAssumption ==
  /\ FrameLimit \in Nat \ {0} /\ InvalidLimit \in Nat \ {0}
  /\ MaxRequests \in Nat /\ MaxLabels \in Nat /\ MaxNotices \in Nat /\ MaxUnread \in Nat

VARIABLES
  (* the printer *)
  inPipe,       \* frames waiting at the IN endpoint
  asked,        \* status requests it was sent
  answered,     \* those it has answered
  todo,         \* labels it received and has not finished
  stage,        \* how far the first of them is
  notices,      \* unasked frames it has sent
  (* the driver *)
  call,         \* the call that runs: status, inspect, print, or none
  dpc,          \* where it is
  frames,       \* frames_seen, and invalid_frames of a completion wait
  strategy,     \* completion_strategy of the printer's profile
  tracker,      \* ptouch_completion_tracker_t
  label,        \* the label sent last
  quarantined,  \* s_output_quarantined
  chainPending, \* s_chain_pending
  (* history *)
  taken,        \* requests whose reply ended a transaction
  inspected,    \* an inspection found the printer idle
  printed,      \* labels that came out
  confirmed     \* labels the driver reported complete

printerVars == <<inPipe, asked, answered, todo, stage, notices>>
driverVars == <<call, dpc, frames, tracker, label, quarantined, chainPending>>
historyVars == <<taken, inspected, printed, confirmed>>
vars == <<strategy, printerVars, driverVars, historyVars>>

Frame(k, n) == [kind |-> k, of |-> n]

\* Frames of the printer's own accord: an error frame such as an opened cover,
\* an automatic notification without meaning here, an unparsable frame, and a
\* packet too short to be a frame.
NoticeKinds == {"error", "other", "invalid", "short"}

Unarmed == [armed |-> FALSE, printing |-> FALSE, completed |-> FALSE]

-----------------------------------------------------------------------------
(* The printer.                                                            *)

Queue(f) == inPipe' = Append(inPipe, f)

PrinterReplies ==
  /\ answered < asked /\ todo = <<>>
  /\ answered' = answered + 1
  /\ Queue(Frame("reply", answered'))
  /\ UNCHANGED <<asked, todo, stage, notices, driverVars, historyVars>>

PrinterStarts ==
  /\ todo # <<>> /\ stage = "received"
  /\ stage' = "printing"
  /\ Queue(Frame("printing", Head(todo)))
  /\ UNCHANGED <<asked, answered, todo, notices, driverVars, historyVars>>

PrinterCompletes ==
  /\ stage = "printing"
  /\ stage' = "completed"
  /\ printed' = printed \cup {Head(todo)}
  /\ Queue(Frame("completed", Head(todo)))
  /\ UNCHANGED <<asked, answered, todo, notices, driverVars, taken, inspected, confirmed>>

PrinterReady ==
  /\ stage = "completed"
  /\ stage' = "received" /\ todo' = Tail(todo)
  /\ Queue(Frame("receiving", Head(todo)))
  /\ UNCHANGED <<asked, answered, notices, driverVars, historyVars>>

\* A label fails: the printer reports an error and drops it.
PrinterFails ==
  /\ todo # <<>> /\ stage # "completed"
  /\ stage' = "received" /\ todo' = Tail(todo)
  /\ Queue(Frame("error", Head(todo)))
  /\ UNCHANGED <<asked, answered, notices, driverVars, historyVars>>

PrinterNotices(k) ==
  /\ notices < MaxNotices
  /\ notices' = notices + 1
  /\ Queue(Frame(k, 0))
  /\ UNCHANGED <<asked, answered, todo, stage, driverVars, historyVars>>

PrinterStep ==
  \/ PrinterReplies \/ PrinterStarts \/ PrinterCompletes \/ PrinterReady \/ PrinterFails
  \/ \E k \in NoticeKinds : PrinterNotices(k)

-----------------------------------------------------------------------------
(* ptouch_completion.c.                                                    *)

\* ptouch_status_reports_error, and validity, of what the frames stand for
ReportsError(f) == f.kind = "error"
Valid(f) == f.kind \notin {"invalid", "short"}

\* Mutant: the printing phase alone confirms the label.
ObservationOfAnyStage(tr, f) ==
  IF ~tr.armed \/ ~Valid(f) THEN "waiting"
  ELSE IF ReportsError(f) THEN "error"
  ELSE IF f.kind \in {"receiving", "printing"} THEN "confirmed" ELSE "waiting"

\* ptouch_completion_observe: what it returns, and the tracker it leaves.
Observation(tr, f) ==
  IF ~tr.armed \/ ~Valid(f) THEN "waiting"
  ELSE IF ReportsError(f) THEN "error"
  ELSE IF \/ f.kind = "receiving" /\ tr.printing /\ tr.completed
          \/ f.kind = "completed" /\ strategy = "jobStatus"
       THEN "confirmed" ELSE "waiting"

Observed(tr, f) ==
  IF ~tr.armed \/ f.kind \notin {"printing", "completed"} THEN tr
  ELSE IF f.kind = "printing" THEN [tr EXCEPT !.printing = TRUE, !.completed = FALSE]
  ELSE [tr EXCEPT !.completed = @ \/ (tr.printing /\ strategy = "strict")]

-----------------------------------------------------------------------------
(* Status transactions.                                                    *)

\* A packet may hold two frames (rxlen); what ends on the first drops the second.
DropPacket ==
  \/ inPipe' = Tail(inPipe)
  \/ /\ Len(inPipe) >= 2 /\ inPipe[2].kind # "short"
     /\ inPipe' = Tail(Tail(inPipe))

\* Mutant: the quarantine does not block ordinary transactions.
MayAskQuarantined(c) == IF c = "inspect" THEN quarantined ELSE ~chainPending

\* The gates; a print that continues an open chain has no transaction.
MayAsk(c) == IF c = "inspect" THEN quarantined ELSE ~quarantined /\ ~chainPending

AskStatus(c) ==
  /\ dpc = "idle" /\ MayAsk(c)
  /\ asked < MaxRequests
  /\ asked' = asked + 1
  /\ call' = c /\ dpc' = "reply" /\ frames' = 0
  /\ UNCHANGED <<inPipe, answered, todo, stage, notices, tracker, label, quarantined,
                 chainPending, historyVars>>

\* A reply, or any frame that reports an error, ends the transaction.
EndsTxn(f) == f.kind = "reply" \/ ReportsError(f)

\* The call after its transaction: a print goes on, the others return.
AfterTxn(ok) ==
  /\ dpc' = IF call = "print" /\ ok THEN "send" ELSE "idle"
  /\ call' = IF call = "print" /\ ok THEN "print" ELSE "none"
  /\ inspected' = (inspected \/ (call = "inspect" /\ ok))
  /\ frames' = 0

\* asked - taken replies will be left over if this transaction ends without one.
MayGiveUp == asked - taken <= MaxUnread

TakeReply ==
  /\ dpc = "reply" /\ inPipe # <<>> /\ EndsTxn(Head(inPipe))
  /\ LET f == Head(inPipe) IN
       /\ ReportsError(f) => MayGiveUp
       /\ taken' = IF f.kind = "reply" THEN taken + 1 ELSE taken
       /\ AfterTxn(f.kind = "reply")
  /\ DropPacket
  /\ UNCHANGED <<asked, answered, todo, stage, notices, tracker, label, quarantined,
                 chainPending, printed, confirmed>>

DrainFrame ==
  /\ dpc = "reply" /\ inPipe # <<>> /\ ~EndsTxn(Head(inPipe))
  /\ frames + 1 < FrameLimit
  /\ inPipe' = Tail(inPipe)
  /\ frames' = frames + 1
  /\ UNCHANGED <<asked, answered, todo, stage, notices, call, dpc, tracker, label,
                 quarantined, chainPending, historyVars>>

\* "status reply not received": the limit is reached on a frame that is not it.
FrameLimitReached ==
  /\ dpc = "reply" /\ inPipe # <<>> /\ ~EndsTxn(Head(inPipe))
  /\ frames + 1 >= FrameLimit /\ MayGiveUp
  /\ inPipe' = Tail(inPipe)
  /\ AfterTxn(FALSE)
  /\ UNCHANGED <<asked, answered, todo, stage, notices, tracker, label, quarantined,
                 chainPending, taken, printed, confirmed>>

\* "IN transfer failed (no reply)"
ReplyTimeout ==
  /\ dpc = "reply" /\ inPipe = <<>> /\ MayGiveUp
  /\ AfterTxn(FALSE)
  /\ UNCHANGED <<printerVars, tracker, label, quarantined, chainPending, taken,
                 printed, confirmed>>

-----------------------------------------------------------------------------
(* Printing.                                                               *)

\* A continuation goes straight to its raster.
ContinueChain ==
  /\ dpc = "idle" /\ chainPending /\ ~quarantined /\ label < MaxLabels
  /\ call' = "print" /\ dpc' = "send"
  /\ UNCHANGED <<printerVars, frames, tracker, label, quarantined, chainPending, historyVars>>

\* The tracker is armed before the first byte; the raster is accepted whole.
SendLabel ==
  /\ dpc = "send" /\ label < MaxLabels
  /\ label' = label + 1
  /\ tracker' = [Unarmed EXCEPT !.armed = TRUE]
  /\ todo' = Append(todo, label')
  /\ dpc' = "await"
  /\ UNCHANGED <<inPipe, asked, answered, stage, notices, call, frames, quarantined,
                 chainPending, historyVars>>

\* The end of a print that did not confirm its label.
Abandon ==
  /\ quarantined' = TRUE /\ chainPending' = FALSE
  /\ inspected' = FALSE
  /\ call' = "none" /\ dpc' = "idle" /\ frames' = 0

\* The raster transfer fails or times out; the printer may have all of it.
SendFails(got) ==
  /\ dpc = "send" /\ label < MaxLabels
  /\ label' = label + 1
  /\ todo' = IF got THEN Append(todo, label') ELSE todo
  /\ Abandon
  /\ UNCHANGED <<inPipe, asked, answered, stage, notices, tracker, taken, printed,
                 confirmed>>

\* No byte was submitted: only a continuation is ambiguous then.
SendRejected ==
  /\ dpc = "send"
  /\ \/ chainPending /\ Abandon
     \/ /\ ~chainPending
        /\ call' = "none" /\ dpc' = "idle" /\ UNCHANGED <<quarantined, chainPending, inspected, frames>>
  /\ UNCHANGED <<printerVars, tracker, label, taken, printed, confirmed>>

\* Mutant: invalid frames are forgiven without limit.
AwaitFrameForgiving ==
  /\ dpc = "await" /\ inPipe # <<>>
  /\ LET f == Head(inPipe) IN
       /\ Observation(tracker, f) = "waiting"
       /\ frames' = IF f.kind = "invalid" THEN frames + 1 ELSE frames
       /\ tracker' = Observed(tracker, f)
  /\ inPipe' = Tail(inPipe)
  /\ UNCHANGED <<asked, answered, todo, stage, notices, call, dpc, label, quarantined,
                 chainPending, historyVars>>

\* A packet of the completion wait that does not end it.
AwaitFrame ==
  /\ dpc = "await" /\ inPipe # <<>>
  /\ LET f == Head(inPipe) IN
       /\ Observation(tracker, f) = "waiting"
       /\ frames' = IF f.kind = "invalid" THEN frames + 1 ELSE frames
       /\ tracker' = Observed(tracker, f)
  /\ frames' < InvalidLimit
  /\ inPipe' = Tail(inPipe)
  /\ UNCHANGED <<asked, answered, todo, stage, notices, call, dpc, label, quarantined,
                 chainPending, historyVars>>

\* The tracker confirms; the job may leave its chain open.
AwaitConfirmed(chain) ==
  /\ dpc = "await" /\ inPipe # <<>> /\ Observation(tracker, Head(inPipe)) = "confirmed"
  /\ DropPacket
  /\ tracker' = Observed(tracker, Head(inPipe))
  /\ confirmed' = confirmed \cup {label}
  /\ chainPending' = chain
  /\ call' = "none" /\ dpc' = "idle" /\ frames' = 0
  /\ UNCHANGED <<asked, answered, todo, stage, notices, label, quarantined, taken,
                 inspected, printed>>

\* An error frame, or the last forgivable invalid frame.
AwaitFails ==
  /\ dpc = "await" /\ inPipe # <<>>
  /\ \/ Observation(tracker, Head(inPipe)) = "error"
     \/ Head(inPipe).kind = "invalid" /\ frames + 1 >= InvalidLimit
  /\ DropPacket
  /\ Abandon
  /\ UNCHANGED <<asked, answered, todo, stage, notices, tracker, label, taken,
                 printed, confirmed>>

\* The deadline passes, whatever the printer is doing.
AwaitTimeout ==
  /\ dpc = "await"
  /\ Abandon
  /\ UNCHANGED <<printerVars, tracker, label, taken, printed, confirmed>>

\* ptouch_usb_clear_output_quarantine_after_inspection, as its contract says: the
\* operator has looked, and nothing is being printed any more.
ClearQuarantine ==
  /\ dpc = "idle" /\ quarantined /\ inspected /\ todo = <<>>
  /\ quarantined' = FALSE
  /\ UNCHANGED <<printerVars, call, dpc, frames, tracker, label, chainPending, historyVars>>

DriverStep ==
  \/ \E c \in {"status", "inspect", "print"} : AskStatus(c)
  \/ TakeReply \/ DrainFrame \/ FrameLimitReached \/ ReplyTimeout
  \/ ContinueChain \/ SendLabel \/ \E got \in BOOLEAN : SendFails(got)
  \/ SendRejected
  \/ AwaitFrame \/ \E chain \in BOOLEAN : AwaitConfirmed(chain)
  \/ AwaitFails \/ AwaitTimeout \/ ClearQuarantine

-----------------------------------------------------------------------------

Init ==
  /\ inPipe = <<>> /\ asked = 0 /\ answered = 0 /\ todo = <<>> /\ stage = "received" /\ notices = 0
  /\ call = "none" /\ dpc = "idle" /\ frames = 0 /\ tracker = Unarmed /\ label = 0
  /\ strategy \in Strategies
  /\ quarantined = FALSE /\ chainPending = FALSE
  /\ taken = 0 /\ inspected = FALSE /\ printed = {} /\ confirmed = {}

\* The printer keeps its model, and so its strategy.
Next == (PrinterStep \/ DriverStep) /\ UNCHANGED strategy

Spec == Init /\ [][Next]_vars

-----------------------------------------------------------------------------
(* Properties.                                                             *)

FrameKinds == NoticeKinds \cup {"none", "reply", "printing", "completed", "receiving"}
Frames == [kind : FrameKinds, of : Nat]

\* Every variable keeps its type, and a call gives up within its frame limits.
TypeOK ==
  /\ inPipe \in Seq(Frames) /\ asked \in 0..MaxRequests /\ answered \in 0..asked
  /\ todo \in Seq(1..MaxLabels) /\ stage \in {"received", "printing", "completed"}
  /\ notices \in 0..MaxNotices
  /\ call \in {"none", "status", "inspect", "print"} /\ dpc \in {"idle", "reply", "send", "await"}
  /\ frames \in 0..(IF dpc = "await" THEN InvalidLimit - 1 ELSE FrameLimit - 1)
  /\ tracker \in [armed : BOOLEAN, printing : BOOLEAN, completed : BOOLEAN]
  /\ strategy \in Strategies /\ label \in 0..MaxLabels
  /\ quarantined \in BOOLEAN /\ chainPending \in BOOLEAN
  /\ taken \in 0..answered /\ inspected \in BOOLEAN
  /\ printed \subseteq 1..MaxLabels /\ confirmed \subseteq 1..MaxLabels

\* A label is reported complete only after it came out of the printer: no frame
\* of an earlier label, and no reply or notice, acknowledges it.
ConfirmedLabelsPrinted == confirmed \subseteq printed

\* Brother forbids status commands during printing (ptouch_usb.h:22): no
\* ordinary transaction starts while the printer holds an unprinted label.
NoStatusDuringPrinting ==
  [][asked' # asked /\ call' # "inspect"
       => \A i \in 1..Len(todo) : todo[i] \in printed]_vars

-----------------------------------------------------------------------------
(* The inductive invariant.  The frames that can acknowledge a label are    *)
(* its phases; what counts is where they stand among the replies.           *)

Phase(f) == f.kind \in {"printing", "completed"}
NoPhaseWaits == \A i \in 1..Len(inPipe) : ~Phase(inPipe[i])

\* The printer has no phase of any label left to send.
TodoSettled == \A i \in 1..Len(todo) : i = 1 /\ stage = "completed"

\* Nothing that came before request n can be mistaken for a later label: every
\* phase waits ahead of the replies to n and later requests.
Barrier(n) ==
  /\ taken >= n => NoPhaseWaits
  /\ answered >= n => TodoSettled
  /\ \A i, j \in 1..Len(inPipe) :
       i < j /\ inPipe[i].kind = "reply" /\ inPipe[i].of >= n => ~Phase(inPipe[j])

\* Replies wait in the order of their requests.
RepliesInOrder ==
  /\ \A i \in 1..Len(inPipe) :
       inPipe[i].kind = "reply" => inPipe[i].of > taken /\ inPipe[i].of <= answered
  /\ \A i, j \in 1..Len(inPipe) :
       i < j /\ inPipe[i].kind = "reply" /\ inPipe[j].kind = "reply"
         => inPipe[i].of < inPipe[j].of

\* What the types rest on: a reply read was one sent, and a call that is not
\* counting frames starts from none.
TypeInv ==
  /\ TypeOK /\ RepliesInOrder
  /\ todo = <<>> => stage = "received"
  /\ dpc \in {"idle", "send"} => frames = 0
  /\ dpc = "await" => label >= 1

LabelsKnown ==
  /\ \A i \in 1..Len(inPipe) : inPipe[i].kind = "completed" => inPipe[i].of \in printed
  /\ \A i \in 1..Len(todo) : todo[i] <= label
  /\ \A i, j \in 1..Len(todo) : todo[i] = todo[j] => i = j
  /\ todo = <<>> => stage = "received"
  /\ stage = "completed" => todo[1] \in printed

\* Where a call may be, and how many replies it may leave behind.
CallsInv ==
  /\ asked - taken <= (IF dpc = "reply" THEN MaxUnread + 1 ELSE MaxUnread)
  /\ dpc \in {"idle", "send"} => frames = 0
  /\ dpc = "await" => label >= 1 /\ tracker.armed
  /\ dpc = "reply" => ~chainPending /\ (call = "inspect" <=> quarantined) /\ call # "none"
  /\ dpc \in {"send", "await"} => ~quarantined /\ call = "print"
  /\ quarantined => ~chainPending

\* Between two labels: the printer is done with the last one, and its phases are
\* read, or stand before a reply that the next print has to read first.
SettledInv ==
  /\ ~quarantined /\ dpc # "await" => TodoSettled
  /\ dpc = "send" \/ (dpc = "idle" /\ chainPending) => NoPhaseWaits
  /\ dpc = "idle" /\ (quarantined => inspected) => Barrier(asked)
  /\ dpc = "reply" => Barrier(IF call = "inspect" THEN asked ELSE asked - 1)

\* The printer has sent this phase of the label, if it ever will.
Started(l) == \A i \in 1..Len(todo) : todo[i] = l => i = 1 /\ stage # "received"
Ended(l) == \A i \in 1..Len(todo) : todo[i] = l => i = 1 /\ stage = "completed"

\* During a completion wait, every phase that waits or will come is the awaited
\* label's, in order and once; and the tracker has seen those that do not wait.
AwaitInv ==
  dpc = "await" =>
    /\ \A i \in 1..Len(todo) : todo[i] = label \/ (i = 1 /\ stage = "completed")
    /\ \A i \in 1..Len(inPipe) : Phase(inPipe[i]) =>
         /\ inPipe[i].of = label
         /\ inPipe[i].kind = "printing" => Started(label) /\ ~tracker.printing
         /\ inPipe[i].kind = "completed" => Ended(label)
         /\ ~tracker.completed
    /\ \A i, j \in 1..Len(inPipe) : i < j /\ Phase(inPipe[i]) /\ Phase(inPipe[j])
         => inPipe[i].kind = "printing" /\ inPipe[j].kind = "completed"
    /\ tracker.printing => Started(label)
    /\ tracker.completed => Ended(label) /\ label \in printed

StreamInv ==
  /\ RepliesInOrder /\ LabelsKnown /\ CallsInv /\ SettledInv /\ AwaitInv
  /\ ConfirmedLabelsPrinted
=============================================================================
