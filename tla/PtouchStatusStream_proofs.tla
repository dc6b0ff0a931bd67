----------------------- MODULE PtouchStatusStream_proofs -----------------------
(***************************************************************************)
(* Types, the status discipline and the acknowledgement of labels on the    *)
(* IN endpoint.  StreamInv is inductive while at most one reply is ever     *)
(* left unread; the argument is about where the phases of a label stand     *)
(* among the replies that wait with them.                                   *)
(***************************************************************************)
EXTENDS PtouchStatusStream, Integers, TLAPS

USE StrategyAssumption, LimitAssumption

-----------------------------------------------------------------------------
(* One more frame, one frame less.                                         *)

\* Well-formed frames.
LEMMA FrameTyped ==
  ASSUME NEW k \in FrameKinds, NEW n \in Nat
  PROVE  Frame(k, n) \in Frames /\ Frame(k, n).kind = k /\ Frame(k, n).of = n
BY DEF Frame, Frames

\* What waits in the queue are frames.
LEMMA FramesWait ==
  ASSUME TypeOK
  PROVE  \A i \in 1..Len(inPipe) : inPipe[i] \in Frames /\ inPipe[i].of \in Nat
<1>1. inPipe \in Seq(Frames) BY DEF TypeOK
<1>2. \A f \in Frames : f.of \in Nat BY DEF Frames
<1>3. QED BY <1>1, <1>2

\* The printer's frame is the last one.
LEMMA Queued ==
  ASSUME TypeOK, NEW f \in Frames, Queue(f)
  PROVE  /\ inPipe' \in Seq(Frames) /\ Len(inPipe) \in Nat /\ Len(inPipe') = Len(inPipe) + 1
         /\ inPipe'[Len(inPipe) + 1] = f
         /\ \A i \in 1..Len(inPipe) : inPipe'[i] = inPipe[i]
         /\ \A i \in 1..Len(inPipe') : i \in 1..Len(inPipe) \/ i = Len(inPipe) + 1
<1>1. inPipe \in Seq(Frames) /\ inPipe' = Append(inPipe, f) BY DEF TypeOK, Queue
<1>2. /\ inPipe' \in Seq(Frames) /\ Len(inPipe) \in Nat /\ Len(inPipe') = Len(inPipe) + 1
      /\ inPipe'[Len(inPipe) + 1] = f
      /\ \A i \in 1..Len(inPipe) : inPipe'[i] = inPipe[i]
  BY <1>1
<1>3. QED BY <1>2

\* The driver's is the first.
LEMMA Taken ==
  ASSUME TypeOK, inPipe # <<>>, inPipe' = Tail(inPipe)
  PROVE  /\ inPipe' \in Seq(Frames) /\ Len(inPipe) \in Nat /\ Len(inPipe') = Len(inPipe) - 1
         /\ 1 \in 1..Len(inPipe) /\ Head(inPipe) = inPipe[1] /\ inPipe[1] \in Frames
         /\ \A i \in 1..Len(inPipe') : /\ i + 1 \in 1..Len(inPipe) /\ 1 < i + 1
                                       /\ inPipe'[i] = inPipe[i + 1]
<1>1. inPipe \in Seq(Frames) BY DEF TypeOK
<1>2. /\ inPipe' \in Seq(Frames) /\ Len(inPipe) \in Nat /\ Len(inPipe') = Len(inPipe) - 1
      /\ Len(inPipe) >= 1 /\ Head(inPipe) = inPipe[1]
      /\ \A i \in 1..Len(inPipe') : inPipe'[i] = inPipe[i + 1]
  BY <1>1
<1>3. 1 \in 1..Len(inPipe) BY <1>2
<1>4. QED BY <1>1, <1>2, <1>3

\* A packet takes one frame or two; those behind it move up by as many.
LEMMA PacketTaken ==
  ASSUME TypeOK, inPipe # <<>>, DropPacket
  PROVE  /\ inPipe' \in Seq(Frames) /\ Len(inPipe) \in Nat
         /\ 1 \in 1..Len(inPipe) /\ Head(inPipe) = inPipe[1] /\ inPipe[1] \in Frames
         /\ \E k \in {1, 2} :
              \A i \in 1..Len(inPipe') : /\ i + k \in 1..Len(inPipe) /\ 1 < i + k
                                        /\ inPipe'[i] = inPipe[i + k]
<1>1. inPipe \in Seq(Frames) BY DEF TypeOK
<1>2. CASE inPipe' = Tail(inPipe) BY <1>2, Taken
<1>3. CASE Len(inPipe) >= 2 /\ inPipe' = Tail(Tail(inPipe))
  <2>1. /\ Len(inPipe) \in Nat /\ Head(inPipe) = inPipe[1] /\ 1 \in 1..Len(inPipe)
        /\ inPipe[1] \in Frames
    BY <1>1, <1>3
  <2> DEFINE q == Tail(inPipe)
  <2>2. /\ q \in Seq(Frames) /\ Len(q) = Len(inPipe) - 1
        /\ \A i \in 1..Len(q) : q[i] = inPipe[i + 1]
    BY <1>1, <1>3
  <2> HIDE DEF q
  <2>3. /\ Tail(q) \in Seq(Frames) /\ Len(Tail(q)) = Len(q) - 1
        /\ \A i \in 1..Len(Tail(q)) : Tail(q)[i] = q[i + 1]
    BY <1>3, <2>1, <2>2
  <2>4. inPipe' = Tail(q) BY <1>3 DEF q
  <2>5. \A i \in 1..Len(inPipe') : /\ i + 2 \in 1..Len(inPipe) /\ 1 < i + 2
                                   /\ inPipe'[i] = inPipe[i + 2]
    <3>1. TAKE i \in 1..Len(inPipe')
    <3>2. i + 1 \in 1..Len(q) /\ inPipe'[i] = q[i + 1] BY <2>1, <2>2, <2>3, <2>4
    <3>3. q[i + 1] = inPipe[(i + 1) + 1] BY <2>2, <3>2
    <3>4. i \in Nat /\ (i + 1) + 1 = i + 2 BY <2>1, <2>2, <2>3, <2>4
    <3>5. i + 2 \in 1..Len(inPipe) /\ 1 < i + 2 BY <2>1, <2>2, <3>2, <3>4
    <3>6. QED BY <3>2, <3>3, <3>4, <3>5
  <2>6. QED BY <2>1, <2>3, <2>4, <2>5
<1>4. QED BY <1>2, <1>3 DEF DropPacket

\* A label joins the printer's list at the end ...
LEMMA TodoAppended ==
  ASSUME TypeOK, label < MaxLabels, label' = label + 1, todo' = Append(todo, label')
  PROVE  /\ todo' \in Seq(1..MaxLabels) /\ Len(todo) \in Nat /\ Len(todo') = Len(todo) + 1
         /\ todo'[Len(todo) + 1] = label' /\ label' \in 1..MaxLabels
         /\ \A i \in 1..Len(todo) : todo'[i] = todo[i]
         /\ \A i \in 1..Len(todo') : i \in 1..Len(todo) \/ i = Len(todo) + 1
<1>1. label' \in 1..MaxLabels /\ todo \in Seq(1..MaxLabels) BY DEF TypeOK
<1>2. /\ todo' \in Seq(1..MaxLabels) /\ Len(todo) \in Nat /\ Len(todo') = Len(todo) + 1
      /\ todo'[Len(todo) + 1] = label'
      /\ \A i \in 1..Len(todo) : todo'[i] = todo[i]
  BY <1>1
<1>3. QED BY <1>1, <1>2

\* ... and leaves it from the front.
LEMMA TodoHead ==
  ASSUME TypeOK, todo # <<>>
  PROVE  /\ Len(todo) \in Nat /\ 1 \in 1..Len(todo) /\ Head(todo) = todo[1]
         /\ Head(todo) \in 1..MaxLabels
<1>1. todo \in Seq(1..MaxLabels) BY DEF TypeOK
<1>2. Len(todo) \in Nat /\ Len(todo) >= 1 /\ Head(todo) = todo[1] BY <1>1
<1>3. 1 \in 1..Len(todo) BY <1>2
<1>4. QED BY <1>1, <1>2, <1>3

\* The labels behind the first move up and stay distinct.
LEMMA TodoTail ==
  ASSUME TypeOK, todo # <<>>, todo' = Tail(todo)
  PROVE  /\ todo' \in Seq(1..MaxLabels) /\ Len(todo') = Len(todo) - 1 /\ Len(todo) \in Nat
         /\ \A i \in 1..Len(todo') : /\ i + 1 \in 1..Len(todo) /\ i + 1 # 1
                                     /\ todo'[i] = todo[i + 1]
<1>1. todo \in Seq(1..MaxLabels) BY DEF TypeOK
<1>2. /\ todo' \in Seq(1..MaxLabels) /\ Len(todo') = Len(todo) - 1 /\ Len(todo) \in Nat
      /\ \A i \in 1..Len(todo') : todo'[i] = todo[i + 1]
  BY <1>1
<1>3. QED BY <1>2

-----------------------------------------------------------------------------
(* Replies.                                                                *)

\* A new reply answers the next request.
LEMMA RepliesQueued ==
  ASSUME TypeOK, RepliesInOrder, NEW f \in Frames, Queue(f), taken' = taken,
         \/ f.kind = "reply" /\ f.of = answered + 1 /\ answered' = answered + 1
         \/ f.kind # "reply" /\ answered' = answered
  PROVE  RepliesInOrder'
<1>1. taken \in Nat /\ answered \in Nat /\ taken <= answered BY DEF TypeOK
<1>2. \A i \in 1..Len(inPipe) : inPipe[i].of \in Nat BY FramesWait
<1>3. ASSUME NEW i \in 1..Len(inPipe'), inPipe'[i].kind = "reply"
      PROVE  inPipe'[i].of > taken' /\ inPipe'[i].of <= answered'
  BY <1>1, <1>2, <1>3, Queued DEF RepliesInOrder
<1>4. ASSUME NEW i \in 1..Len(inPipe'), NEW j \in 1..Len(inPipe'), i < j,
             inPipe'[i].kind = "reply", inPipe'[j].kind = "reply"
      PROVE  inPipe'[i].of < inPipe'[j].of
  <2>1. i \in 1..Len(inPipe) BY <1>4, Queued
  <2>2. CASE j \in 1..Len(inPipe) BY <1>4, <2>1, <2>2, Queued DEF RepliesInOrder
  <2>3. CASE j = Len(inPipe) + 1
    <3>1. inPipe'[j] = f /\ inPipe'[i] = inPipe[i] BY <2>1, <2>3, Queued
    <3>2. f.of = answered + 1 /\ inPipe[i].of <= answered
      BY <1>4, <2>1, <3>1 DEF RepliesInOrder
    <3>3. QED BY <1>1, <1>2, <2>1, <3>1, <3>2
  <2>4. QED BY <2>2, <2>3, Queued
<1>5. QED BY <1>3, <1>4 DEF RepliesInOrder

\* Reading one counts it as taken; those behind it answer later requests.
LEMMA RepliesTaken ==
  ASSUME TypeOK, RepliesInOrder, inPipe # <<>>, DropPacket, answered' = answered,
         taken' = taken \/ (Head(inPipe).kind = "reply" /\ taken' = taken + 1)
  PROVE  RepliesInOrder' /\ taken' \in 0..answered /\ taken' >= taken
<1>1. taken \in Nat /\ answered \in Nat /\ taken <= answered BY DEF TypeOK
<1>2. \A i \in 1..Len(inPipe) : inPipe[i].of \in Nat BY FramesWait
<1>3. taken' \in 0..answered /\ taken' >= taken
  BY <1>1, <1>2, PacketTaken DEF RepliesInOrder
<1> PICK k \in {1, 2} :
       \A i \in 1..Len(inPipe') : /\ i + k \in 1..Len(inPipe) /\ 1 < i + k
                                 /\ inPipe'[i] = inPipe[i + k]
  BY PacketTaken
<1> Len(inPipe') \in Nat BY PacketTaken
<1>4. ASSUME NEW i \in 1..Len(inPipe'), inPipe'[i].kind = "reply"
      PROVE  inPipe'[i].of > taken' /\ inPipe'[i].of <= answered'
  <2>1. i + k \in 1..Len(inPipe) /\ 1 < i + k /\ inPipe'[i] = inPipe[i + k] OBVIOUS
  <2>2. inPipe[i + k].of > taken /\ inPipe[i + k].of <= answered
    BY <1>4, <2>1 DEF RepliesInOrder
  <2>3. CASE Head(inPipe).kind = "reply"
    <3>1. 1 \in 1..Len(inPipe) /\ Head(inPipe) = inPipe[1] BY PacketTaken
    <3>2. inPipe[1].of > taken BY <2>3, <3>1 DEF RepliesInOrder
    <3>3. inPipe[1].of < inPipe[i + k].of BY <1>4, <2>1, <2>3, <3>1 DEF RepliesInOrder
    <3>4. QED BY <1>1, <1>2, <2>1, <2>2, <2>3, <3>1, <3>2, <3>3
  <2>4. QED BY <2>1, <2>2, <2>3
<1>5. ASSUME NEW i \in 1..Len(inPipe'), NEW j \in 1..Len(inPipe'), i < j,
             inPipe'[i].kind = "reply", inPipe'[j].kind = "reply"
      PROVE  inPipe'[i].of < inPipe'[j].of
  <2>1. /\ i + k \in 1..Len(inPipe) /\ inPipe'[i] = inPipe[i + k]
        /\ j + k \in 1..Len(inPipe) /\ inPipe'[j] = inPipe[j + k] /\ i + k < j + k
    BY <1>5
  <2>2. QED BY <1>5, <2>1 DEF RepliesInOrder
<1>6. QED BY <1>3, <1>4, <1>5 DEF RepliesInOrder

-----------------------------------------------------------------------------
(* Barriers.                                                               *)

\* A request that is not answered yet is a barrier, and one behind a barrier is one.
LEMMA BarrierAhead ==
  ASSUME TypeOK, RepliesInOrder, NEW n \in Nat, n > answered
  PROVE  Barrier(n)
<1>1. taken \in Nat /\ answered \in Nat /\ taken <= answered BY DEF TypeOK
<1>2. \A i \in 1..Len(inPipe) : inPipe[i].of \in Nat BY FramesWait
<1>3. QED BY <1>1, <1>2 DEF RepliesInOrder, Barrier

\* A barrier stands also for every later request.
LEMMA BarrierLater ==
  ASSUME TypeOK, NEW m \in Int, NEW n \in Int, m <= n, Barrier(m)
  PROVE  Barrier(n)
<1>1. \A i \in 1..Len(inPipe) : inPipe[i].of \in Nat BY FramesWait
<1>2. taken \in Nat /\ answered \in Nat BY DEF TypeOK
<1>3. QED BY <1>1, <1>2 DEF Barrier

\* With no phase waiting and none to come, every request is a barrier.
LEMMA BarrierOfNothing ==
  ASSUME NoPhaseWaits, TodoSettled, NEW n
  PROVE  Barrier(n)
BY DEF NoPhaseWaits, Barrier

\* The printer keeps a barrier: its phases come before the answers it still owes.
LEMMA BarrierQueued ==
  ASSUME TypeOK, NEW n \in Int, Barrier(n), NEW f \in Frames, Queue(f), taken' = taken,
         answered' >= n => TodoSettled', Phase(f) => answered < n, RepliesInOrder
  PROVE  Barrier(n)'
<1>1. taken \in Nat /\ answered \in Nat /\ taken <= answered BY DEF TypeOK
<1>2. \A i \in 1..Len(inPipe) : inPipe[i].of \in Nat BY FramesWait
<1>3. taken' >= n => NoPhaseWaits'
  BY <1>1, Queued DEF Barrier, NoPhaseWaits
<1>4. ASSUME NEW i \in 1..Len(inPipe'), NEW j \in 1..Len(inPipe'),
             i < j, inPipe'[i].kind = "reply", inPipe'[i].of >= n
      PROVE  ~Phase(inPipe'[j])
  <2>1. i \in 1..Len(inPipe) /\ inPipe'[i] = inPipe[i] BY <1>4, Queued
  <2>2. CASE j \in 1..Len(inPipe) BY <1>4, <2>1, <2>2, Queued DEF Barrier
  <2>3. CASE j = Len(inPipe) + 1
    <3>1. inPipe[i].of <= answered BY <1>4, <2>1 DEF RepliesInOrder
    <3>2. ~(answered < n) BY <1>1, <1>2, <1>4, <2>1, <3>1
    <3>3. QED BY <2>3, <3>2, Queued
  <2>4. QED BY <2>2, <2>3, Queued
<1>5. QED BY <1>3, <1>4 DEF Barrier

\* So does the driver, reading; when it reads the reply, nothing before is left.
LEMMA BarrierTaken ==
  ASSUME TypeOK, RepliesInOrder, NEW n \in Int, Barrier(n), inPipe # <<>>,
         DropPacket, answered' = answered, UNCHANGED <<todo, stage>>,
         taken' = IF Head(inPipe).kind = "reply" THEN taken + 1 ELSE taken
  PROVE  Barrier(n)'
<1>1. taken \in Nat /\ answered \in Nat /\ taken <= answered BY DEF TypeOK
<1>2. \A i \in 1..Len(inPipe) : inPipe[i].of \in Nat BY FramesWait
<1> PICK k \in {1, 2} :
       \A i \in 1..Len(inPipe') : /\ i + k \in 1..Len(inPipe) /\ 1 < i + k
                                 /\ inPipe'[i] = inPipe[i + k]
  BY PacketTaken
<1> Len(inPipe') \in Nat BY PacketTaken
<1>3. ASSUME taken' >= n PROVE NoPhaseWaits'
  <2>1. CASE taken >= n BY <2>1 DEF Barrier, NoPhaseWaits
  <2>2. CASE ~(taken >= n)
    <3>1. Head(inPipe).kind = "reply" /\ n = taken + 1 BY <1>1, <1>3, <2>2
    <3>2. 1 \in 1..Len(inPipe) /\ Head(inPipe) = inPipe[1] BY PacketTaken
    <3>3. inPipe[1].of > taken BY <3>1, <3>2 DEF RepliesInOrder
    <3>4. inPipe[1].of >= n BY <1>1, <1>2, <3>1, <3>2, <3>3
    <3>5. \A j \in 1..Len(inPipe) : 1 < j => ~Phase(inPipe[j])
      BY <3>1, <3>2, <3>4 DEF Barrier
    <3>6. QED BY <3>5 DEF NoPhaseWaits
  <2>3. QED BY <2>1, <2>2
<1>4. answered' >= n => TodoSettled' BY DEF Barrier, TodoSettled
<1>5. ASSUME NEW i \in 1..Len(inPipe'), NEW j \in 1..Len(inPipe'),
             i < j, inPipe'[i].kind = "reply", inPipe'[i].of >= n
      PROVE  ~Phase(inPipe'[j])
  <2>1. /\ i + k \in 1..Len(inPipe) /\ inPipe'[i] = inPipe[i + k]
        /\ j + k \in 1..Len(inPipe) /\ inPipe'[j] = inPipe[j + k] /\ i + k < j + k
    BY <1>5
  <2>2. QED BY <1>5, <2>1 DEF Barrier
<1>6. QED BY <1>3, <1>4, <1>5 DEF Barrier

-----------------------------------------------------------------------------
(* The printer's steps.                                                    *)

\* Whatever the printer sends, the agreement between labels and replies stays, as
\* long as a settled printer sends no phase and stays settled.
LEMMA SettledQueued ==
  ASSUME TypeOK, RepliesInOrder, CallsInv, SettledInv, NEW f \in Frames, Queue(f),
         UNCHANGED <<taken, dpc, call, asked, quarantined, chainPending, inspected>>,
         TodoSettled => TodoSettled', Phase(f) => ~TodoSettled,
         answered' = answered \/ TodoSettled'
  PROVE  SettledInv'
<1>1. asked \in Nat /\ asked - 1 \in Int BY DEF TypeOK
<1>2. ASSUME NEW n \in Int, Barrier(n) PROVE Barrier(n)'
  <2>1. answered \in Nat /\ (answered >= n => TodoSettled) BY <1>2 DEF Barrier, TypeOK
  <2>2. answered' >= n => TodoSettled' BY <2>1
  <2>3. Phase(f) => answered < n BY <2>1
  <2>4. QED BY <1>2, <2>2, <2>3, BarrierQueued
<1>3. NoPhaseWaits /\ ~Phase(f) => NoPhaseWaits' BY Queued DEF NoPhaseWaits
<1>4. ~quarantined' /\ dpc' # "await" => TodoSettled' BY DEF SettledInv
<1>5. dpc' = "send" \/ (dpc' = "idle" /\ chainPending') => NoPhaseWaits'
  BY <1>3 DEF SettledInv, CallsInv
<1>6. \A n : n = asked /\ dpc = "idle" /\ (quarantined => inspected) => Barrier(n)'
  BY <1>1, <1>2 DEF SettledInv
<1>7. \A n : n = (IF call = "inspect" THEN asked ELSE asked - 1) /\ dpc = "reply" => Barrier(n)'
  BY <1>1, <1>2 DEF SettledInv
<1>8. QED BY <1>4, <1>5, <1>6, <1>7 DEF SettledInv, Barrier

\* A frame that is no phase stands in nobody's way.
LEMMA PhasesQueued ==
  ASSUME TypeOK, NEW f \in Frames, Queue(f), ~Phase(f)
  PROVE  \A i \in 1..Len(inPipe') :
           Phase(inPipe'[i]) => i \in 1..Len(inPipe) /\ inPipe'[i] = inPipe[i]
BY Queued

\* An answer: the next in order, sent by a printer with no label left, and no phase.
LEMMA PrinterRepliesKeeps == ASSUME TypeOK, StreamInv, PrinterReplies PROVE StreamInv'
<1> DEFINE f == Frame("reply", answered')
<1>1. /\ answered' = answered + 1 /\ Queue(f) /\ todo = <<>>
      /\ UNCHANGED <<asked, todo, stage, driverVars, historyVars>>
  BY DEF PrinterReplies
<1>2. f \in Frames /\ f.kind = "reply" /\ f.of = answered + 1 /\ ~Phase(f)
  <2>1. "reply" \in FrameKinds /\ answered' \in Nat BY <1>1 DEF FrameKinds, TypeOK
  <2>2. QED BY <1>1, <2>1, FrameTyped DEF Phase
<1>3. RepliesInOrder' BY <1>1, <1>2, RepliesQueued DEF StreamInv, historyVars
<1>4. LabelsKnown'
  BY <1>1, <1>2, PhasesQueued DEF StreamInv, LabelsKnown, Phase, historyVars, driverVars
<1>5. CallsInv' BY <1>1 DEF StreamInv, CallsInv, historyVars, driverVars
<1>6. TodoSettled' /\ TodoSettled BY <1>1 DEF TodoSettled
<1>7. SettledInv'
  BY <1>1, <1>2, <1>6, SettledQueued DEF StreamInv, historyVars, driverVars
<1>8. AwaitInv'
  BY <1>1, <1>2, PhasesQueued DEF StreamInv, AwaitInv, Started, Ended, historyVars, driverVars
<1>9. QED
  BY <1>1, <1>3, <1>4, <1>5, <1>7, <1>8 DEF StreamInv, ConfirmedLabelsPrinted, historyVars

\* A notice is no phase and answers nothing.
LEMMA PrinterNoticesKeeps ==
  ASSUME TypeOK, StreamInv, NEW k \in NoticeKinds, PrinterNotices(k)
  PROVE  StreamInv'
<1> DEFINE f == Frame(k, 0)
<1>1. Queue(f) /\ UNCHANGED <<asked, answered, todo, stage, driverVars, historyVars>>
  BY DEF PrinterNotices
<1>2. f \in Frames /\ f.kind # "reply" /\ ~Phase(f)
  BY FrameTyped DEF FrameKinds, NoticeKinds, Phase
<1>3. RepliesInOrder' BY <1>1, <1>2, RepliesQueued DEF StreamInv, historyVars
<1>4. LabelsKnown'
  BY <1>1, <1>2, PhasesQueued DEF StreamInv, LabelsKnown, Phase, historyVars, driverVars
<1>5. CallsInv' BY <1>1 DEF StreamInv, CallsInv, historyVars, driverVars
<1>6. TodoSettled => TodoSettled' BY <1>1 DEF TodoSettled
<1>7. SettledInv'
  BY <1>1, <1>2, <1>6, SettledQueued DEF StreamInv, historyVars, driverVars
<1>8. AwaitInv'
  BY <1>1, <1>2, PhasesQueued DEF StreamInv, AwaitInv, Started, Ended, historyVars, driverVars
<1>9. QED
  BY <1>1, <1>3, <1>4, <1>5, <1>7, <1>8 DEF StreamInv, ConfirmedLabelsPrinted, historyVars

\* A label that leaves the printer, finished or failed, has no phase to come.
LEMMA LabelLeaves ==
  ASSUME TypeOK, StreamInv, todo # <<>>, todo' = Tail(todo), stage' = "received",
         NEW f \in Frames, Queue(f), f.kind \in {"receiving", "error"},
         UNCHANGED <<asked, answered, driverVars, historyVars>>
  PROVE  StreamInv'
<1>1. f.kind # "reply" /\ f.kind # "completed" /\ ~Phase(f) BY DEF Phase
<1>2. RepliesInOrder' BY <1>1, RepliesQueued DEF StreamInv, historyVars
<1>3. UNCHANGED <<label, printed, tracker, dpc>> BY DEF driverVars, historyVars
<1>4. LabelsKnown'
  <2>1. \A i \in 1..Len(todo') : todo'[i] <= label'
    BY <1>3, TodoTail DEF StreamInv, LabelsKnown
  <2>2. \A i, j \in 1..Len(todo') : todo'[i] = todo'[j] => i = j
    <3>1. TAKE i, j \in 1..Len(todo')
    <3>2. HAVE todo'[i] = todo'[j]
    <3>3. i + 1 \in 1..Len(todo) /\ j + 1 \in 1..Len(todo) /\ todo[i + 1] = todo[j + 1]
      BY <3>2, TodoTail
    <3>4. i + 1 = j + 1 BY <3>3 DEF StreamInv, LabelsKnown
    <3>5. QED BY <3>4
  <2>3. \A i \in 1..Len(inPipe') : inPipe'[i].kind = "completed" => inPipe'[i].of \in printed'
    BY <1>1, <1>3, PhasesQueued DEF StreamInv, LabelsKnown, Phase
  <2>4. QED BY <2>1, <2>2, <2>3 DEF LabelsKnown
<1>5. CallsInv' BY DEF StreamInv, CallsInv, historyVars, driverVars
<1>6. TodoSettled => TodoSettled' BY TodoTail DEF TodoSettled
<1>7. SettledInv' BY <1>1, <1>6, SettledQueued DEF StreamInv, historyVars, driverVars
<1>8. AwaitInv'
  <2>1. SUFFICES ASSUME dpc = "await" PROVE AwaitInv' BY <1>3 DEF AwaitInv
  <2>2. \A i \in 1..Len(todo') : todo'[i] = label
    BY <2>1, TodoTail DEF StreamInv, AwaitInv
  <2>3. ASSUME Started(label) \/ Ended(label) PROVE \A i \in 1..Len(todo') : FALSE
    BY <2>2, <2>3, TodoTail DEF Started, Ended
  <2>4. (Started(label) => Started(label)') /\ (Ended(label) => Ended(label)')
    BY <1>3, <2>3 DEF Started, Ended
  <2>5. QED
    BY <1>1, <1>3, <2>1, <2>2, <2>4, PhasesQueued DEF StreamInv, AwaitInv
<1>9. QED
  BY <1>2, <1>4, <1>5, <1>7, <1>8 DEF StreamInv, ConfirmedLabelsPrinted, historyVars

\* The printed label leaves, and the next becomes the first.
LEMMA PrinterReadyKeeps == ASSUME TypeOK, StreamInv, PrinterReady PROVE StreamInv'
<1>1. todo # <<>> BY DEF PrinterReady, StreamInv, LabelsKnown
<1>2. Frame("receiving", Head(todo)) \in Frames
      /\ Frame("receiving", Head(todo)).kind = "receiving"
  BY <1>1, TodoHead, FrameTyped DEF FrameKinds
<1>3. QED BY <1>1, <1>2, LabelLeaves DEF PrinterReady

\* A label dropped before its end leaves too, with an error frame that is no phase.
LEMMA PrinterFailsKeeps == ASSUME TypeOK, StreamInv, PrinterFails PROVE StreamInv'
<1>1. Frame("error", Head(todo)) \in Frames /\ Frame("error", Head(todo)).kind = "error"
  BY TodoHead, FrameTyped DEF PrinterFails, FrameKinds, NoticeKinds
<1>2. QED BY <1>1, LabelLeaves DEF PrinterFails

\* A phase is sent once, in its order, and by a printer that is not settled.
LEMMA PrinterStartsKeeps == ASSUME TypeOK, StreamInv, PrinterStarts PROVE StreamInv'
<1> DEFINE f == Frame("printing", Head(todo))
<1>1. /\ todo # <<>> /\ stage = "received" /\ stage' = "printing" /\ Queue(f)
      /\ UNCHANGED <<asked, answered, todo, driverVars, historyVars>>
  BY DEF PrinterStarts
<1>2. f \in Frames /\ f.kind = "printing" /\ f.of = Head(todo) /\ Phase(f)
  <2>1. "printing" \in FrameKinds /\ Head(todo) \in Nat BY <1>1, TodoHead DEF FrameKinds
  <2>2. QED BY <2>1, FrameTyped DEF Phase
<1>3. RepliesInOrder' BY <1>1, <1>2, RepliesQueued DEF StreamInv, historyVars
<1>4. UNCHANGED <<label, printed, tracker, dpc>> BY <1>1 DEF driverVars, historyVars
<1>5. LabelsKnown' BY <1>1, <1>2, <1>4, Queued DEF StreamInv, LabelsKnown
<1>6. CallsInv' BY <1>1 DEF StreamInv, CallsInv, historyVars, driverVars
<1>7. ~TodoSettled BY <1>1, TodoHead DEF TodoSettled
<1>8. SettledInv' BY <1>1, <1>2, <1>7, SettledQueued DEF StreamInv, historyVars, driverVars
<1>9. AwaitInv'
  <2>1. SUFFICES ASSUME dpc = "await" PROVE AwaitInv' BY <1>4 DEF AwaitInv
  <2>2. Head(todo) = label /\ ~Started(label) /\ ~Ended(label) /\ Len(todo) \in Nat
        /\ 1 \in 1..Len(todo) /\ todo[1] = label
    BY <1>1, <2>1, TodoHead DEF StreamInv, AwaitInv, Started, Ended
  <2>3. NoPhaseWaits /\ ~tracker.printing /\ ~tracker.completed
    BY <2>1, <2>2 DEF StreamInv, AwaitInv, NoPhaseWaits, Phase
  <2>4. \A i \in 1..Len(inPipe') : Phase(inPipe'[i]) => i = Len(inPipe) + 1 /\ inPipe'[i] = f
    BY <1>1, <1>2, <2>3, Queued DEF NoPhaseWaits
  <2>5. \A i \in 1..Len(todo) : i = 1
    BY <1>1, <2>1, <2>2 DEF StreamInv, AwaitInv, LabelsKnown
  <2>6. Started(label)' BY <1>1, <1>4, <2>5 DEF Started
  <2>7. QED
    BY <1>1, <1>2, <1>4, <2>1, <2>2, <2>3, <2>4, <2>5, <2>6 DEF StreamInv, AwaitInv
<1>10. QED
  BY <1>1, <1>3, <1>5, <1>6, <1>8, <1>9 DEF StreamInv, ConfirmedLabelsPrinted, historyVars

\* The completion phase comes after the printing phase, and the label has come out.
LEMMA PrinterCompletesKeeps == ASSUME TypeOK, StreamInv, PrinterCompletes PROVE StreamInv'
<1> DEFINE f == Frame("completed", Head(todo))
<1>1. /\ stage = "printing" /\ stage' = "completed" /\ Queue(f) /\ todo # <<>>
      /\ printed' = printed \cup {Head(todo)}
      /\ UNCHANGED <<asked, answered, todo, driverVars, taken, inspected, confirmed>>
  BY DEF PrinterCompletes, StreamInv, LabelsKnown
<1>2. f \in Frames /\ f.kind = "completed" /\ f.of = Head(todo) /\ Phase(f)
  <2>1. "completed" \in FrameKinds /\ Head(todo) \in Nat BY <1>1, TodoHead DEF FrameKinds
  <2>2. QED BY <2>1, FrameTyped DEF Phase
<1>3. RepliesInOrder' BY <1>1, <1>2, RepliesQueued DEF StreamInv
<1>4. UNCHANGED <<label, tracker, dpc>> BY <1>1 DEF driverVars
<1>5. LabelsKnown'
  BY <1>1, <1>2, <1>4, Queued, TodoHead DEF StreamInv, LabelsKnown
<1>6. CallsInv' BY <1>1 DEF StreamInv, CallsInv, driverVars
<1>7. ~TodoSettled BY <1>1, TodoHead DEF TodoSettled
<1>8. SettledInv' BY <1>1, <1>2, <1>7, SettledQueued DEF StreamInv, driverVars
<1>9. AwaitInv'
  <2>1. SUFFICES ASSUME dpc = "await" PROVE AwaitInv' BY <1>4 DEF AwaitInv
  <2>2. Head(todo) = label /\ ~Ended(label) /\ Len(todo) \in Nat
        /\ 1 \in 1..Len(todo) /\ todo[1] = label
    BY <1>1, <2>1, TodoHead DEF StreamInv, AwaitInv, Ended
  <2>3. /\ ~tracker.completed
        /\ \A i \in 1..Len(inPipe) : Phase(inPipe[i]) =>
             /\ inPipe[i].kind = "printing" /\ inPipe[i].of = label
             /\ Started(label) /\ ~tracker.printing
    BY <2>1, <2>2 DEF StreamInv, AwaitInv, Phase
  <2>4. \A i \in 1..Len(inPipe') : Phase(inPipe'[i]) =>
          \/ i \in 1..Len(inPipe) /\ inPipe'[i] = inPipe[i] /\ i < Len(inPipe) + 1
          \/ i = Len(inPipe) + 1 /\ inPipe'[i] = f
    BY <1>1, <1>2, Queued
  <2>5. \A i \in 1..Len(todo) : i = 1
    BY <1>1, <2>1, <2>2 DEF StreamInv, AwaitInv, LabelsKnown
  <2>6. Started(label)' /\ Ended(label)' BY <1>1, <1>4, <2>5 DEF Started, Ended
  <2>7. \A i, j \in 1..Len(inPipe') : i < j /\ Phase(inPipe'[i]) /\ Phase(inPipe'[j])
          => inPipe'[i].kind = "printing" /\ inPipe'[j].kind = "completed"
    <3>1. TAKE i, j \in 1..Len(inPipe')
    <3>2. HAVE i < j /\ Phase(inPipe'[i]) /\ Phase(inPipe'[j])
    <3>3. i \in 1..Len(inPipe) /\ inPipe'[i] = inPipe[i] /\ inPipe[i].kind = "printing"
      BY <1>1, <1>2, <2>3, <2>4, <3>2, Queued
    <3>4. CASE j \in 1..Len(inPipe) /\ inPipe'[j] = inPipe[j]
      BY <2>1, <2>3, <3>2, <3>3, <3>4 DEF StreamInv, AwaitInv
    <3>5. QED BY <1>2, <2>4, <3>2, <3>3, <3>4
  <2>8. ASSUME NEW i \in 1..Len(inPipe'), Phase(inPipe'[i])
        PROVE  /\ inPipe'[i].of = label
               /\ inPipe'[i].kind = "printing" => ~tracker.printing
    BY <1>2, <2>2, <2>3, <2>4, <2>8
  <2>9. \A i \in 1..Len(todo') : todo'[i] = label' BY <1>1, <1>4, <2>2, <2>5
  <2>10. QED
    BY <1>1, <1>4, <2>3, <2>6, <2>7, <2>8, <2>9 DEF AwaitInv
<1>10. QED
  BY <1>1, <1>3, <1>5, <1>6, <1>8, <1>9 DEF StreamInv, ConfirmedLabelsPrinted

-----------------------------------------------------------------------------
(* Status transactions.                                                    *)

\* What does not touch the printer leaves what is said of its frames.
LEMMA PrinterStands ==
  ASSUME UNCHANGED <<inPipe, taken, answered, todo, stage>>
  PROVE  /\ RepliesInOrder => RepliesInOrder'
         /\ NoPhaseWaits => NoPhaseWaits'
         /\ TodoSettled => TodoSettled'
         /\ \A n : Barrier(n) => Barrier(n)'
<1>1. NoPhaseWaits' = NoPhaseWaits /\ TodoSettled' = TodoSettled
  BY DEF NoPhaseWaits, TodoSettled
<1>2. QED BY <1>1 DEF RepliesInOrder, Barrier

\* A frame taken from the front leaves the other labels' frames as they are.
LEMMA LabelsTaken ==
  ASSUME TypeOK, LabelsKnown, inPipe # <<>>, DropPacket,
         UNCHANGED <<todo, stage, label, printed>>
  PROVE  LabelsKnown'
BY PacketTaken DEF LabelsKnown

\* A request is a barrier of its own; the one before it is that of the calls that
\* may be made when nothing is in doubt.
LEMMA AskStatusKeeps ==
  ASSUME TypeOK, StreamInv, NEW c \in {"status", "inspect", "print"}, AskStatus(c)
  PROVE  StreamInv'
<1>1. /\ dpc = "idle" /\ dpc' = "reply" /\ call' = c /\ frames' = 0 /\ asked' = asked + 1
      /\ UNCHANGED <<inPipe, answered, todo, stage, notices, tracker, label, quarantined,
                     chainPending, taken, inspected, printed, confirmed>>
      /\ c = "inspect" <=> quarantined
      /\ ~chainPending
      /\ asked \in Nat /\ answered \in Nat /\ answered <= asked /\ taken \in Nat
  BY DEF AskStatus, MayAsk, historyVars, TypeOK, StreamInv, CallsInv
<1>2. RepliesInOrder' BY <1>1, PrinterStands DEF StreamInv
<1>3. LabelsKnown' BY <1>1 DEF StreamInv, LabelsKnown
<1>4. CallsInv' BY <1>1 DEF StreamInv, CallsInv
<1>5. SettledInv'
  <2>1. ~quarantined' => TodoSettled'
    BY <1>1, PrinterStands DEF StreamInv, SettledInv
  <2>2. CASE c = "inspect"
    <3>1. Barrier(asked + 1) BY <1>1, BarrierAhead DEF StreamInv
    <3>2. \A n : n = asked + 1 => Barrier(n)' BY <1>1, <3>1, PrinterStands
    <3>3. QED BY <1>1, <2>1, <2>2, <3>2 DEF SettledInv, Barrier
  <2>3. CASE c # "inspect"
    <3>1. Barrier(asked) BY <1>1, <2>3 DEF StreamInv, SettledInv
    <3>2. \A n : n = asked => Barrier(n)' BY <1>1, <3>1, PrinterStands
    <3>3. asked' - 1 = asked BY <1>1
    <3>4. QED BY <1>1, <2>1, <2>3, <3>2, <3>3 DEF SettledInv, Barrier
  <2>4. QED BY <2>2, <2>3
<1>6. AwaitInv' BY <1>1 DEF AwaitInv
<1>7. QED
  BY <1>1, <1>2, <1>3, <1>4, <1>5, <1>6 DEF StreamInv, ConfirmedLabelsPrinted

\* While a transaction runs, its own request is a barrier.
LEMMA OwnBarrier ==
  ASSUME TypeOK, StreamInv, dpc = "reply"
  PROVE  Barrier(asked)
<1>1. asked \in Int /\ asked - 1 \in Int BY DEF TypeOK
<1>2. QED BY <1>1, BarrierLater DEF StreamInv, SettledInv

\* A transaction that ends returns to the caller, or lets a print go on.  The print
\* has read a reply, with at most one other outstanding: nothing old is left.
LEMMA TxnEnds ==
  ASSUME TypeOK, StreamInv, MaxUnread <= 1, dpc = "reply", NEW ok \in BOOLEAN, AfterTxn(ok),
         RepliesInOrder', LabelsKnown', \A n \in Int : Barrier(n) => Barrier(n)',
         UNCHANGED <<asked, todo, stage, tracker, label, quarantined, chainPending, printed,
                     confirmed>>,
         asked - taken' <= MaxUnread, taken' \in Nat, ok => taken' = taken + 1
  PROVE  StreamInv'
<1>1. asked \in Int /\ taken \in Int /\ asked - 1 \in Int BY DEF TypeOK
<1>2. CallsInv' BY DEF StreamInv, CallsInv, AfterTxn
<1>3. TodoSettled' = TodoSettled BY DEF TodoSettled
<1>4. \A n : n = asked => Barrier(n)' BY <1>1, OwnBarrier
<1>5. CASE call = "print" /\ ok
  <2>1. ~quarantined /\ Barrier(asked - 1)
    BY <1>5 DEF StreamInv, SettledInv, CallsInv
  <2>2. \A n : n = asked - 1 => Barrier(n)' BY <1>1, <2>1
  <2>3. taken' >= asked - 1 BY <1>1, <1>5 DEF StreamInv, CallsInv
  <2>4. NoPhaseWaits' BY <2>2, <2>3 DEF Barrier
  <2>5. QED
    BY <1>2, <1>3, <1>5, <2>1, <2>4
    DEF StreamInv, SettledInv, AwaitInv, AfterTxn, ConfirmedLabelsPrinted
<1>6. CASE ~(call = "print" /\ ok)
  <2>1. dpc' = "idle" /\ ~chainPending' BY <1>6 DEF AfterTxn, StreamInv, CallsInv
  <2>2. SettledInv' BY <1>3, <1>4, <2>1 DEF StreamInv, SettledInv, Barrier
  <2>3. QED BY <1>2, <2>1, <2>2 DEF StreamInv, AwaitInv, ConfirmedLabelsPrinted
<1>7. QED BY <1>5, <1>6

\* A transaction that ends on its reply, or on an error frame before it.
LEMMA TakeReplyKeeps ==
  ASSUME TypeOK, StreamInv, MaxUnread <= 1, TakeReply
  PROVE  StreamInv'
<1>1. /\ dpc = "reply" /\ inPipe # <<>> /\ DropPacket
      /\ taken' = IF Head(inPipe).kind = "reply" THEN taken + 1 ELSE taken
      /\ AfterTxn(Head(inPipe).kind = "reply")
      /\ Head(inPipe).kind # "reply" => MayGiveUp
      /\ UNCHANGED <<asked, answered, todo, stage, notices, tracker, label, quarantined,
                     chainPending, printed, confirmed>>
  BY DEF TakeReply, EndsTxn
<1>2. RepliesInOrder' BY <1>1, RepliesTaken DEF StreamInv
<1>3. LabelsKnown' BY <1>1, LabelsTaken DEF StreamInv
<1>4. \A n \in Int : Barrier(n) => Barrier(n)' BY <1>1, BarrierTaken DEF StreamInv
<1>5. asked - taken' <= MaxUnread /\ taken' \in Nat
  BY <1>1 DEF MayGiveUp, TypeOK, StreamInv, CallsInv
<1>6. QED BY <1>1, <1>2, <1>3, <1>4, <1>5, TxnEnds

\* A transaction that gives up after too many frames leaves its reply unread.
LEMMA FrameLimitReachedKeeps ==
  ASSUME TypeOK, StreamInv, MaxUnread <= 1, FrameLimitReached
  PROVE  StreamInv'
<1>1. /\ dpc = "reply" /\ inPipe # <<>> /\ inPipe' = Tail(inPipe) /\ taken' = taken
      /\ Head(inPipe).kind # "reply" /\ AfterTxn(FALSE) /\ MayGiveUp
      /\ UNCHANGED <<asked, answered, todo, stage, notices, tracker, label, quarantined,
                     chainPending, printed, confirmed>>
  BY DEF FrameLimitReached, EndsTxn
<1>2. RepliesInOrder' BY <1>1, RepliesTaken DEF StreamInv, DropPacket
<1>3. LabelsKnown' BY <1>1, LabelsTaken DEF StreamInv, DropPacket
<1>4. \A n \in Int : Barrier(n) => Barrier(n)' BY <1>1, BarrierTaken DEF StreamInv, DropPacket
<1>5. asked - taken' <= MaxUnread /\ taken' \in Nat BY <1>1 DEF MayGiveUp, TypeOK
<1>6. QED BY <1>1, <1>2, <1>3, <1>4, <1>5, TxnEnds

\* So does one that finds no frame; but the queue is empty then.
LEMMA ReplyTimeoutKeeps ==
  ASSUME TypeOK, StreamInv, MaxUnread <= 1, ReplyTimeout
  PROVE  StreamInv'
<1>1. /\ dpc = "reply" /\ AfterTxn(FALSE) /\ MayGiveUp
      /\ UNCHANGED <<inPipe, asked, answered, todo, stage, notices, tracker, label,
                     quarantined, chainPending, taken, printed, confirmed>>
  BY DEF ReplyTimeout, printerVars
<1>2. RepliesInOrder' /\ \A n \in Int : Barrier(n) => Barrier(n)'
  BY <1>1, PrinterStands DEF StreamInv
<1>3. LabelsKnown' BY <1>1 DEF StreamInv, LabelsKnown
<1>4. asked - taken' <= MaxUnread /\ taken' \in Nat BY <1>1 DEF MayGiveUp, TypeOK
<1>5. QED BY <1>1, <1>2, <1>3, <1>4, TxnEnds

\* A frame drained is one phase less in front of the awaited reply.
LEMMA DrainFrameKeeps == ASSUME TypeOK, StreamInv, DrainFrame PROVE StreamInv'
<1>1. /\ dpc = "reply" /\ inPipe # <<>> /\ inPipe' = Tail(inPipe)
      /\ Head(inPipe).kind # "reply"
      /\ UNCHANGED <<asked, answered, todo, stage, notices, call, dpc, tracker, label,
                     quarantined, chainPending, taken, inspected, printed, confirmed>>
  BY DEF DrainFrame, EndsTxn, historyVars
<1>2. RepliesInOrder' BY <1>1, RepliesTaken DEF StreamInv, DropPacket
<1>3. LabelsKnown' BY <1>1, LabelsTaken DEF StreamInv, DropPacket
<1>4. \A n \in Int : Barrier(n) => Barrier(n)' BY <1>1, BarrierTaken DEF StreamInv, DropPacket
<1>5. CallsInv' BY <1>1 DEF StreamInv, CallsInv
<1>6. SettledInv'
  <2>1. asked \in Int /\ asked - 1 \in Int BY DEF TypeOK
  <2>2. \A n : n = (IF call = "inspect" THEN asked ELSE asked - 1) => Barrier(n)'
    BY <1>1, <1>4, <2>1 DEF StreamInv, SettledInv
  <2>3. ~quarantined => TodoSettled' BY <1>1 DEF StreamInv, SettledInv, TodoSettled
  <2>4. QED BY <1>1, <2>2, <2>3 DEF SettledInv, Barrier
<1>7. QED BY <1>1, <1>2, <1>3, <1>5, <1>6 DEF StreamInv, AwaitInv, ConfirmedLabelsPrinted

-----------------------------------------------------------------------------
(* Printing.                                                               *)

\* An open chain has no phase left, so its continuation starts like a print that
\* has read its reply.
LEMMA ContinueChainKeeps == ASSUME TypeOK, StreamInv, ContinueChain PROVE StreamInv'
<1>1. /\ dpc = "idle" /\ chainPending /\ ~quarantined /\ call' = "print" /\ dpc' = "send"
      /\ UNCHANGED <<inPipe, asked, answered, todo, stage, frames, tracker, label,
                     quarantined, chainPending, taken, inspected, printed, confirmed>>
  BY DEF ContinueChain, printerVars, historyVars
<1>2. RepliesInOrder' BY <1>1, PrinterStands DEF StreamInv
<1>3. LabelsKnown' /\ CallsInv' /\ AwaitInv'
  BY <1>1 DEF StreamInv, LabelsKnown, CallsInv, AwaitInv
<1>4. SettledInv' BY <1>1, PrinterStands DEF StreamInv, SettledInv
<1>5. QED BY <1>1, <1>2, <1>3, <1>4 DEF StreamInv, ConfirmedLabelsPrinted

\* A label that joins the printer's list is the newest.
LEMMA LabelsJoined ==
  ASSUME TypeOK, LabelsKnown, label < MaxLabels, label' = label + 1,
         todo' = Append(todo, label') \/ todo' = todo,
         UNCHANGED <<inPipe, stage, printed>>
  PROVE  LabelsKnown'
<1>1. label \in Nat /\ todo \in Seq(1..MaxLabels) BY DEF TypeOK
<1>2. \A i \in 1..Len(todo) : todo[i] <= label /\ todo[i] \in Nat BY <1>1 DEF LabelsKnown
<1>3. CASE todo' = todo BY <1>1, <1>2, <1>3 DEF LabelsKnown
<1>4. CASE todo' = Append(todo, label')
  <2>1. \A i \in 1..Len(todo') : todo'[i] <= label' BY <1>1, <1>2, <1>4, TodoAppended
  <2>2. \A i, j \in 1..Len(todo') : todo'[i] = todo'[j] => i = j
    <3>1. TAKE i, j \in 1..Len(todo')
    <3>2. \A k \in 1..Len(todo) : todo'[k] # label' BY <1>1, <1>2, <1>4, TodoAppended
    <3>3. QED BY <1>4, <3>2, TodoAppended DEF LabelsKnown
  <2>3. todo' # <<>> BY <1>4, TodoAppended
  <2>4. stage' = "completed" => todo'[1] \in printed'
    <3>1. ASSUME stage = "completed" PROVE todo # <<>> /\ todo[1] \in printed
      BY <3>1 DEF LabelsKnown
    <3>2. todo # <<>> => 1 \in 1..Len(todo) BY TodoHead
    <3>3. QED BY <1>4, <3>1, <3>2, TodoAppended
  <2>5. QED BY <2>1, <2>2, <2>3, <2>4 DEF LabelsKnown
<1>5. QED BY <1>3, <1>4

\* The wait starts with a fresh tracker and no phase on its way.
LEMMA SendLabelKeeps == ASSUME TypeOK, StreamInv, SendLabel PROVE StreamInv'
<1>1. /\ dpc = "send" /\ dpc' = "await" /\ label < MaxLabels /\ label' = label + 1
      /\ todo' = Append(todo, label') /\ tracker' = [Unarmed EXCEPT !.armed = TRUE]
      /\ UNCHANGED <<inPipe, asked, answered, stage, notices, call, frames, quarantined,
                     chainPending, taken, inspected, printed, confirmed>>
  BY DEF SendLabel, historyVars
<1>2. tracker' = [armed |-> TRUE, printing |-> FALSE, completed |-> FALSE]
  BY <1>1 DEF Unarmed
<1>3. RepliesInOrder' BY <1>1 DEF StreamInv, RepliesInOrder
<1>4. LabelsKnown' BY <1>1, LabelsJoined DEF StreamInv
<1>5. CallsInv' BY <1>1, <1>2 DEF StreamInv, CallsInv, TypeOK
<1>6. SettledInv' BY <1>1 DEF SettledInv, StreamInv, CallsInv
<1>7. NoPhaseWaits' /\ TodoSettled
  BY <1>1 DEF StreamInv, SettledInv, CallsInv, NoPhaseWaits
<1>8. \A i \in 1..Len(todo') : todo'[i] = label' \/ (i = 1 /\ stage' = "completed")
  BY <1>1, <1>7, TodoAppended DEF TodoSettled
<1>9. AwaitInv' BY <1>2, <1>7, <1>8 DEF AwaitInv, NoPhaseWaits
<1>10. QED BY <1>1, <1>3, <1>4, <1>5, <1>6, <1>9 DEF StreamInv, ConfirmedLabelsPrinted

\* An abandoned print promises nothing until the printer is inspected.
LEMMA Abandoned ==
  ASSUME TypeOK, StreamInv, Abandon, RepliesInOrder', LabelsKnown', dpc # "reply",
         UNCHANGED <<asked, taken, printed, confirmed>>
  PROVE  StreamInv'
<1>1. /\ quarantined' = TRUE /\ chainPending' = FALSE /\ inspected' = FALSE
      /\ dpc' = "idle" /\ frames' = 0
  BY DEF Abandon
<1>2. CallsInv' BY <1>1 DEF StreamInv, CallsInv
<1>3. SettledInv' /\ AwaitInv' BY <1>1 DEF SettledInv, AwaitInv
<1>4. QED BY <1>2, <1>3 DEF StreamInv, ConfirmedLabelsPrinted

\* A failed raster may have reached the printer: its label joins the list, quarantined.
LEMMA SendFailsKeeps ==
  ASSUME TypeOK, StreamInv, NEW got \in BOOLEAN, SendFails(got)
  PROVE  StreamInv'
<1>1. /\ dpc = "send" /\ label < MaxLabels /\ label' = label + 1 /\ Abandon
      /\ todo' = Append(todo, label') \/ todo' = todo
      /\ UNCHANGED <<inPipe, asked, answered, stage, taken, printed, confirmed>>
  BY DEF SendFails
<1>2. RepliesInOrder' BY <1>1 DEF StreamInv, RepliesInOrder
<1>3. LabelsKnown' BY <1>1, LabelsJoined DEF StreamInv
<1>4. QED BY <1>1, <1>2, <1>3, Abandoned

\* A raster the host refused reaches nobody.
LEMMA SendRejectedKeeps == ASSUME TypeOK, StreamInv, SendRejected PROVE StreamInv'
<1>1. /\ dpc = "send"
      /\ UNCHANGED <<inPipe, asked, answered, todo, stage, tracker, label, taken, printed,
                     confirmed>>
  BY DEF SendRejected, printerVars
<1>2. RepliesInOrder' BY <1>1, PrinterStands DEF StreamInv
<1>3. LabelsKnown' BY <1>1 DEF StreamInv, LabelsKnown
<1>4. CASE Abandon BY <1>1, <1>2, <1>3, <1>4, Abandoned
<1>5. CASE /\ dpc' = "idle" /\ ~chainPending
           /\ UNCHANGED <<quarantined, chainPending, inspected, frames>>
  <2>1. CallsInv' /\ AwaitInv' BY <1>1, <1>5 DEF StreamInv, CallsInv, AwaitInv
  <2>2. NoPhaseWaits' /\ TodoSettled'
    BY <1>1, PrinterStands DEF StreamInv, SettledInv, CallsInv
  <2>3. Barrier(asked)' BY <2>2 DEF NoPhaseWaits, Barrier
  <2>4. SettledInv' BY <1>1, <1>5, <2>2, <2>3 DEF SettledInv
  <2>5. QED BY <1>1, <1>2, <1>3, <2>1, <2>4 DEF StreamInv, ConfirmedLabelsPrinted
<1>6. QED BY <1>4, <1>5 DEF SendRejected

\* A frame that does not end the wait: a phase of the label is seen once.
LEMMA AwaitFrameKeeps == ASSUME TypeOK, StreamInv, AwaitFrame PROVE StreamInv'
<1> DEFINE f == Head(inPipe)
<1>1. /\ dpc = "await" /\ inPipe # <<>> /\ inPipe' = Tail(inPipe)
      /\ Observation(tracker, f) = "waiting" /\ tracker' = Observed(tracker, f)
      /\ UNCHANGED <<asked, answered, todo, stage, notices, call, dpc, label, quarantined,
                     chainPending, taken, inspected, printed, confirmed>>
  BY DEF AwaitFrame, historyVars
<1>2. RepliesInOrder' BY <1>1, RepliesTaken DEF StreamInv, DropPacket
<1>3. LabelsKnown' BY <1>1, LabelsTaken DEF StreamInv, DropPacket
<1>4. /\ tracker \in [armed : BOOLEAN, printing : BOOLEAN, completed : BOOLEAN]
      /\ tracker.armed /\ label >= 1
  BY <1>1 DEF TypeOK, StreamInv, CallsInv
<1>5. /\ tracker'.armed
      /\ tracker'.printing <=> tracker.printing \/ f.kind = "printing"
      /\ tracker'.completed =>
           \/ tracker.completed /\ ~Phase(f)
           \/ f.kind = "completed"
  BY <1>1, <1>4 DEF Observed, Phase
<1>6. CallsInv' BY <1>1, <1>5 DEF StreamInv, CallsInv
<1>7. SettledInv' BY <1>1 DEF StreamInv, SettledInv, CallsInv
<1>8. AwaitInv'
  <2>1. 1 \in 1..Len(inPipe) /\ f = inPipe[1] BY <1>1, Taken
  <2>2. Phase(f) => f.of = label /\ ~tracker.completed
        /\ (f.kind = "printing" => Started(label) /\ ~tracker.printing)
        /\ (f.kind = "completed" => Ended(label) /\ label \in printed)
    BY <1>1, <2>1 DEF StreamInv, AwaitInv, LabelsKnown
  <2>3. \A j \in 1..Len(inPipe) : 1 < j /\ Phase(inPipe[j]) /\ Phase(f)
          => f.kind = "printing" /\ inPipe[j].kind = "completed"
    BY <1>1, <2>1 DEF StreamInv, AwaitInv
  <2>4. Started(label)' = Started(label) /\ Ended(label)' = Ended(label)
    BY <1>1 DEF Started, Ended
  <2>5. tracker'.printing => Started(label) BY <1>1, <1>5, <2>2 DEF StreamInv, AwaitInv, Phase
  <2>6. tracker'.completed => Ended(label) /\ label \in printed
    BY <1>1, <1>5, <2>2 DEF StreamInv, AwaitInv, Phase
  <2>7. ASSUME NEW i \in 1..Len(inPipe'), Phase(inPipe'[i])
        PROVE  /\ inPipe'[i].of = label
               /\ inPipe'[i].kind = "printing" => Started(label) /\ ~tracker'.printing
               /\ inPipe'[i].kind = "completed" => Ended(label)
               /\ ~tracker'.completed
    <3>1. i + 1 \in 1..Len(inPipe) /\ 1 < i + 1 /\ inPipe'[i] = inPipe[i + 1] BY <1>1, Taken
    <3>2. /\ inPipe[i + 1].of = label /\ ~tracker.completed
          /\ inPipe[i + 1].kind = "printing" => Started(label) /\ ~tracker.printing
          /\ inPipe[i + 1].kind = "completed" => Ended(label)
      BY <1>1, <2>7, <3>1 DEF StreamInv, AwaitInv
    <3>3. f.kind # "completed" /\ (f.kind = "printing" => inPipe[i + 1].kind = "completed")
      BY <2>3, <2>7, <3>1 DEF Phase
    <3>4. QED BY <1>5, <3>1, <3>2, <3>3
  <2>8. \A i, j \in 1..Len(inPipe') : i < j /\ Phase(inPipe'[i]) /\ Phase(inPipe'[j])
          => inPipe'[i].kind = "printing" /\ inPipe'[j].kind = "completed"
    <3>1. TAKE i, j \in 1..Len(inPipe')
    <3>2. HAVE i < j /\ Phase(inPipe'[i]) /\ Phase(inPipe'[j])
    <3>3. /\ i + 1 \in 1..Len(inPipe) /\ inPipe'[i] = inPipe[i + 1]
          /\ j + 1 \in 1..Len(inPipe) /\ inPipe'[j] = inPipe[j + 1] /\ i + 1 < j + 1
      BY <1>1, <3>2, Taken
    <3>4. QED BY <1>1, <3>2, <3>3 DEF StreamInv, AwaitInv
  <2>9. \A i \in 1..Len(todo') : todo'[i] = label' \/ (i = 1 /\ stage' = "completed")
    BY <1>1 DEF StreamInv, AwaitInv
  <2>10. label' = label /\ printed' = printed BY <1>1
  <2>11. Started(label)' <=> Started(label) BY <2>4
  <2>12. Ended(label)' <=> Ended(label) BY <2>4
  <2>13. QED
    BY <2>5, <2>6, <2>7, <2>8, <2>9, <2>10, <2>11, <2>12 DEF AwaitInv
<1>9. QED
  BY <1>1, <1>2, <1>3, <1>6, <1>7, <1>8 DEF StreamInv, ConfirmedLabelsPrinted

\* The frame that confirms is the last phase of the label that was awaited, which
\* has come out; nothing about it is left.
LEMMA AwaitConfirmedKeeps ==
  ASSUME TypeOK, StreamInv, NEW chain \in BOOLEAN, AwaitConfirmed(chain)
  PROVE  StreamInv'
<1> DEFINE f == Head(inPipe)
<1>1. /\ dpc = "await" /\ inPipe # <<>> /\ DropPacket
      /\ Observation(tracker, f) = "confirmed" /\ confirmed' = confirmed \cup {label}
      /\ chainPending' = chain /\ dpc' = "idle" /\ frames' = 0
      /\ UNCHANGED <<asked, answered, todo, stage, notices, label, quarantined, taken,
                     inspected, printed>>
  BY DEF AwaitConfirmed
<1>2. RepliesInOrder' BY <1>1, RepliesTaken DEF StreamInv
<1>3. LabelsKnown' BY <1>1, LabelsTaken DEF StreamInv
<1>4. CallsInv' BY <1>1 DEF StreamInv, CallsInv
<1>5. \/ f.kind = "receiving" /\ tracker.printing /\ tracker.completed
      \/ f.kind = "completed"
  BY <1>1 DEF Observation
<1>6. 1 \in 1..Len(inPipe) /\ f = inPipe[1] BY <1>1, PacketTaken
<1>7. label \in printed /\ Ended(label)
  <2>1. CASE tracker.completed BY <1>1, <2>1 DEF StreamInv, AwaitInv
  <2>2. CASE f.kind = "completed"
    BY <1>1, <1>6, <2>2 DEF StreamInv, AwaitInv, LabelsKnown, Phase
  <2>3. QED BY <1>5, <2>1, <2>2
<1>8. \A j \in 1..Len(inPipe) : 1 < j => ~Phase(inPipe[j])
  <2>1. CASE tracker.completed BY <1>1, <2>1 DEF StreamInv, AwaitInv
  <2>2. CASE f.kind = "completed" BY <1>1, <1>6, <2>2 DEF StreamInv, AwaitInv, Phase
  <2>3. QED BY <1>5, <2>1, <2>2
<1>9. NoPhaseWaits' BY <1>1, <1>8, PacketTaken DEF NoPhaseWaits
<1>10. TodoSettled' BY <1>1, <1>7 DEF StreamInv, AwaitInv, Ended, TodoSettled
<1>11. Barrier(asked)' BY <1>9, <1>10 DEF NoPhaseWaits, Barrier
<1>12. SettledInv' /\ AwaitInv' BY <1>1, <1>9, <1>10, <1>11 DEF SettledInv, AwaitInv
<1>13. ConfirmedLabelsPrinted' BY <1>1, <1>7 DEF StreamInv, ConfirmedLabelsPrinted
<1>14. QED BY <1>2, <1>3, <1>4, <1>12, <1>13 DEF StreamInv

\* A wait that meets an error or too many invalid frames abandons its label.
LEMMA AwaitFailsKeeps == ASSUME TypeOK, StreamInv, AwaitFails PROVE StreamInv'
<1>1. /\ dpc = "await" /\ inPipe # <<>> /\ DropPacket /\ Abandon
      /\ UNCHANGED <<asked, answered, todo, stage, label, taken, printed, confirmed>>
  BY DEF AwaitFails
<1>2. RepliesInOrder' BY <1>1, RepliesTaken DEF StreamInv
<1>3. LabelsKnown' BY <1>1, LabelsTaken DEF StreamInv
<1>4. QED BY <1>1, <1>2, <1>3, Abandoned

\* So does a wait that reaches its deadline.
LEMMA AwaitTimeoutKeeps == ASSUME TypeOK, StreamInv, AwaitTimeout PROVE StreamInv'
<1>1. /\ dpc = "await" /\ Abandon
      /\ UNCHANGED <<inPipe, asked, answered, todo, stage, label, taken, printed, confirmed>>
  BY DEF AwaitTimeout, printerVars
<1>2. RepliesInOrder' BY <1>1, PrinterStands DEF StreamInv
<1>3. LabelsKnown' BY <1>1 DEF StreamInv, LabelsKnown
<1>4. QED BY <1>1, <1>2, <1>3, Abandoned

\* The quarantine goes when an inspection has put a barrier behind the label in
\* doubt, and the printer is done with it.
LEMMA ClearQuarantineKeeps == ASSUME TypeOK, StreamInv, ClearQuarantine PROVE StreamInv'
<1>1. /\ dpc = "idle" /\ quarantined /\ inspected /\ todo = <<>> /\ quarantined' = FALSE
      /\ UNCHANGED <<inPipe, asked, answered, todo, stage, frames, tracker, label, dpc,
                     chainPending, taken, inspected, printed, confirmed>>
  BY DEF ClearQuarantine, printerVars, historyVars
<1>2. RepliesInOrder' BY <1>1, PrinterStands DEF StreamInv
<1>3. LabelsKnown' /\ CallsInv' /\ AwaitInv'
  BY <1>1 DEF StreamInv, LabelsKnown, CallsInv, AwaitInv
<1>4. TodoSettled' BY <1>1 DEF TodoSettled
<1>5. \A n : n = asked => Barrier(n)' BY <1>1, PrinterStands DEF StreamInv, SettledInv
<1>6. ~chainPending' BY <1>1 DEF StreamInv, CallsInv
<1>7. SettledInv' BY <1>1, <1>4, <1>5, <1>6 DEF SettledInv, Barrier
<1>8. QED BY <1>1, <1>2, <1>3, <1>7 DEF StreamInv, ConfirmedLabelsPrinted

-----------------------------------------------------------------------------
(* Types.                                                                  *)

\* A frame of the printer is well formed, and its answers are counted.
LEMMA PrinterTyped == ASSUME TypeInv, PrinterStep, UNCHANGED strategy PROVE TypeInv'
<1>1. TypeOK /\ RepliesInOrder BY DEF TypeInv
<1>2. ASSUME NEW f \in Frames, Queue(f), f.kind # "reply",
             UNCHANGED <<asked, answered, strategy, driverVars, taken, inspected, confirmed>>,
             notices' \in 0..MaxNotices, todo' \in Seq(1..MaxLabels),
             stage' \in {"received", "printing", "completed"},
             todo' = <<>> => stage' = "received", printed' \subseteq 1..MaxLabels
      PROVE  TypeInv'
  <2>1. RepliesInOrder' BY <1>1, <1>2, RepliesQueued
  <2>2. inPipe' \in Seq(Frames) BY <1>1, <1>2, Queued
  <2>3. QED BY <1>2, <2>1, <2>2 DEF TypeInv, TypeOK, driverVars
<1>3. CASE PrinterReplies
  <2> DEFINE f == Frame("reply", answered')
  <2>1. /\ answered' = answered + 1 /\ answered < asked /\ Queue(f)
        /\ UNCHANGED <<asked, todo, stage, notices, driverVars, historyVars>>
    BY <1>3 DEF PrinterReplies
  <2>2. answered' \in 0..asked /\ taken \in 0..answered' /\ answered' \in Nat
    BY <1>1, <2>1 DEF TypeOK
  <2>3. "reply" \in FrameKinds BY DEF FrameKinds
  <2>4. f \in Frames /\ f.kind = "reply" /\ f.of = answered + 1
    BY <2>1, <2>2, <2>3, FrameTyped
  <2>5. RepliesInOrder' BY <1>1, <2>1, <2>4, RepliesQueued DEF historyVars
  <2>6. inPipe' \in Seq(Frames) BY <1>1, <2>1, <2>4, Queued
  <2>7. QED BY <2>1, <2>2, <2>5, <2>6 DEF TypeInv, TypeOK, driverVars, historyVars
<1>4. ASSUME PrinterStarts \/ PrinterCompletes \/ PrinterReady \/ PrinterFails
             \/ \E k \in NoticeKinds : PrinterNotices(k)
      PROVE  TypeInv'
  <2>1. "printing" \in FrameKinds /\ "completed" \in FrameKinds /\ "receiving" \in FrameKinds
        /\ "error" \in FrameKinds /\ \A k \in NoticeKinds : k \in FrameKinds /\ k # "reply"
    BY DEF FrameKinds, NoticeKinds
  <2>2. todo # <<>> => Head(todo) \in 1..MaxLabels /\ Head(todo) \in Nat
                       /\ Tail(todo) \in Seq(1..MaxLabels)
    BY <1>1, TodoHead DEF TypeOK
  <2>3. CASE PrinterStarts
    <3>1. Frame("printing", Head(todo)) \in Frames
          /\ Frame("printing", Head(todo)).kind # "reply"
      BY <2>1, <2>2, <2>3, FrameTyped DEF PrinterStarts
    <3>2. QED BY <1>2, <1>4, <2>3, <3>1 DEF PrinterStarts, TypeInv, TypeOK, historyVars
  <2>4. CASE PrinterCompletes
    <3>1. todo # <<>> BY <2>4 DEF PrinterCompletes, TypeInv
    <3>2. Frame("completed", Head(todo)) \in Frames
          /\ Frame("completed", Head(todo)).kind # "reply"
      BY <2>1, <2>2, <3>1, FrameTyped
    <3>3. QED BY <1>2, <1>4, <2>2, <2>4, <3>1, <3>2 DEF PrinterCompletes, TypeInv, TypeOK
  <2>5. CASE PrinterReady
    <3>1. todo # <<>> BY <2>5 DEF PrinterReady, TypeInv
    <3>2. Frame("receiving", Head(todo)) \in Frames
          /\ Frame("receiving", Head(todo)).kind # "reply"
      BY <2>1, <2>2, <3>1, FrameTyped
    <3>3. QED
      BY <1>2, <1>4, <2>2, <2>5, <3>1, <3>2 DEF PrinterReady, TypeInv, TypeOK, historyVars
  <2>6. CASE PrinterFails
    <3>1. todo # <<>> BY <2>6 DEF PrinterFails
    <3>2. Frame("error", Head(todo)) \in Frames
          /\ Frame("error", Head(todo)).kind # "reply"
      BY <2>1, <2>2, <3>1, FrameTyped
    <3>3. QED
      BY <1>2, <1>4, <2>2, <2>6, <3>1, <3>2 DEF PrinterFails, TypeInv, TypeOK, historyVars
  <2>7. ASSUME NEW k \in NoticeKinds, PrinterNotices(k) PROVE TypeInv'
    <3>1. Frame(k, 0) \in Frames /\ Frame(k, 0).kind # "reply"
      BY <2>1, FrameTyped
    <3>2. notices' \in 0..MaxNotices BY <2>7 DEF PrinterNotices, TypeInv, TypeOK
    <3>3. QED
      BY <1>2, <1>4, <2>7, <3>1, <3>2 DEF PrinterNotices, TypeInv, TypeOK, historyVars
  <2>8. QED BY <1>4, <2>3, <2>4, <2>5, <2>6, <2>7
<1>5. QED BY <1>3, <1>4 DEF PrinterStep

\* Reading and transacting count within their limits.
LEMMA TxnTyped ==
  ASSUME TypeInv, UNCHANGED strategy,
         \/ \E c \in {"status", "inspect", "print"} : AskStatus(c)
         \/ TakeReply \/ DrainFrame \/ FrameLimitReached \/ ReplyTimeout
  PROVE  TypeInv'
<1>1. TypeOK /\ RepliesInOrder BY DEF TypeInv
<1>2. 0 \in 0..(FrameLimit - 1) OBVIOUS
<1>3. ASSUME NEW c \in {"status", "inspect", "print"}, AskStatus(c) PROVE TypeInv'
  <2>1. asked' \in 0..MaxRequests /\ answered \in 0..asked'
    BY <1>1, <1>3 DEF AskStatus, TypeOK
  <2>2. RepliesInOrder' BY <1>1, <1>3 DEF AskStatus, historyVars, RepliesInOrder
  <2>3. QED BY <1>2, <1>3, <2>1, <2>2 DEF AskStatus, TypeInv, TypeOK, historyVars
<1>4. ASSUME NEW ok \in BOOLEAN, AfterTxn(ok), dpc = "reply",
             UNCHANGED <<asked, answered, todo, stage, notices, tracker, label, quarantined,
                         chainPending, printed, confirmed>>,
             inPipe' \in Seq(Frames), taken' \in 0..answered, RepliesInOrder'
      PROVE  TypeInv'
  <2>1. /\ call' \in {"none", "print"} /\ dpc' \in {"idle", "send"} /\ frames' = 0
        /\ inspected' \in BOOLEAN
    BY <1>1, <1>4 DEF AfterTxn, TypeOK
  <2>2. QED BY <1>1, <1>2, <1>4, <2>1 DEF TypeInv, TypeOK
<1>5. CASE TakeReply
  <2>1. /\ inPipe # <<>> /\ DropPacket /\ answered' = answered
        /\ taken' = taken \/ (Head(inPipe).kind = "reply" /\ taken' = taken + 1)
    BY <1>5 DEF TakeReply
  <2>2. RepliesInOrder' /\ taken' \in 0..answered BY <1>1, <2>1, RepliesTaken
  <2>3. inPipe' \in Seq(Frames) BY <1>1, <2>1, PacketTaken
  <2>4. AfterTxn(TRUE) \/ AfterTxn(FALSE)
    <3>1. (Head(inPipe).kind = "reply") \in BOOLEAN OBVIOUS
    <3>2. AfterTxn(Head(inPipe).kind = "reply") BY <1>5 DEF TakeReply
    <3>3. QED BY <3>2 DEF AfterTxn
  <2>5. QED BY <1>4, <1>5, <2>2, <2>3, <2>4 DEF TakeReply
<1>6. CASE DrainFrame
  <2>1. inPipe # <<>> /\ inPipe' = Tail(inPipe) /\ answered' = answered /\ taken' = taken
    BY <1>6 DEF DrainFrame, historyVars
  <2>2. RepliesInOrder' /\ inPipe' \in Seq(Frames) BY <1>1, <2>1, RepliesTaken, PacketTaken DEF DropPacket
  <2>3. frames' \in 0..(FrameLimit - 1) BY <1>1, <1>6 DEF DrainFrame, TypeOK
  <2>4. QED BY <1>6, <2>2, <2>3 DEF DrainFrame, TypeInv, TypeOK, historyVars
<1>7. CASE FrameLimitReached
  <2>1. inPipe # <<>> /\ inPipe' = Tail(inPipe) /\ answered' = answered /\ taken' = taken
    BY <1>7 DEF FrameLimitReached
  <2>2. RepliesInOrder' /\ inPipe' \in Seq(Frames) BY <1>1, <2>1, RepliesTaken, PacketTaken DEF DropPacket
  <2>3. QED BY <1>1, <1>4, <1>7, <2>2 DEF FrameLimitReached, TypeOK
<1>8. CASE ReplyTimeout
  <2>1. RepliesInOrder' BY <1>1, <1>8 DEF ReplyTimeout, printerVars, RepliesInOrder
  <2>2. QED BY <1>1, <1>4, <1>8, <2>1 DEF ReplyTimeout, printerVars, TypeOK
<1>9. QED BY <1>3, <1>5, <1>6, <1>7, <1>8

\* So does printing.
LEMMA PrintTyped ==
  ASSUME TypeInv, UNCHANGED strategy,
         \/ ContinueChain \/ SendLabel \/ \E got \in BOOLEAN : SendFails(got)
         \/ SendRejected \/ AwaitFrame \/ \E chain \in BOOLEAN : AwaitConfirmed(chain)
         \/ AwaitFails \/ AwaitTimeout \/ ClearQuarantine
  PROVE  TypeInv'
<1>1. TypeOK /\ RepliesInOrder BY DEF TypeInv
<1>2. 0 \in 0..(FrameLimit - 1) /\ 0 \in 0..(InvalidLimit - 1) OBVIOUS
<1>3. CASE ContinueChain
  BY <1>3 DEF ContinueChain, printerVars, historyVars, TypeInv, TypeOK, RepliesInOrder
<1>4. ASSUME inPipe # <<>>, DropPacket, answered' = answered, taken' = taken
      PROVE  RepliesInOrder' /\ inPipe' \in Seq(Frames)
  BY <1>1, <1>4, RepliesTaken, PacketTaken
<1>5. ASSUME Abandon, inPipe' \in Seq(Frames), RepliesInOrder', todo' \in Seq(1..MaxLabels),
             todo' = <<>> => stage = "received", label' \in 0..MaxLabels,
             UNCHANGED <<asked, answered, stage, notices, tracker, taken, printed, confirmed>>
      PROVE  TypeInv'
  BY <1>1, <1>2, <1>5 DEF Abandon, TypeInv, TypeOK
<1>6. CASE SendLabel
  <2>1. /\ todo' \in Seq(1..MaxLabels) /\ todo' # <<>> /\ label' \in 1..MaxLabels
    BY <1>1, <1>6, TodoAppended DEF SendLabel
  <2>2. tracker' = [armed |-> TRUE, printing |-> FALSE, completed |-> FALSE]
    BY <1>6 DEF SendLabel, Unarmed
  <2>3. RepliesInOrder' BY <1>1, <1>6 DEF SendLabel, historyVars, RepliesInOrder
  <2>4. dpc' = "await" /\ frames' = 0 BY <1>6 DEF SendLabel, TypeInv
  <2>5. frames' \in 0..(IF dpc' = "await" THEN InvalidLimit - 1 ELSE FrameLimit - 1)
    BY <1>2, <2>4
  <2>6. UNCHANGED <<inPipe, asked, answered, stage, notices, call, quarantined, chainPending,
                    historyVars>>
    BY <1>6 DEF SendLabel
  <2>7. tracker' \in [armed : BOOLEAN, printing : BOOLEAN, completed : BOOLEAN] BY <2>2
  <2>8. label' \in 0..MaxLabels /\ label' >= 1 BY <2>1
  <2>9. TypeOK' BY <1>1, <2>1, <2>4, <2>5, <2>6, <2>7, <2>8 DEF TypeOK, historyVars
  <2>10. QED BY <2>1, <2>3, <2>4, <2>8, <2>9 DEF TypeInv
<1>7. ASSUME NEW got \in BOOLEAN, SendFails(got) PROVE TypeInv'
  <2>1. label' \in 0..MaxLabels BY <1>1, <1>7 DEF SendFails, TypeOK
  <2>2. todo' \in Seq(1..MaxLabels) /\ (todo' = <<>> => stage = "received")
    <3>1. CASE todo' = todo BY <3>1 DEF TypeInv, TypeOK
    <3>2. CASE todo' = Append(todo, label')
      BY <1>1, <1>7, <3>2, TodoAppended DEF SendFails
    <3>3. QED BY <1>7, <3>1, <3>2 DEF SendFails
  <2>3. RepliesInOrder' BY <1>1, <1>7 DEF SendFails, RepliesInOrder
  <2>4. QED BY <1>1, <1>5, <1>7, <2>1, <2>2, <2>3 DEF SendFails, TypeOK
<1>8. CASE SendRejected
  <2>1. RepliesInOrder' BY <1>1, <1>8 DEF SendRejected, printerVars, RepliesInOrder
  <2>2. CASE Abandon
    BY <1>5, <1>8, <2>1, <2>2 DEF SendRejected, printerVars, TypeInv, TypeOK
  <2>3. CASE UNCHANGED <<quarantined, chainPending, inspected, frames>>
             /\ call' = "none" /\ dpc' = "idle"
    BY <1>8, <2>1, <2>3 DEF SendRejected, printerVars, TypeInv, TypeOK
  <2>4. QED BY <1>8, <2>2, <2>3 DEF SendRejected
<1>9. CASE AwaitFrame
  <2>1. RepliesInOrder' /\ inPipe' \in Seq(Frames)
    BY <1>4, <1>9 DEF AwaitFrame, historyVars, DropPacket
  <2>2. frames' \in 0..(InvalidLimit - 1) BY <1>1, <1>9 DEF AwaitFrame, TypeOK
  <2>3. tracker' \in [armed : BOOLEAN, printing : BOOLEAN, completed : BOOLEAN]
    BY <1>1, <1>9 DEF AwaitFrame, Observed, TypeOK
  <2>4. QED BY <1>9, <2>1, <2>2, <2>3 DEF AwaitFrame, TypeInv, TypeOK, historyVars
<1>10. ASSUME NEW chain \in BOOLEAN, AwaitConfirmed(chain) PROVE TypeInv'
  <2>1. RepliesInOrder' /\ inPipe' \in Seq(Frames) BY <1>4, <1>10 DEF AwaitConfirmed
  <2>2. tracker' \in [armed : BOOLEAN, printing : BOOLEAN, completed : BOOLEAN]
    BY <1>1, <1>10 DEF AwaitConfirmed, Observed, TypeOK
  <2>3. label \in 1..MaxLabels BY <1>10 DEF AwaitConfirmed, TypeInv, TypeOK
  <2>4. QED BY <1>2, <1>10, <2>1, <2>2, <2>3 DEF AwaitConfirmed, TypeInv, TypeOK
<1>11. CASE AwaitFails
  <2>1. RepliesInOrder' /\ inPipe' \in Seq(Frames) BY <1>4, <1>11 DEF AwaitFails
  <2>2. QED BY <1>5, <1>11, <2>1 DEF AwaitFails, TypeInv, TypeOK
<1>12. CASE AwaitTimeout
  <2>1. RepliesInOrder' BY <1>1, <1>12 DEF AwaitTimeout, printerVars, RepliesInOrder
  <2>2. QED BY <1>5, <1>12, <2>1 DEF AwaitTimeout, printerVars, TypeInv, TypeOK
<1>13. CASE ClearQuarantine
  BY <1>13 DEF ClearQuarantine, printerVars, historyVars, TypeInv, TypeOK, RepliesInOrder
<1>14. QED BY <1>3, <1>6, <1>7, <1>8, <1>9, <1>10, <1>11, <1>12, <1>13

\* The types hold at start and through every step, however many replies stay unread.
LEMMA InitTyped == Init => TypeInv
<1>1. ASSUME Init PROVE TypeOK
  <2>1. <<>> \in Seq(Frames) /\ <<>> \in Seq(1..MaxLabels) OBVIOUS
  <2>2. 0 \in 0..MaxRequests /\ 0 \in 0..0 /\ 0 \in 0..MaxNotices /\ 0 \in 0..MaxLabels
        /\ 0 \in 0..(FrameLimit - 1)
    OBVIOUS
  <2>3. QED BY <1>1, <2>1, <2>2 DEF Init, TypeOK, Unarmed
<1>2. ASSUME Init PROVE RepliesInOrder
  <2>1. Len(inPipe) = 0 BY <1>2 DEF Init
  <2>2. QED BY <2>1 DEF RepliesInOrder
<1>3. QED BY <1>1, <1>2 DEF Init, TypeInv

\* No step of the printer or of the driver leaves the types.
LEMMA NextTyped == ASSUME TypeInv, [Next]_vars PROVE TypeInv'
<1>1. CASE PrinterStep /\ UNCHANGED strategy BY <1>1, PrinterTyped
<1>2. CASE DriverStep /\ UNCHANGED strategy BY <1>2, TxnTyped, PrintTyped DEF DriverStep
<1>3. CASE UNCHANGED vars
  BY <1>3 DEF vars, printerVars, driverVars, historyVars, TypeInv, TypeOK, RepliesInOrder
<1>4. QED BY <1>1, <1>2, <1>3 DEF Next

-----------------------------------------------------------------------------
(* What the driver may conclude.                                           *)

\* StreamInv holds at start, and every step keeps it while at most one reply is ever
\* left unread.
LEMMA InitStream == Init => StreamInv
<1> SUFFICES ASSUME Init PROVE StreamInv OBVIOUS
<1>1. Len(inPipe) = 0 /\ Len(todo) = 0 BY DEF Init
<1>2. RepliesInOrder /\ LabelsKnown BY <1>1 DEF Init, RepliesInOrder, LabelsKnown
<1>3. CallsInv /\ AwaitInv BY DEF Init, CallsInv, AwaitInv
<1>4. NoPhaseWaits /\ TodoSettled BY <1>1 DEF NoPhaseWaits, TodoSettled
<1>5. SettledInv BY <1>4, BarrierOfNothing DEF Init, SettledInv
<1>6. QED BY <1>2, <1>3, <1>5 DEF Init, StreamInv, ConfirmedLabelsPrinted

\* A stuttering step keeps the invariant.
LEMMA StreamStutters == ASSUME StreamInv, UNCHANGED vars PROVE StreamInv'
<1>1. UNCHANGED <<inPipe, asked, answered, todo, stage, call, dpc, frames, tracker, label,
                  quarantined, chainPending, taken, inspected, printed, confirmed>>
  BY DEF vars, printerVars, driverVars, historyVars
<1>2. RepliesInOrder' BY <1>1, PrinterStands DEF StreamInv
<1>3. LabelsKnown' /\ CallsInv' BY <1>1 DEF StreamInv, LabelsKnown, CallsInv
<1>4. SettledInv' BY <1>1 DEF StreamInv, SettledInv, Barrier, NoPhaseWaits, TodoSettled
<1>5. AwaitInv' BY <1>1 DEF StreamInv, AwaitInv, Started, Ended
<1>6. QED BY <1>1, <1>2, <1>3, <1>4, <1>5 DEF StreamInv, ConfirmedLabelsPrinted

\* Every step of the printer and of the driver keeps it.
LEMMA NextStream ==
  ASSUME TypeOK, StreamInv, MaxUnread <= 1, [Next]_vars
  PROVE  StreamInv'
<1>1. CASE PrinterStep
  BY <1>1, PrinterRepliesKeeps, PrinterStartsKeeps, PrinterCompletesKeeps, PrinterReadyKeeps,
     PrinterFailsKeeps, PrinterNoticesKeeps DEF PrinterStep
<1>2. CASE DriverStep
  BY <1>2, AskStatusKeeps, TakeReplyKeeps, DrainFrameKeeps, FrameLimitReachedKeeps,
     ReplyTimeoutKeeps, ContinueChainKeeps, SendLabelKeeps, SendFailsKeeps, SendRejectedKeeps,
     AwaitFrameKeeps, AwaitConfirmedKeeps, AwaitFailsKeeps, AwaitTimeoutKeeps,
     ClearQuarantineKeeps DEF DriverStep
<1>3. CASE UNCHANGED vars BY <1>3, StreamStutters
<1>4. QED BY <1>1, <1>2, <1>3 DEF Next

\* Every variable keeps its type, the waiting frames are frames, and a call gives up
\* within the limits of status_txn_locked and of the completion wait.
THEOREM StreamTypeCorrect == Spec => []TypeOK
<1>1. TypeInv /\ [Next]_vars => TypeInv' BY NextTyped
<1>2. TypeInv => TypeOK BY DEF TypeInv
<1>3. QED BY <1>1, <1>2, InitTyped, PTL DEF Spec

\* The invariant of the stream, for a driver that leaves at most one reply unread.
THEOREM StreamInvariance == MaxUnread <= 1 => (Spec => []StreamInv)
<1> SUFFICES ASSUME MaxUnread <= 1 PROVE Spec => []StreamInv OBVIOUS
<1>1. TypeOK /\ StreamInv /\ [Next]_vars => StreamInv' BY NextStream
<1>2. QED BY <1>1, InitStream, StreamTypeCorrect, PTL DEF Spec

\* A label is reported complete only after it came out: as long as at most one reply
\* is left unread, no frame of an earlier label, no late reply and no notice
\* acknowledges it, across failures, quarantines, inspections and chains.
THEOREM ConfirmedArePrinted == MaxUnread <= 1 => (Spec => []ConfirmedLabelsPrinted)
<1> SUFFICES ASSUME MaxUnread <= 1 PROVE Spec => []ConfirmedLabelsPrinted OBVIOUS
<1>1. StreamInv => ConfirmedLabelsPrinted BY DEF StreamInv
<1>2. QED BY <1>1, StreamInvariance, PTL

\* No ordinary status command reaches a printer that still holds an unprinted label
\* (ptouch_usb.h:22), under the same bound on unread replies.
THEOREM PrintingIsNotDisturbed == MaxUnread <= 1 => (Spec => NoStatusDuringPrinting)
<1> SUFFICES ASSUME MaxUnread <= 1 PROVE Spec => NoStatusDuringPrinting OBVIOUS
<1>1. ASSUME TypeOK, StreamInv, [Next]_vars
      PROVE  [asked' # asked /\ call' # "inspect"
                => \A i \in 1..Len(todo) : todo[i] \in printed]_vars
  <2>1. SUFFICES ASSUME asked' # asked, call' # "inspect"
                 PROVE  \A i \in 1..Len(todo) : todo[i] \in printed
    OBVIOUS
  <2>2. PICK c \in {"status", "inspect", "print"} : AskStatus(c)
    BY <1>1, <2>1 DEF Next, PrinterStep, DriverStep, PrinterReplies, PrinterStarts,
       PrinterCompletes, PrinterReady, PrinterFails, PrinterNotices, TakeReply, DrainFrame,
       FrameLimitReached, ReplyTimeout, ContinueChain, SendLabel, SendFails, SendRejected,
       AwaitFrame, AwaitConfirmed, AwaitFails, AwaitTimeout, ClearQuarantine, vars,
       printerVars
  <2>3. dpc = "idle" /\ ~quarantined
    BY <1>1, <2>1, <2>2 DEF AskStatus, MayAsk
  <2>4. TodoSettled BY <1>1, <2>3 DEF StreamInv, SettledInv
  <2>5. QED BY <1>1, <2>4 DEF TodoSettled, StreamInv, LabelsKnown
<1>2. QED BY <1>1, StreamTypeCorrect, StreamInvariance, PTL DEF Spec, NoStatusDuringPrinting
=============================================================================
