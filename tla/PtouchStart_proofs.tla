-------------------------- MODULE PtouchStart_proofs --------------------------
(***************************************************************************)
(* The driver's start, for any number of tasks that call it, any failure,   *)
(* any number of attempts and any length of the event queue.  StartInv is   *)
(* inductive: the flag admits one start, each step of which knows what      *)
(* exists; usb_task follows a start that is over; and the first event is    *)
(* the outcome.  There is one lemma for each actor's steps.                 *)
(***************************************************************************)
EXTENDS PtouchStart, SequenceTheorems, TLAPS

\* The objects that a start creates.
LEMMA NamesAre == Names = {"io", "cache", "queue"}
BY DEF Names, Objects

\* Nothing exists before the first start.
LEMMA StartInit == Init => StartInv
<1> SUFFICES ASSUME Init PROVE StartInv
  OBVIOUS
<1> USE NamesAre DEF Init
<1>1. TypeOK
  BY EmptySeq DEF TypeOK, StartPcs, UsbPcs
<1>2. OneStart /\ StartedSoFar
  BY DEF OneStart, StartedSoFar, Exist
<1>3. HostSoFar /\ OutcomeFirst
  BY DEF HostSoFar, OutcomeFirst
<1> QED
  BY <1>1, <1>2, <1>3 DEF StartInv

-----------------------------------------------------------------------------
(* ptouch_usb_start.                                                       *)

\* A start under way is the only one, and usb_task does not run.
LEMMA StarterAlone ==
  ASSUME StartInv, NEW s \in Starters, pc[s] # "out"
  PROVE  /\ startCalled /\ usb = "none"
         /\ queue = <<>> /\ told = <<>>
         /\ \A t \in Starters : t # s => pc[t] = "out"
BY DEF StartInv, OneStart, OutcomeFirst

\* A start enters only where none is under way and nothing exists.
LEMMA EnterKeeps ==
  ASSUME StartInv, NEW s \in Starters, Enter(s)
  PROVE  StartInv'
<1> USE DEF StartInv, Enter, Goto, Return, usbVars
<1>1. TypeOK'
  BY NamesAre DEF TypeOK, StartPcs
<1>2. OneStart'
  BY DEF TypeOK, OneStart, Exist
<1>3. StartedSoFar'
  BY DEF TypeOK, OneStart, StartedSoFar, Exist
<1>4. HostSoFar' /\ OutcomeFirst'
  BY DEF HostSoFar, OutcomeFirst, Only, FirstThen
<1> QED
  BY <1>1, <1>2, <1>3, <1>4

\* An object is created once, in its order, or the start turns to undoing.
LEMMA CreateKeeps ==
  ASSUME StartInv, NEW s \in Starters, NEW ok \in BOOLEAN, Create(s, ok)
  PROVE  StartInv'
<1> USE NamesAre DEF StartInv, Create, Goto, After, usbVars
<1>1. pc[s] # "out" /\ usb = "none" /\ \A t \in Starters : t # s => pc[t] = "out"
  BY StarterAlone
<1>2. TypeOK'
  BY DEF TypeOK, StartPcs
<1>3. OneStart'
  BY <1>1 DEF TypeOK, OneStart, Exist
<1>4. StartedSoFar'
  BY <1>1 DEF TypeOK, StartedSoFar, Exist
<1>5. HostSoFar' /\ OutcomeFirst'
  BY DEF HostSoFar, OutcomeFirst, Only, FirstThen
<1> QED
  BY <1>2, <1>3, <1>4, <1>5

\* The two tasks come after the objects; the last one is the end of the start.
LEMMA TasksKeep ==
  ASSUME StartInv, NEW s \in Starters,
         \/ \E ok \in BOOLEAN : CreateEventTask(s, ok)
         \/ CreateUsbTask(s) \/ UsbTaskFails(s)
  PROVE  StartInv'
<1> USE NamesAre DEF StartInv, CreateEventTask, CreateUsbTask, UsbTaskFails, Goto, Return, usbVars
<1>1. pc[s] # "out" /\ usb = "none" /\ \A t \in Starters : t # s => pc[t] = "out"
  BY StarterAlone
<1>2. TypeOK'
  <2>1. eventTask \in {0, 1} /\ (pc[s] = "usb" => eventTask = 1)
    BY <1>1 DEF StartedSoFar
  <2> QED
    BY <1>1, <2>1 DEF TypeOK, StartPcs, UsbPcs
<1>3. OneStart'
  <2>1. pc[s] = "usb" => eventTask = 1 /\ \A o \in Names : handle[o]
    BY DEF StartedSoFar
  <2>2. startCalled
    BY <1>1 DEF OneStart
  <2>3. CASE \E ok \in BOOLEAN : CreateEventTask(s, ok)
    BY <1>1, <2>2, <2>3 DEF TypeOK, OneStart, Exist
  <2>4. CASE CreateUsbTask(s)
    BY <1>1, <2>1, <2>2, <2>4 DEF TypeOK, OneStart, Exist
  <2>5. CASE UsbTaskFails(s)
    BY <1>1, <2>2, <2>5 DEF TypeOK, OneStart, Exist
  <2> QED
    BY <2>3, <2>4, <2>5
<1>4. StartedSoFar'
  BY <1>1 DEF TypeOK, StartedSoFar, Exist
<1>5. HostSoFar' /\ OutcomeFirst'
  BY <1>1 DEF HostSoFar, OutcomeFirst, Only, FirstThen
<1> QED
  BY <1>2, <1>3, <1>4, <1>5

\* The undoing takes back what was made, and the flag after all of it.
LEMMA CleanupKeeps ==
  ASSUME StartInv, NEW s \in Starters, Delete(s) \/ Reset(s)
  PROVE  StartInv'
<1> USE NamesAre DEF StartInv, Delete, Reset, Freed, Before, Goto, Return, usbVars
<1>1. /\ pc[s] # "out" /\ usb = "none" /\ queue = <<>> /\ told = <<>>
      /\ \A t \in Starters : t # s => pc[t] = "out"
  BY StarterAlone
<1>2. TypeOK'
  <2>1. \A o \in Names : handle[o] => made[o] - 1 \in Nat
    BY DEF TypeOK, StartedSoFar
  <2>2. Freed(pc[s]) \in Names \/ Reset(s)
    BY DEF Freed
  <2>3. CASE Delete(s)
    <3>1. made' \in [Names -> Nat] /\ handle' \in [Names -> BOOLEAN]
      BY <2>1, <2>3 DEF TypeOK
    <3>2. pc' \in [Starters -> StartPcs]
      BY <2>3 DEF TypeOK, StartPcs
    <3> QED
      BY <2>3, <3>1, <3>2, EmptySeq DEF TypeOK
  <2>4. CASE Reset(s)
    BY <2>4 DEF TypeOK, StartPcs
  <2> QED
    BY <2>3, <2>4
<1>3. OneStart'
  BY <1>1 DEF TypeOK, OneStart, StartedSoFar, Exist
<1>4. StartedSoFar'
  BY <1>1 DEF TypeOK, StartedSoFar, Exist
<1>5. HostSoFar' /\ OutcomeFirst'
  BY <1>1 DEF HostSoFar, OutcomeFirst, Only, FirstThen
<1> QED
  BY <1>2, <1>3, <1>4, <1>5

-----------------------------------------------------------------------------
(* usb_task and event_task.                                                *)

\* An event is queued behind the others, or dropped if the queue is full.
LEMMA EmittedIs ==
  ASSUME StartInv, usb # "none", NEW e \in EventKinds
  PROVE  /\ Emitted(e) \in Seq(EventKinds)
         /\ ~HasCallback => Emitted(e) = queue
         /\ HasCallback /\ queue = <<>> => Emitted(e) = <<e>>
         /\ Emitted(e) \in {queue, Append(queue, e)}
<1>1. handle["queue"]
  BY NamesAre DEF StartInv, OneStart
<1>2. HasCallback \in BOOLEAN /\ QueueLen \in Nat \ {0} /\ queue \in Seq(EventKinds)
  BY StartAssumption DEF StartInv, TypeOK
<1> QED
  <2>1. Append(queue, e) \in Seq(EventKinds)
    BY <1>2
  <2>2. queue = <<>> => Append(queue, e) = <<e>> /\ Len(queue) = 0
    BY <1>2
  <2> QED
    BY <1>1, <1>2, <2>1, <2>2 DEF Emitted

\* usb_task makes the host, or undoes what it made and ends, and says which.
LEMMA UsbStartsKeeps ==
  ASSUME StartInv, UsbStarts
  PROVE  StartInv'
<1> USE DEF StartInv, UsbStarts, InstallHost, CreateLibTask, RegisterClient,
        KeepOrUninstall, Fails, startVars
<1>1. /\ queue = <<>> /\ told = <<>>
      /\ usb \in {"install", "library", "register"}
      /\ usb' \in {"library", "register", "loop", "ended"}
  BY DEF OutcomeFirst
<1>2. /\ usb' = "loop" => queue' = Emitted("HOST_UP")
      /\ usb' = "ended" => queue' = Emitted("HOST_FAILED")
      /\ usb' \notin {"loop", "ended"} => queue' = queue
  BY <1>1
<1>3. \A e \in {"HOST_UP", "HOST_FAILED"} :
        /\ Emitted(e) \in Seq(EventKinds)
        /\ Emitted(e) = IF HasCallback THEN <<e>> ELSE <<>>
  BY <1>1, EmittedIs DEF EventKinds
<1>4. TypeOK'
  BY <1>1, <1>2, <1>3 DEF TypeOK, UsbPcs
<1>5. OneStart' /\ StartedSoFar'
  BY <1>1 DEF OneStart, StartedSoFar, Exist
<1>6. HostSoFar'
  BY <1>1 DEF TypeOK, HostSoFar
<1>7. OutcomeFirst'
  <2>1. HasCallback /\ usb' = "loop" => FirstThen("HOST_UP", "DEVICE", queue')
    BY <1>2, <1>3 DEF FirstThen
  <2> QED
    BY <1>1, <1>2, <1>3, <2>1 DEF OutcomeFirst
<1> QED
  BY <1>4, <1>5, <1>6, <1>7

\* The loop reports attachments only behind the outcome of the start.
LEMMA LoopKeeps ==
  ASSUME StartInv, Loop
  PROVE  StartInv'
<1> USE DEF StartInv, Loop, startVars, usbVars
<1>1. /\ queue' \in Seq(EventKinds) /\ ~HasCallback => queue' = queue
      /\ queue' \in {queue, Append(queue, "DEVICE")}
  BY EmittedIs DEF EventKinds
<1>2. TypeOK'
  BY <1>1, EmittedIs DEF TypeOK, EventKinds
<1>3. OneStart' /\ StartedSoFar' /\ HostSoFar'
  BY DEF OneStart, StartedSoFar, HostSoFar, Exist
<1>4. OutcomeFirst'
  <2>1. queue \in Seq(EventKinds)
    BY DEF TypeOK
  <2>2. FirstThen("HOST_UP", "DEVICE", queue) => FirstThen("HOST_UP", "DEVICE", queue')
    BY <1>1, <2>1 DEF FirstThen
  <2>3. Only("DEVICE", queue) => Only("DEVICE", queue')
    BY <1>1, <2>1 DEF Only
  <2> QED
    BY <1>1, <2>2, <2>3, EmittedIs DEF OutcomeFirst, EventKinds
<1> QED
  BY <1>2, <1>3, <1>4

\* The event task hands the events on in their order.
LEMMA DeliverKeeps ==
  ASSUME StartInv, Deliver
  PROVE  StartInv'
<1> USE DEF StartInv, Deliver, startVars, usbVars
<1>1. /\ queue \in Seq(EventKinds) /\ queue # <<>> /\ told \in Seq(EventKinds)
      /\ Head(queue) = queue[1] /\ Len(Tail(queue)) = Len(queue) - 1
      /\ \A i \in 1..Len(Tail(queue)) : Tail(queue)[i] = queue[i + 1]
  BY DEF TypeOK
<1>2. TypeOK'
  BY <1>1 DEF TypeOK
<1>3. OneStart' /\ StartedSoFar' /\ HostSoFar'
  BY DEF OneStart, StartedSoFar, HostSoFar, Exist
<1>4. OutcomeFirst'
  <2>1. HasCallback /\ usb \in {"loop", "ended"}
    BY <1>1, StartAssumption DEF OutcomeFirst
  <2>2. CASE usb = "ended"
    <3>1. told = <<>> /\ queue = <<"HOST_FAILED">>
      BY <1>1, <2>1, <2>2 DEF OutcomeFirst
    <3>2. told' = <<"HOST_FAILED">> /\ queue' = <<>>
      BY <3>1
    <3> QED
      BY <2>1, <2>2, <3>2 DEF OutcomeFirst
  <2>3. CASE usb = "loop" /\ told = <<>>
    <3>1. FirstThen("HOST_UP", "DEVICE", queue)
      BY <2>1, <2>3 DEF OutcomeFirst, FirstThen
    <3>2. FirstThen("HOST_UP", "DEVICE", told') /\ Only("DEVICE", queue')
      BY <1>1, <2>3, <3>1 DEF FirstThen, Only
    <3> QED
      BY <2>1, <2>3, <3>2 DEF OutcomeFirst
  <2>4. CASE usb = "loop" /\ told # <<>>
    <3>1. FirstThen("HOST_UP", "DEVICE", told) /\ Only("DEVICE", queue)
      BY <2>1, <2>4 DEF OutcomeFirst
    <3>2. FirstThen("HOST_UP", "DEVICE", told') /\ Only("DEVICE", queue')
      BY <1>1, <2>4, <3>1 DEF FirstThen, Only
    <3> QED
      BY <2>1, <2>4, <3>2 DEF OutcomeFirst
  <2> QED
    BY <2>1, <2>2, <2>3, <2>4
<1> QED
  BY <1>2, <1>3, <1>4

-----------------------------------------------------------------------------

\* Every step of the starters and of the tasks preserves the invariant.
LEMMA StartKeeps == ASSUME StartInv, [Next]_vars PROVE StartInv'
<1>1. CASE \E s \in Starters : Enter(s) \/ Starting(s)
  BY <1>1, EnterKeeps, CreateKeeps, TasksKeep, CleanupKeeps DEF Starting
<1>2. CASE UsbStarts
  BY <1>2, UsbStartsKeeps
<1>3. CASE Loop
  BY <1>3, LoopKeeps
<1>4. CASE Deliver
  BY <1>4, DeliverKeeps
<1>5. CASE UNCHANGED vars
  BY <1>5 DEF vars, startVars, usbVars, StartInv, TypeOK, OneStart, StartedSoFar, HostSoFar,
     OutcomeFirst, Exist, Only, FirstThen
<1> QED
  BY <1>1, <1>2, <1>3, <1>4, <1>5 DEF Next

\* The invariant of the start, for any callers, failures and attempts.
LEMMA StartInvariance == Spec => []StartInv
<1>1. Init => StartInv
  BY StartInit
<1>2. StartInv /\ [Next]_vars => StartInv'
  BY StartKeeps
<1> QED
  BY <1>1, <1>2, PTL DEF Spec

\* Concurrent and repeated calls of ptouch_usb_start leave one driver or nothing.
THEOREM StartsOneDriver == Spec => []OneDriverOrNothing
<1>1. StartInv => OneDriverOrNothing
  <2> SUFFICES ASSUME StartInv PROVE OneDriverOrNothing
    OBVIOUS
  <2>1. \A o \in Names : made[o] = IF handle[o] THEN 1 ELSE 0
    BY DEF StartInv, StartedSoFar
  <2>2. eventTask \in {0, 1} /\ (eventTask = 1 => \A o \in Names : handle[o])
    <3>1. CASE \E s \in Starters : pc[s] # "out"
      BY <3>1 DEF StartInv, StartedSoFar
    <3>2. CASE \A s \in Starters : pc[s] = "out"
      BY <3>2 DEF StartInv, OneStart, TypeOK
    <3> QED
      BY <3>1, <3>2
  <2>3. ~startCalled => eventTask = 0 /\ usb = "none" /\ \A o \in Names : made[o] = 0
    BY <2>1 DEF StartInv, OneStart, Exist, TypeOK
  <2>4. usb # "none" => eventTask = 1 /\ \A o \in Names : made[o] = 1
    BY <2>1 DEF StartInv, OneStart
  <2> QED
    BY <2>1, <2>2, <2>3, <2>4, NamesAre DEF OneDriverOrNothing
<1> QED
  BY <1>1, StartInvariance, PTL

\* usb_task gives back what it installed before it ends.
THEOREM FailedHostUndone == Spec => []FailedHostIsUndone
<1>1. StartInv => FailedHostIsUndone
  BY DEF StartInv, HostSoFar, FailedHostIsUndone
<1> QED
  BY <1>1, StartInvariance, PTL

\* The application's first event is the outcome of the start, with any queue.
THEOREM HostUpIsBarrier == Spec => []HostUpIsTheBarrier
<1>1. StartInv => HostUpIsTheBarrier
  BY StartAssumption, SMTT(30) DEF StartInv, TypeOK, HostSoFar, OutcomeFirst, FirstThen, HostUpIsTheBarrier
<1> QED
  BY <1>1, StartInvariance, PTL
=============================================================================
