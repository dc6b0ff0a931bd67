------------------------------ MODULE PtouchStart ------------------------------
(***************************************************************************)
(* The driver's start (src/ptouch_usb.c): ptouch_usb_start, called from any *)
(* of the application's tasks and again after a failure, creates the two    *)
(* mutexes, the event queue, event_task and usb_task or undoes what it has  *)
(* created; usb_task then brings the USB host up or reports that it could   *)
(* not, while event_task already delivers.  PtouchAttach begins where this  *)
(* module leaves usb_task: in its loop.                                     *)
(***************************************************************************)
EXTENDS Naturals, Sequences

CONSTANTS
  Starters,      \* tasks that call ptouch_usb_start
  QueueLen,      \* length of the event queue (8 in the code)
  HasCallback    \* TRUE iff the application installed cfg.on_event

ASSUME StartAssumption == QueueLen \in Nat \ {0} /\ HasCallback \in BOOLEAN

VARIABLES
  startCalled,   \* s_start_called
  handle,        \* s_io_mtx, s_cache_mtx, s_event_queue: TRUE iff not NULL
  made,          \* how many of each exist in the heap
  eventTask,     \* how many event_tasks run
  usb,           \* where usb_task is; "none" before it is created, "ended" after
  host, lib, client,  \* the host library is installed, its task runs, the client is registered
  refused,       \* history: usb_host_uninstall did not do it
  queue,         \* events in s_event_queue
  told,          \* history: the events the application's callback has had, the first two
  pc, rc         \* where each starter is, and what its last call returned

startVars == <<startCalled, handle, made, eventTask, pc, rc>>
usbVars == <<usb, host, lib, client, refused>>
vars == <<startVars, usbVars, queue, told>>

\* In the order in which they are created; they are deleted from the last.
Objects == <<"io", "cache", "queue">>
Names == {Objects[i] : i \in DOMAIN Objects}
After(l) == CASE l = "io" -> "cache" [] l = "cache" -> "queue" [] l = "queue" -> "tasks"
Before(l) == CASE l = "freequeue" -> "freecache" [] l = "freecache" -> "freeio"
               [] l = "freeio" -> "reset"
Freed(l) == CASE l = "freequeue" -> "queue" [] l = "freecache" -> "cache" [] l = "freeio" -> "io"

Goto(s, l) == pc' = [pc EXCEPT ![s] = l]
Return(s, r) == Goto(s, "out") /\ rc' = [rc EXCEPT ![s] = r]

-----------------------------------------------------------------------------
(* ptouch_usb_start.                                                       *)

\* Mutant: the flag is tested and not set.
EnterUnmarked(s) ==
  /\ pc[s] = "out" /\ ~startCalled
  /\ Goto(s, "io")
  /\ UNCHANGED <<startCalled, rc, handle, made, eventTask, usbVars, queue, told>>

\* The flag is tested and set in one critical section.
Enter(s) ==
  /\ pc[s] = "out"
  /\ startCalled' = TRUE
  /\ IF startCalled THEN Return(s, "invalidState") ELSE Goto(s, "io") /\ UNCHANGED rc
  /\ UNCHANGED <<handle, made, eventTask, usbVars, queue, told>>

\* All three are attempted before any is tested.
Create(s, ok) ==
  /\ pc[s] \in Names
  /\ handle' = [handle EXCEPT ![pc[s]] = ok]
  /\ made' = IF ok THEN [made EXCEPT ![pc[s]] = @ + 1] ELSE made
  /\ Goto(s, After(pc[s]))
  /\ UNCHANGED <<startCalled, rc, eventTask, usbVars, queue, told>>

CreateEventTask(s, ok) ==
  /\ pc[s] = "tasks"
  /\ ok => \A o \in Names : handle[o]
  /\ eventTask' = IF ok THEN eventTask + 1 ELSE eventTask
  /\ Goto(s, IF ok THEN "usb" ELSE "freequeue")
  /\ UNCHANGED <<startCalled, rc, handle, made, usbVars, queue, told>>

\* usb_task may run before this call returns.
CreateUsbTask(s) ==
  /\ pc[s] = "usb"
  /\ usb' = "install"
  /\ Return(s, "ok")
  /\ UNCHANGED <<startCalled, handle, made, eventTask, host, lib, client, refused, queue, told>>

UsbTaskFails(s) ==
  /\ pc[s] = "usb"
  /\ eventTask' = eventTask - 1
  /\ Goto(s, "freequeue")
  /\ UNCHANGED <<startCalled, rc, handle, made, usbVars, queue, told>>

\* The label no_mem: the queue first, the I/O mutex last, then the flag.
Delete(s) ==
  /\ pc[s] \in {"freequeue", "freecache", "freeio"}
  /\ LET o == Freed(pc[s]) IN
       /\ made' = IF handle[o] THEN [made EXCEPT ![o] = @ - 1] ELSE made
       /\ handle' = [handle EXCEPT ![o] = FALSE]
       /\ queue' = IF o = "queue" THEN <<>> ELSE queue
  /\ Goto(s, Before(pc[s]))
  /\ UNCHANGED <<startCalled, rc, eventTask, usbVars, told>>

Reset(s) ==
  /\ pc[s] = "reset"
  /\ startCalled' = FALSE
  /\ Return(s, "noMem")
  /\ UNCHANGED <<handle, made, eventTask, usbVars, queue, told>>

-----------------------------------------------------------------------------
(* usb_task up to its loop, and event_task.                                *)

\* emit
Emitted(e) ==
  IF HasCallback /\ handle["queue"] /\ Len(queue) < QueueLen THEN Append(queue, e) ELSE queue

Fails == usb' = "ended" /\ queue' = Emitted("HOST_FAILED")

\* Mutant: a failed installation is only logged.
InstallQuietly(ok) ==
  /\ usb = "install"
  /\ host' = ok
  /\ usb' = IF ok THEN "library" ELSE "ended"
  /\ UNCHANGED <<startVars, lib, client, refused, queue, told>>

InstallHost(ok) ==
  /\ usb = "install"
  /\ host' = ok
  /\ IF ok THEN usb' = "library" /\ UNCHANGED queue ELSE Fails
  /\ UNCHANGED <<startVars, lib, client, refused, told>>

\* usb_host_uninstall after a failure; it may refuse, and its result is ignored.
KeepOrUninstall(ok) ==
  IF ok THEN UNCHANGED <<host, refused>> ELSE refused' \in BOOLEAN /\ host' = refused'

\* Mutant: HOST_UP before the client is registered.
UpTooEarly(ok) ==
  /\ usb = "library"
  /\ lib' = ok /\ KeepOrUninstall(ok)
  /\ IF ok THEN usb' = "register" /\ queue' = Emitted("HOST_UP") ELSE Fails
  /\ UNCHANGED <<startVars, client, told>>

CreateLibTask(ok) ==
  /\ usb = "library"
  /\ lib' = ok /\ KeepOrUninstall(ok)
  /\ IF ok THEN usb' = "register" /\ UNCHANGED queue ELSE Fails
  /\ UNCHANGED <<startVars, client, told>>

\* Mutant: the registration's failure does not undo what preceded it.
RegisterKeeps(ok) ==
  /\ usb = "register"
  /\ client' = ok
  /\ IF ok THEN usb' = "loop" /\ queue' = Emitted("HOST_UP") ELSE Fails
  /\ UNCHANGED <<startVars, host, lib, refused, told>>

RegisterClient(ok) ==
  /\ usb = "register"
  /\ client' = ok /\ lib' = ok /\ KeepOrUninstall(ok)
  /\ IF ok THEN usb' = "loop" /\ queue' = Emitted("HOST_UP") ELSE Fails
  /\ UNCHANGED <<startVars, told>>

\* The loop, which PtouchAttach models, emits the events of the devices.
Loop ==
  /\ usb = "loop"
  /\ queue' = Emitted("DEVICE")
  /\ UNCHANGED <<startVars, usbVars, told>>

\* event_task takes an event and calls on_event with it.
Deliver ==
  /\ eventTask > 0 /\ queue # <<>>
  /\ queue' = Tail(queue)
  /\ told' = IF Len(told) < 2 THEN Append(told, Head(queue)) ELSE told
  /\ UNCHANGED <<startVars, usbVars>>

-----------------------------------------------------------------------------

Init ==
  /\ startCalled = FALSE
  /\ handle = [o \in Names |-> FALSE] /\ made = [o \in Names |-> 0]
  /\ eventTask = 0 /\ usb = "none" /\ host = FALSE /\ lib = FALSE /\ client = FALSE
  /\ refused = FALSE
  /\ queue = <<>> /\ told = <<>>
  /\ pc = [s \in Starters |-> "out"] /\ rc = [s \in Starters |-> "none"]

\* The steps of a start that goes on.
Starting(s) ==
  \/ \E ok \in BOOLEAN : Create(s, ok) \/ CreateEventTask(s, ok)
  \/ CreateUsbTask(s) \/ UsbTaskFails(s) \/ Delete(s) \/ Reset(s)

UsbStarts == \E ok \in BOOLEAN : InstallHost(ok) \/ CreateLibTask(ok) \/ RegisterClient(ok)

Next == (\E s \in Starters : Enter(s) \/ Starting(s)) \/ UsbStarts \/ Loop \/ Deliver

Spec == Init /\ [][Next]_vars

\* The tasks the driver creates run; nobody has to call ptouch_usb_start.
Fairness == WF_vars(UsbStarts) /\ WF_vars(Deliver) /\ \A s \in Starters : WF_vars(Starting(s))

FairSpec == Spec /\ Fairness

-----------------------------------------------------------------------------
(* Properties.                                                             *)

\* However many tasks call, and wherever a start fails: what exists is what the
\* handles name, once; event_task runs only on a queue that exists; and when no start
\* is under way or done nothing is left behind.
OneDriverOrNothing ==
  /\ \A o \in Names : made[o] = IF handle[o] THEN 1 ELSE 0
  /\ eventTask <= 1 /\ (eventTask = 1 => handle["queue"])
  /\ ~startCalled => eventTask = 0 /\ usb = "none" /\ \A o \in Names : made[o] = 0
  /\ usb # "none" => eventTask = 1 /\ \A o \in Names : made[o] = 1

\* usb_task ends with the USB host as it found it, unless the library itself refuses to
\* go: nothing installed keeps the PHY, no task calls into an uninstalled library and no
\* client stays registered (ptouch_usb.c:1157-1178).
FailedHostIsUndone == usb = "ended" => (host => refused) /\ ~lib /\ ~client

\* The first event the application gets says how the start ended, it gets that only
\* once, and HOST_UP only with the library task and the client there, before any
\* device's event (ptouch_usb.c:1180).
HostUpIsTheBarrier ==
  \A i \in DOMAIN told :
    /\ told[i] \in {"HOST_UP", "HOST_FAILED"} <=> i = 1
    /\ told[i] = "HOST_UP" => host /\ lib /\ client
    /\ told[i] = "HOST_FAILED" => usb = "ended"

\* A start that returned ESP_OK is answered: the application hears HOST_UP or
\* HOST_FAILED, whatever the loop goes on to emit (ptouch_usb.h:135).
StartIsAnswered ==
  HasCallback => \A s \in Starters : rc[s] = "ok" ~> told # <<>>
-----------------------------------------------------------------------------
(* The inductive invariant behind the safety properties, in named parts.    *)

StartPcs == Names \cup {"out", "tasks", "usb", "freequeue", "freecache", "freeio", "reset"}
UsbPcs == {"none", "install", "library", "register", "loop", "ended"}
EventKinds == {"HOST_UP", "HOST_FAILED", "DEVICE"}

\* Every variable keeps its type.
TypeOK ==
  /\ startCalled \in BOOLEAN /\ handle \in [Names -> BOOLEAN] /\ made \in [Names -> Nat]
  /\ eventTask \in Nat /\ usb \in UsbPcs
  /\ host \in BOOLEAN /\ lib \in BOOLEAN /\ client \in BOOLEAN /\ refused \in BOOLEAN
  /\ queue \in Seq(EventKinds) /\ told \in Seq(EventKinds)
  /\ pc \in [Starters -> StartPcs] /\ rc \in [Starters -> {"none", "ok", "noMem", "invalidState"}]

Exist(objects) == \A o \in Names : handle[o] => o \in objects

\* The flag admits one start at a time, and none beside a driver that is up.
OneStart ==
  /\ \A s, t \in Starters : pc[s] # "out" /\ pc[t] # "out" => s = t
  /\ \A s \in Starters : pc[s] # "out" => startCalled /\ usb = "none"
  /\ startCalled /\ (\A s \in Starters : pc[s] = "out") => usb # "none"
  /\ ~startCalled => usb = "none" /\ eventTask = 0 /\ Exist({})
  /\ usb # "none" => eventTask = 1 /\ \A o \in Names : handle[o]

\* What there is while a start, or its undoing, is at each of its steps.
StartedSoFar ==
  /\ \A o \in Names : made[o] = IF handle[o] THEN 1 ELSE 0
  /\ \A s \in Starters :
       /\ pc[s] = "usb" => eventTask = 1 /\ \A o \in Names : handle[o]
       /\ pc[s] \notin {"out", "usb"} => eventTask = 0
       /\ pc[s] \in {"io", "reset"} => Exist({})
       /\ pc[s] \in {"cache", "freeio"} => Exist({"io"})
       /\ pc[s] \in {"queue", "freecache"} => Exist({"io", "cache"})

\* usb_task has installed what its place says.
HostSoFar ==
  /\ usb \in {"none", "install"} => ~host /\ ~lib /\ ~client
  /\ usb = "ended" => (host => refused) /\ ~lib /\ ~client
  /\ usb = "library" => host /\ ~lib /\ ~client
  /\ usb = "register" => host /\ lib /\ ~client
  /\ usb = "loop" => host /\ lib /\ client

Only(kind, q) == \A i \in 1..Len(q) : q[i] = kind
FirstThen(kind, next, q) == q # <<>> /\ q[1] = kind /\ \A i \in 2..Len(q) : q[i] = next

\* Nothing is said before the outcome, which is first to be said and is never dropped.
OutcomeFirst ==
  /\ ~HasCallback \/ usb \notin {"loop", "ended"} => queue = <<>> /\ told = <<>>
  /\ HasCallback /\ usb = "ended" =>
       \/ told = <<>> /\ queue = <<"HOST_FAILED">>
       \/ told = <<"HOST_FAILED">> /\ queue = <<>>
  /\ HasCallback /\ usb = "loop" =>
       \/ told = <<>> /\ FirstThen("HOST_UP", "DEVICE", queue)
       \/ FirstThen("HOST_UP", "DEVICE", told) /\ Only("DEVICE", queue)

StartInv == TypeOK /\ OneStart /\ StartedSoFar /\ HostSoFar /\ OutcomeFirst
=============================================================================
