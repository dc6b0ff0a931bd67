# esp32-brother-ptouch in TLA+

The repository is an ESP-IDF driver for Brother P-touch label printers on USB:
it builds a raster print job from a bitmap and sends it, and its hardest promise
is a negative one. A label that may have been printed is never sent twice, no
status command cancels a label that is being printed, and a job never reaches a
printer other than the one it was built for. This directory models the code that
keeps those promises, checks it with TLC on small instances, and proves every
safety property of the passing runs for all instances with TLAPS.

Paths are relative to the repository (`src/ptouch_usb.c` is the driver's main
file). `PROJECT.json` maps every definition to the lines it models and lists
runs, hazards, findings and theorems.

## 1. The system

| Component | Code | State | Operations |
|---|---|---|---|
| Attachment | `src/ptouch_usb.c`: `client_cb`, `usb_task`, `report_device_locked`, `emit`, `event_task` | pending address, pending removal, observed and claimed handle, profile, generation, device info, event queue | record a bus event; detach; attach, refuse or claim; report |
| Lease and gates | `src/ptouch_usb.c`: all `ptouch_usb_*` calls | `s_io_mtx`, application gate, output quarantine, terminal fault, open chain, status cache | print a job or a stream, raw bulk output, status with or without lease, inspection, clear, snapshots |
| Transfers | `submit_and_wait`, `cancel_timed_out_transfer`, `xfer_cb` | the transfer in flight, its semaphore, what is retained | submit, wait, halt, flush, clear, reclaim or retain |
| Completion | `src/ptouch_completion.c`, `status_txn_locked`, `wait_for_print_completion_locked` | tracker, frames seen | reset, observe; drain; wait |
| PackBits | `src/ptouch_raster.c` | literal run, repeat count | encode, decode, bound |
| Command builders, byte buffer, status parsing | `src/ptouch_raster.c` | a growing buffer | append, parse |
| Descriptor selection | `src/ptouch_usb_descriptor.c` | the interface being read, the pair found | one pass |
| Job builder | `src/ptouch_print.c` | layout, stream, frame list | admit, lay out, emit, free on failure |
| Catalog and media | `src/ptouch_model.c` | none (tables) | look up |
| Start-up | `ptouch_usb_start`, `usb_task` before its loop, host library task | start flag, queue, tasks, mutexes | create, undo, report |
| Example, host tests, oracle generator | `examples/`, `host/` | none of the driver's | — |

How they interact. `usb_task` delivers the host library's client messages to
`client_cb`, which takes no lock and only sets two flags; the loop body then acts
on them under the lease `s_io_mtx`. It may not wait for the lease: a lease holder
may itself be waiting for a transfer callback, which only `usb_task` can deliver.
So it tries and goes round again. Application tasks wait for the lease and hold it
over whole transactions, up to minutes for a print. The gates have a spinlock of
their own and may be written without the lease. The status cache has a mutex of
its own and is read without the lease by a poll that cannot get it.
`ptouch_usb_print_bitmap` takes a snapshot, builds the job *outside* the lease
and prints later. Events go through a queue of eight that drops when full.

What is hard: (1) a removal seen by `client_cb` while a print uses the device;
(2) an unplug and replug between snapshot, preflight and raster; (3) a print
failing after some chunks, with other tasks queued on the lease; (4) gates read
once and used later; (5) the printer's frames are unnumbered, so late replies and
notifications meet the wrong request or label; (6) the terminal fault, after which
nothing may be submitted; (7) readers of the cache during an attach or a detach;
(8) arithmetic at limits: run lengths, row counts, sizes, odd differences; (9) a
callback that comes after its waiter's timeout, into memory that may have been
freed and given to a later call; (10) a start that fails halfway, or is called twice.
`hazards` in `PROJECT.json` lists them line by line.

What makes each part correct:

* attachment: no two attachments share a generation; no device is closed under a
  transfer; a removed device is let go; events tell of real attachments in order;
* lease and gates: ambiguous output is quarantined before the lease is free; a
  status command reaches only a settled printer; raster reaches its target; no
  output passes a latched gate; nothing is submitted after the fault; calls return;
* transfers: a callback finds its memory, a waiter is woken by its own transfer, at
  most one transfer is retained, a late success is a success;
* completion: a confirmed label was printed;
* PackBits: lossless, within its scratch buffer, within its promised size;
* descriptor: the one pass decides a question about the whole list;
* job: announced rows are sent, a job is whole or empty and framed as the driver
  wants it, nothing overflows or is written past its memory, the image stays on the
  tape, and a tape that is reported compatible prints;
* start-up: one driver or nothing, and the first event says how it ended.

## 2. Modules

`PtouchTransport` EXTENDS `PtouchAttach`: their composition is the driver's
concurrent core, and `PtouchLedger` is the abstract specification it implements.
`PtouchTransfer` is one level below it and `PtouchStart` comes before it.
`PtouchJobStream` EXTENDS `PtouchJob`, which it implements, and that EXTENDS
`PtouchModel`. The others stand alone; each says in its head comment where it meets
the core. `MC*` modules name the model values of an instance and `*_proofs` hold the
theorems: `PtouchTransport_proofs` those of both modules of the core,
`PtouchJob_proofs` those of the job and its bytes, the others those of the module they
are named after.

**PtouchAttach** — the bus and the client queue (external), `client_cb`, and
`usb_task` as a program counter. One action per group of stores another task can
see between: a detach is `DetachClear` (handles, profile), `DetachRenumber`
(generation), `DetachFinish` (cache, device info, event, lease); an attach is
`AttachOpen` (snapshot of the new device, with its new generation), then
`AttachRefuse` or `AttachClaim`. A connection number stands for the USB address
and the handle; `bindings` records which generation was given to which connection.

**PtouchTransport** — the callers. A call is a path of `pc[t]` and the lease
holder's locals are the record `txn`. A transfer is `Submit`, after which
everything that needs no lease may happen, then one of its ends: accepted,
rejected, error status, timed out and reclaimed, or retained, which is the
terminal fault. `status_txn_locked` is the path txn/check → statusOut → statusIn
→ txnDone, shared by status calls and preflights, as in the code. The label `done:` of
`ptouch_usb_print_job_and_wait` has the three steps that others can see between:
`settle` (the quarantine is latched, or the chain set by a confirmation), `closing` (an
ambiguous print closes its chain) and `release` (of the lease). History variables: `unsettled`
(raster bytes were submitted and neither confirmed nor inspected), `chainConn`,
`inspected`. An operator follows the contract in `include/ptouch_usb.h`: inspect
only when quarantined, clear only after an idle inspection with no print call
running. A transfer that is given up after that makes the inspection void.

**PtouchStatusStream** — one printer's IN endpoint as a FIFO of frames. The
printer (external) answers requests when not printing, prints labels in order with
the printing, completed and receiving notifications, may fail, and sends notices
of its own. The driver's drain, completion wait and tracker are modelled frame by
frame; what ends on a frame drops the next one if it came in the same packet
(`DropPacket`). The frame limit of a transaction is tested after each frame, while the
code tests it after each packet, which may be one frame later. Each frame carries, as history, which request or label it is about.

**PtouchLedger** — what the driver promises about the label in the printer, with
five variables: what is on the wire, whether a label is in doubt, the quarantine,
the terminal fault, the open chain. Asking needs a printer that owes nothing, a
print needs open gates, doubt ends by confirmation or through the quarantine, and a
chain that is given up closes after the quarantine is there. The
refinement mapping in `PtouchTransport` reads the work off the lease holder's place
in the code (`WorkOf`, `Work`), the doubt off `unsettled` and the rest off the gates;
`KeepsLedger` is the abstract specification under it.

**PtouchTransfer** — what a lease holder does between two steps of `PtouchTransport`.
A transfer has three owners in turn: the call, the host library (`flying`), and its
queue of completions, whose callbacks only `usb_task` runs (`queue`). Transfers and
semaphores are addresses of a heap, allocated, freed and allocated again, so a late
callback can meet memory that now belongs to a later call. A timeout goes through
halt, flush, grace wait and clear, and any of them may return an error. `sound` is
chosen in `Init`: the library obeys what it is asked as long as the device is there,
and the grace period is long enough for the callback; if it is false, anything goes
and the transfer may be retained. `usb_task` here is its loop: it delivers
callbacks, tries for the lease, and never waits for it.

**PtouchStart** — `ptouch_usb_start` from any number of tasks, again after a failure:
the flag, the three objects, the two tasks, and the label `no_mem`, which undoes them;
then `usb_task` until its loop, with everything that may fail there, and `event_task`
delivering at the same time. What undoes the host may fail too: the code ignores the
result of `usb_host_uninstall`, and `refused` records it. `made` counts what exists in the heap, `handle` what the
driver knows of.

**PtouchPackBits**, **PtouchDescriptor** — pure algorithms as state machines whose
inputs are chosen in `Init` (a descriptor list is chosen item by item). PackBits has
the code's loop and its capacity test before each put; Descriptor the single pass. In
PackBits the width of a byte is 2 (`MaxRun` + 1), which keeps the code's relation
between 127, 128 and 256.

**PtouchModel** — the catalog `s_profiles` entry by entry, the tape table, and the
questions asked of them: is there a recipe, is this medium accepted, where is its
window. It has no state; its users are the job modules.

**PtouchJob** — the builder for any profile of the catalog: admission or refusal, the
layout, the choice and order of the frames by recipe, the rows, a failure at every
allocation. The code notes the chain of a job before the last refusals; here it is part
of the admission, since a refused job is empty and the validator takes no empty job. A
frame is known by what it is. `IntMax` is INT_MAX, so that a small value
brings the limits of the layout within reach.

**PtouchJobStream** — the same job with its bytes counted: the buffer that grows by
doubling, the appends and the size of every command, the table of frame ends, all in a
`size_t` of `SizeBits` bits. A step of `PtouchJob` that marks a frame is the whole
command here. It fails where the sum of the lengths or the table's size would wrap, or
where realloc may; where doubling would wrap, the capacity is what is needed.
`PackedSizes` stands for what PackBits may make of a row.

## 3. Runs

| Run | Instance | Shows |
|---|---|---|
| `calls` | 2 tasks, one plug, validated and recipe profiles, 2 chunks or packets; snapshot, job, bulk, status, inspect | the inductive invariant, quarantine of ambiguity, status only to a settled printer, open gates, confirmed chains, nothing after the fault, gates that open only for a settled label, the ledger is kept |
| `attachments` | 1 task, 2 plugs of an allowed or a refused model, queue of 2, callback installed; snapshot, job, the two ready snapshots, poll | raster reaches its target, device held, polled cache, events |
| `liveness` | 2 tasks, one plug, `print_and_wait` and polls, `FairSpec` | calls return, a removed device is released |
| `transfer` | 3 transfers, 2 semaphores, 2 chunks or packets, a sound and an unsound library, unplug and replug, `FairSpec` | the ownership invariant, callbacks into live memory, own wake-ups, one retained transfer at most, late success, endpoints come back, calls return |
| `start` | 2 tasks, queue of 2, callback installed, `FairSpec` | one driver or nothing, a failed host is undone, HOST_UP is a barrier, a start is answered |
| `stream` | both trackers, 2 labels, 4 requests, 2 notices, 1 unread reply | a confirmed label was printed; no request during printing |
| `packbits` | inputs to 11 bytes of 2 values, runs of at most 3, capacity to 6 short | lossless, bounded |
| `descriptor` | lists to 6 items, 2 interface numbers, 2 alternates | the pass equals the definition on whole lists |
| `job` | `IntMax` 9, `size_t` of 8 bits, first capacity 32, first table 4 words of 8; a printer of each recipe at the limits, and the whole catalog with every tape | rows, wholeness, overflow, window, compatible tapes, frames, memory |

Three more runs are expected to fail, and each is one of the findings of section 5.

Why the bounds are enough. *Tasks:* the lease lets one in at a time, so a second
task gives every queueing order and every stale read of a gate; the properties
relate a holder to at most one observer. *Plugs:* a replacement needs two; with one,
removal is still there, and the theorems cover any number. With two plugs one task
suffices, since the other party of every property in `attachments` is `usb_task`.
*Chunks and packets:* 2 gives a first, a last, and a failure between; 1 suffices
where the property is not about partial output. *Queue:* 2 against up to
four events of two plugs overflows. *Unread replies:* 1 is the limit
under which the tracker is safe, 2 the first value that breaks it (`late_replies`).
*FrameLimit 4, InvalidLimit 2:* large enough that a reply, notifications of one
label and a notice fit before the limit, small enough that it is reached.
*Transfers and semaphores:* 3 and 2. A status call holds two transfers and one
semaphore; with one more of each, a call may be given fresh memory or what an earlier
one has freed. *Chunks of `transfer`:* 2, a loop that goes on and a loop that ends.
*Starters:* 2, since the flag lets one in; each may start again. *Event queue of the
start:* 2, a first event, one behind it, and a full queue.
*Runs of 3, 11 bytes:* more than two full literal runs, repeats of every length
around the split, and both endings. *IntMax 9:* below the sum of two inputs, so the
overflow tests decide. *Eight bits of `size_t`:* the reset frame of 102
bytes makes the buffer double twice, the longest jobs reach the limits of the sum and
of the doubling, and the 17th frame that of the table. *Six descriptors:* two
interfaces with both endpoints each.
Task symmetry is used in `calls` only, which checks no liveness.
`CHECK_DEADLOCK FALSE` is set for the algorithm-like modules, which end, for
`PtouchStatusStream`, which stops at its bounds, and for `PtouchTransfer`, where after
the terminal fault the driver waits for a reboot; the transport and start runs check
deadlock.

Fairness (`FairSpec`). `usb_task` loops, so its step is weakly fair. A task with
the lease goes on, because every transfer ends by its callback, its timeout or its
retention, the status wait reads at most 16 frames and the completion wait has a
deadline: `HolderStep` and `PollStep` are weakly fair. Waiting for the lease is
strongly fair: it is a FreeRTOS mutex, and among waiters of one priority it goes to
the one that waited longest. Nothing is assumed of the bus, of what the application
calls, or of `usb_task`'s chances with its try-lock. That is why
`RemovedDeviceReleased` speaks of the time after the callers have become quiet: a
busy application can keep `usb_task` from the lease for ever, and the code does
nothing against it. The job call shares its preflight, raster, completion and
settle steps with `print_and_wait`, whose termination the run checks.

`PtouchTransfer` states what that rests on. The call runs on and its waits expire
(`CallStep`); the library reports the transfers of a device that has gone
(`ReportsGone`); `usb_task` leaves its try for the lease either way, and it delivers
what is in its queue, strongly fair because it visits its events again and again.
Nothing makes a transfer on a device that is there end by itself, and no library call
has to succeed; so a call returns because of its own timeouts. `PtouchStart` assumes that
the tasks that exist run. Nobody has to call the start, and nothing has to succeed.

## 4. Proofs

The passing runs check 31 invariants and 5 action or refinement properties, and a
theorem states each of them for all values of the constants; the liveness properties
are left to TLC. The assumptions are the modules' `ASSUME`s (lease owners are distinct,
chainable profiles are completion-validated, the legacy profile is allowed, bounds are
naturals) and, for two properties of the stream, the hypothesis `MaxUnread <= 1`, which
is explained there. Each inductive invariant was checked by TLC on the run's instance
before it was proved.

**The core.** `PtouchTransport_proofs` proves `Spec => []IInv` (`Invariance`) for any
tasks, profiles, plugs and frames, and from it ten of the properties above.

None of the safety properties is inductive. `IInv` adds what the code relies on
without saying so:

* `LeaseHeld`: exactly the owner of `s_io_mtx` is inside a locked section;
* `GatesOfCalls`, `ChainOfCalls`: a gate is read once at the entry of a call, and
  until the call settles only the lease holder can latch it. That is why the framed
  path may omit the tests between frames;
* `OutputAccounted`: unsettled output is quarantined, or belongs to the one print
  that is yet to settle, and that print knows (`txn.sent`, or a transfer in flight).
  Releasing the lease with neither is what it excludes;
* `DeviceOfCalls`, `AttachInv`: from its entry on, a print's device stays claimed,
  because a detach needs the lease; and at each point of `usb_task` the handles, the
  generation and `bindings` agree;
* `CarriedGenerations`: jobs and the cache carry a generation that was given to the
  connection they came from, and no generation is given twice, so equal generations
  mean the same attachment: the argument for `RasterReachesItsTarget` and
  `PolledCacheIsCurrent`.

There is one lemma per action (`...Keeps`), and `NextKeeps` combines them.
`NothingSubmittedAfterFault` is an action property: a submission happens at a point
where `GatesOfCalls` excludes the fault. `GateOpensOnlyWhenSettled` (`GateOpensSettled`)
is about the moments that only observers without the lease can see: at `closing` the
quarantine is latched, so closing the chain opens nothing. That a generation
names one attachment (`GenerationsAreUnique`) is part of `IInv`; the runs check it there.

`EventsTellTheTruth` is about what the application hears. `EventsInv` adds to it
what `usb_task` carries from one step to the next: while it attaches, the device
information it fills is that of the device it observed and of the generation it has just
drawn (`InfoOfTarget`), and no queued event is of a later generation than the current one,
or of the current one before the attach has told it (`ToldSoFar`). It needs `AttachInv`, since `usb_task` fills the device
information and emits the event in different steps.

**PackBits.** `PtouchPackBits_proofs`: each input byte is charged two output bytes, one
to put and one for a header; `BoundsInv` says that what was put and what is pending never
exceed the charge. So `EncodedFits` holds for inputs of any length, any `MaxRun` and any
byte alphabet. `EncodingIsLossless` is `RoundTrip` without bounds. The decoder is a
recursive function of the position; the induction is on sets of positions, backwards
from the end (`Backwards`, from the library's minimum principle for the naturals):
the recursion has a solution (`DecodedIs`), and a group put behind bytes that decode
adds what it stands for (`GroupAppended`). `LossInv` then says that at every step what
was put decodes to a prefix of the input, and that the pending literals or repeats are
what follows it.

**The stream.** `PtouchStatusStream_proofs` has `StreamTypeCorrect` for any number of
unread replies. The other two theorems assume that transactions leave at most one reply
unread; without that they are false, which is the finding `late_replies`. The frames
that can acknowledge a label are its phases. `Barrier(n)` says that every phase, waiting
or still to come, is ahead of the reply to request n: reading that reply leaves no phase
behind. `StreamInv` (`StreamInvariance`) says where there is a barrier. A settled driver
has one at its last request; an ordinary transaction begins with one at the request
before its own, so also the one late reply that it may read in place of its own has every
phase in front of it; an inspection has one at its own request once it has read a reply.
While a label is awaited (`AwaitInv`) all phases are that label's, in order and once, and
the tracker has seen those that do not wait. A driver that is not quarantined implies a
printer that has no phase left to send (`TodoSettled`), which is `NoStatusDuringPrinting`.

**The ledger.** `PtouchLedger_proofs` shows that the core implements the ledger (`DriverKeepsLedger`):
every step of a call, of `usb_task`, of the bus and of the application is a ledger step
or leaves it alone. `IInv` is not enough for that. `SettleInv` adds what a print
remembers between its first byte and its settlement: who has submitted has `sent` set or
a transfer in flight, it is confirmed only while the gates are open, and a continuation
settles the chain it continues, between its last two stores as well. `PromiseIsSafe` proves the ledger's own safety
without the driver, and `DriverIsSafe` carries it over.

**Transfers.** `PtouchTransfer_proofs`: `OwnershipInv` is inductive as it stands. Its parts are the
types; `MemoryAccounted`, what is allocated is the call's or retained; `FaultRetainsOne`;
and `OneOwner`, which says for each place of the call which of the three owners has the
transfer, that nobody else's transfer points to its semaphore, and that a token there
is from this transfer's callback. `CallbacksSafe`, `WaitersWokenRightly`, `NoLeaks` and
`LateSuccess` follow, for any heap, any number of chunks and an unsound library.
`EndpointsRecover` adds `EndpointInv`: with a sound library an endpoint is halted only
between the halt and the clear of a timeout that is being handled, or by a transfer's own
error.

**Start-up.** `PtouchStart_proofs`: `StartInv` says that a start under way is the only
one and has made exactly the objects before its place (`OneStart`, `StartedSoFar`), that
`usb_task` has made exactly the parts of the host before its own, those excepted that an
uninstall refused to take back (`HostSoFar`), and that
the outcome of the start is the first event in the queue or told (`OutcomeFirst`). An
event can be dropped only if another is queued, so the first never is.

**Descriptors.** `PtouchDescriptor_proofs`: `WalkInv` ties what the pass remembers, which
is one set of flags for all interfaces, to sets of positions of the whole list: the
current interface's flags tell which endpoints stand behind its descriptor, and `found`
whether an interface offers the pair. `PairIsTheOnlyOne` holds for lists of any length.

**Jobs.** `PtouchJob_proofs`: `LayoutInv` fixes the layout after admission; `RowsFit` bounds the
sums and the two centrings differ by less than the image's slack. `CompatibleTapesPrint`
rests on `WindowAssumption`, that a tape a profile takes has a window on its head; TLC
evaluates it on the whole catalog. `FramesInv` says which frames are out at each point:
the recipe's setup, then `RowsDone` rows, then the final command. None of the setup's
frames is a row, so the rows sent are those announced (`RowsAsAnnounced`), and a complete
job ends with the final command (`JobsAreWholeOrEmpty`). For the bytes, each step of the stream is one of the job
(`StreamImplementsJob`), so these theorems hold of it as well; `PutStaysWithin` says that an append keeps the
length within the capacity and the capacity within `size_t`, or latches `oom`;
`MemoryIsEnough` and `JobsAreFramed` follow at any width of `size_t`, for rows that
encode to any size.

Model-checked only: the liveness properties `CallsReturn`, `RemovedDeviceReleased`,
`CallReturns` and `StartIsAnswered`, because fairness is out of the prover's reach.

## 5. Findings

* `chain_unplug` — an open chain survives an unplug: the next attachment's first
  job is taken for its continuation and skips the preflight.
* `late_replies` — the reply to a request whose transaction gave up is accepted as the
  reply to the next one. With two such replies unread, the notifications of an
  abandoned label confirm the next label.
* `job_at_360` — the minimum length is computed with the bitmap's width in native
  dots and the minimum in 180-dpi dots; at 360 dpi the label comes out short.

Two more divergences are described and not runs. `include/ptouch_usb.h:136-137` says
that every call of `ptouch_usb_start` after the first returns `ESP_ERR_INVALID_STATE`;
after one that returned `ESP_ERR_NO_MEM` the flag is reset (`src/ptouch_usb.c:1264-1266`)
and the next may succeed, as `PtouchStart` has it. And the transaction after inspection
skips the chain gate together with the quarantine (`src/ptouch_usb.c:886`). If
another task clears the quarantine and prints a chained label while the inspection
waits for the lease, the inspection's ESC @ resets the chain, against the comment at
lines 58-60. It takes two operators inspecting at once, which the header's contract
rules out.

## 6. Not modelled

* That the transfer ends of `PtouchTransport` abstract the steps of `PtouchTransfer`
  is argued in the head comments and not shown by a refinement: the two share the lease
  holder's loop but not its variables.
* A call of the API that has passed its test of `s_io_mtx` while a failing start deletes
  the mutex (`src/ptouch_usb.c:1259`): `PtouchStart` has no API calls, and the other
  modules begin after a start that succeeded. The body of the host library task only
  runs the library. `boot_delay_ms` only delays.
* Byte content of commands, pixels, texts, option defaults, status field offsets: the
  host tests compare them with oracles byte for byte. The models have the commands'
  order and sizes.
* The cache's age limit: the clock may always have passed it, which refusing to serve
  covers. `ptouch_usb_attached` and `ptouch_usb_device_info` only read.
* The deprecated builders that copy a finished job, the example application, the host
  tests and the generators.

## 7. Plan

The order was: the attachment and the lease with its gates, their invariant and its
proof; the frame stream; the algorithms; then transfer ownership, the ledger and its
refinement, the start, the catalog, and the job's bytes; then the proofs of the
remaining safety properties. What is left, most important
first:

1. A common interface of `PtouchTransport` and `PtouchTransfer`, and the refinement
   between them.
2. The order of mode commands against what each recipe's printer expects.
