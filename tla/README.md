# hidra in TLA+

hidra is a HID library with one asynchronous API over five backends: hidraw
(Linux), nusb (any USB host), IOKit (macOS), the Windows HID API and WebHID.
The backends differ in almost nothing a caller sees and in almost everything
below: where a report comes from, which thread carries it, how a task that
waits for one is woken, and who counts the report ID. Paths below are relative to
the repository; the library is `src/`. This development models the waiting and waking
of each backend, one module per mechanism; the way from enumeration through `open` to
transfers on all five, as one module against one abstract device; and the report
descriptors, parsed and rebuilt. It checks them with TLC and proves the invariants
that matter most with TLAPS.

## Inventory

| component | source | state it keeps | operations |
|---|---|---|---|
| report queue (macOS, nusb) | `src/backend/queue.rs` | `reports`, `wakers` under a mutex; atomics `disconnected`, `shutdown` | `push`, `set_disconnected`, `set_shutdown`, `wake_parked`, `poll_read` |
| blocking executor | `src/maybe_future.rs` | the thread's park token | `block_on`: poll, park, unpark; `Blocking`: runs its closure at the first poll |
| hidraw device, poll reactor | `src/backend/hidraw.rs`, `reactor.rs` | a descriptor per handle; `interests` (number -> wakers), an eventfd, a `pollfds` snapshot | `open`, `read_async`, `write`, feature reports, `Drop`; `register`, `deregister`, `run` |
| nusb device | `src/backend/nusb.rs` | a report queue, a reader thread, one interrupt IN transfer | `open` (with or without endpoint), reads, `write` and control transfers, `Drop` joins the thread |
| macOS device | `src/backend/macos.rs` | a report queue, a run loop thread, `run_loop`/`ready` under a mutex | `open` with a start barrier, report and removal callbacks, `Drop` unregisters, stops and joins |
| Windows device | `src/backend/windows.rs` | one overlapped `ReadFile` (`pending`, OVERLAPPED, event), `wait`, `wait_registered`, one waker; one overlapped write | `poll_read`, `park_read`, the wait callback, timed `write`, control transfers, `Drop` |
| WebHID device | `src/backend/webhid.rs` | a `RefCell` queue of 64, wakers, an event listener; cached collections | `start_reading`, `try_read`, `read`, listeners dropped or leaked |
| dispatch and public API | `src/lib.rs`, `src/backend/mod.rs` | `device_list` as of the last refresh | `open` = enumerate, find, `open_path`; everything else forwards |
| descriptor items, parser, builder | `src/descriptor/` | parser: global and local items, a stack, open collections | parse, build, lengths of reports |
| descriptor reconstruction | `src/report_info.rs`, `windows.rs` | none | encode a collection tree so that it parses back |
| device info, errors | `src/device_info.rs`, `src/error.rs` | none | `matches`, `per_usage` |
| tests, examples | `e2e/`, `examples/` | | what the backends promise, as executable text |

**How they interact.** A read is a future the caller polls. On macOS and nusb it
polls a `ReportQueue` that another thread fills; on hidraw it polls the
descriptor and leaves its waker with one reactor thread that all handles of the
process share; on Windows it polls the one background `ReadFile` and leaves its
waker for a thread-pool callback; on WebHID everything runs on one thread, driven
by events. Reads borrow the handle, so `Drop` never meets an outstanding read,
but it does meet the thread, the callback or the reactor. Dropped futures have
no `Drop` of their own: what they registered stays behind.

**What is hard.** Wake-ups: a reader looks, finds nothing and registers in
several steps, while whoever would wake it acts in several steps. Two readers of
one handle, which `src/lib.rs:350-351` allows. The end of a device: unplug, a
reader thread that stops, `Drop`, in any order with reads. State that outlives
what it is about: descriptor numbers the kernel reuses, wakers of dropped reads,
the signal of an auto-reset event. Bounded queues that overrun.

**What makes each part correct.**
queue: no wake-up and no report is lost, reports stay in order and are overrun
oldest first, every read ends once a flag is set, and all of that seen as one
atomic stream; reactor: it watches what readers parked on, and only that, and
unplugged reads end; nusb: a transfer is always in flight, `Disconnected` is
true and is not masked by the stop that follows it, `Drop` ends; Windows: the
reader that parked last stays watched, no `ReadFile` is issued over an unread
report, `Drop` leaves nothing armed or in flight; macOS: `Drop` can stop
the thread it joins, no false disconnect; WebHID: queue order and wakers; descriptors: what is built parses
back; enumeration: the handle opened is the device asked for, or an error.

`PROJECT.json` lists the hazards at their lines, with the properties that cover
each or the reason none does.

## Modules

| module | models | status |
|---|---|---|
| `ReportStream` | what a queued device promises: a lossy FIFO with an end | abstract specification |
| `ReportQueue` | `queue.rs`, and `block_on` as the reader | checked, proved |
| `ReportQueueProofs` | invariants of `ReportQueue`, and that it implements `ReportStream` | |
| `Hidraw` | `reactor.rs`, the reads, open and drop of `hidraw.rs` | checked, proved |
| `HidrawProofs` | invariants of `Hidraw` | |
| `NusbDevice` | reader thread, open and drop of `nusb.rs`; composes `ReportQueue` | checked, proved |
| `NusbDeviceProofs` | invariants of `NusbDevice`, and that its queue is a `ReportQueue` | |
| `WinRead` | reads and drop of `windows.rs` | checked, proved |
| `WinReadProofs` | invariants of `WinRead` | |
| `MacDevice` | open, read thread, callbacks and drop of `macos.rs`; composes `ReportQueue` | checked, proved |
| `MacDeviceProofs` | invariants of `MacDevice`, and that its queue is a `ReportQueue` | |
| `ReportContract` | the buffer conventions of `HidDeviceBackend` as one device | abstract specification |
| `Discovery` | `Hidra` and `HidBackend::open`; enumeration and `open_path` of the backends | checked and proved, in `WebSession` |
| `Session` | `Discovery`, then writes, feature and input reports on every backend | checked and proved, in `WebSession` |
| `WebSession` | `Session`, then open, close and the input report stream of WebHID | checked, proved |
| `DiscoveryProofs` | lemmas: what a call knows on its way from enumeration to a handle | |
| `SessionProofs` | invariants of `WebSession`, and that it implements `ReportContract` | |
| `DescriptorItems` | the lexer of `items.rs`, the encoder of `build.rs` | checked, in `DescriptorParser` |
| `DescriptorParser` | `parse.rs`, one action for each kind of item, and its queries | checked, proved |
| `DescriptorParserProofs` | how fields lie in their reports, what is accepted, and that fields are what their items declare | |
| `DescriptorStreams` | what a list of items declares, without a parser | reference definition |
| `ReportInfo` | the WebHID conversion and reconstruction | checked |
| `WinDescriptor` | the Windows reconstruction | checked |
| `MC...` | instances for TLC | |

### ReportQueue and ReportStream

`reports`, `wakers`, `disconnected` and `shutdown` are the fields. A mutex section
that nobody can observe in the middle is one action; `poll_read` is two
(`PollRead`, `PollPark`) because the notifiers store their flags *without* the
mutex, so they fall between its loads. A notification is `push` or a flag store
(`Push`, `SetDisconnected`, `SetShutdown`, `WakeParked`), then `TakeWakers` under
the mutex, then one `Wake` per waker outside it. A task is its waker. `pushed`
numbers the reports and `delivered` remembers what was read; both are history
for the properties only.

`ReportStream` has no wakers, locks or threads: reports are sent, answered in
order, dropped oldest first at capacity; a read fails only when the stream is
empty and gone, or stopped. The refinement mapping is at the end of
`ReportQueue`: `waiting` is the set of readers not idle, the rest are fields. The
run checks `Stream!Spec` whole, its liveness included.

### Hidraw

The readers (`PollNow`, `ReadNow`, `Park`, `ParkNudge`) are `try_read_now` and
`ReadAsync::poll`; the poll(2) that looks and the read(2) that follows are
separate actions, as are the insertion of an interest and the nudge after it.
`Open`, `Drop`, `DropNudge`, `Close` are the handle's life: the interest is
removed, the reactor nudged, then the number returned to the kernel, which may
give it to the next handle. The reactor is its loop: `Snapshot`, `EnterPoll`,
`PollReturns` (or `PollInterrupted`, `PollFails`), `Drain`, `Harvest`. poll(2) and
the descriptor table are external, modelled from how the code uses them: a sleeping
poll(2) holds the *files* it found at entry and looks the *numbers* up again
before it returns. What a report holds is not modelled; `queued` counts them.

### NusbDevice

An instance of `ReportQueue` with two notifiers: `Producer`, the reader thread,
and `Owner`, the thread that opens and drops. The loop is at `loop`, the
endpoint's transfer at `transfer`. `Complete` is external and gives any status
the code distinguishes. Calls on the queue take the queue's own steps, and the
caller goes on when they are done. A control-only open has no thread and shuts
the queue down first.

### WinRead

A reader holds the read lock from `start_read` to the end of `park_read`; the
callback does not take it, so each of its statements (`Fire`, `RestoreSignal`,
`ClearFlag`, `TakeWaker`, `Wake`) is an action, and so is each statement of
`park_read` it can meet (`StoreWaker`, `ClaimWait`, `Register`). `pending` is the
code's flag and `io` what the system knows. A completion sets the status and the
event; a wait that is satisfied consumes the signal. An outcome `aborted` is
Windows cancelling a read whose issuing thread ended, or `Drop` cancelling it.

### MacDevice

An instance of `ReportQueue` like `NusbDevice`. `loop` is the read thread; its callbacks
(`InputReport`, `Removal`, `RemovalStops`) run inside `"run"`, as the run loop runs
them. `runLoop` and `ready` are the fields of `ThreadState`. The two looks Drop takes
(`DropLooks`, `DropCopies`) and each thing it then does are actions of their own. External,
as the code's comments assume it: a stop reaches a run loop only while it runs, each
activation begins unstopped, a mode without sources finishes at once, and the device's source reaches the
mode some time after it is scheduled.

### Discovery, Session, WebSession and ReportContract

Three modules, each extending the last, for one program and one device.

`Discovery` is the world and the way to a handle. `at` says which device is at which
path, and a path is what the backend calls one: a hidraw node, a USB address, a registry entry
ID, an interface path. `job` is the call in progress: `BeginScan` lists the paths, each
`Visit` asks one of them, `Find` picks, `OpenNode` opens, `Describe` learns the
metadata; `Plug` and `Unplug` fall anywhere between. nusb's `open_path` lists the devices once more
to find the address (`ListNode`) and opens what has it by then. What each backend learns at a visit is its own
definition (`HidrawInfos`, `NusbInfos`, `MacInfos`, `WinInfos`), and so is what a
handle learns of its device (`HidrawDescribed`, `WinDescribed`): some look again at the path,
some hold the device, nusb keeps what the list said.

`Session` adds the calls. A call is refused (`Check`), waits for a lock (`Lock`), hands
over its bytes (`Submit`) and waits; the system carries, refuses or cancels the request.
Its bytes are the backend's layout (`HidrawBytes` to `WinFeatureBytes`), and what a getting
call returns is counted as the backend counts (`HidrawGot` to `WebGot`). A Windows write
has the steps of `write_timeout`: its short report lies in `staging` until the system reads it, it may
time out, `CancelIoEx` may come too late, and `GetOverlappedResult` reaps it. What lies below
the library (`OnWire`) is external: it is what makes five layouts one report.

`WebSession` adds the browser's device: it may be open or not, opens and closes by promises,
and its `stream` of reports is made by the first `read`. One thread: what a task does between
two awaits is one step. A stream's queue is shared with the `ReadFuture`s of it and outlives
the handle's share. `streams` keeps every one.

`ReportContract` is the device that `HidDeviceBackend` documents (`src/backend/mod.rs`): the report
arrives whole, once, before the call returns, success is told only of what arrived, and a
buffer holds the ID and then the report. It has no locks, requests, staging or
backends. The mapping, at the head of `Session`, takes `call` and `wire` as they are and reads
`gone` from the handle; everything else is a stutter.

### DescriptorItems, DescriptorParser and what feeds it

A descriptor is a sequence of prefixes and payload bytes. `DescriptorItems` has the table of tags, both directions:
`HeadItem` lexes, `Global`, `Local` and `Main` are the builder's methods. Every width is derived
from `U8`, how many values a byte has, 256 in the code. `DescriptorParser` is `Parser::run`: `rest` is what is not lexed,
`globals`, `global_stack`, `locals`, `collection_stack`, `offsets` and `reports` are the
parser's fields, and an item is one action. Its inputs come from three writers. A device's:
`DescriptorStreams`, which defines what a list of items declares by looking at the list ("the last
one set at a depth that no Pop has left") and compares that with what the parser found. The browser's:
`ReportInfo`, trees of collections with members left out, converted, encoded and parsed back.
Windows': `WinDescriptor`, the arrays of capabilities and link collections, encoded with the padding
that a report's declared length asks for, and parsed back. The two encoders recurse over
trees and are in modules of their own, so that `DescriptorParser` stays in reach of the prover.

## Runs

| run | asks | bounds |
|---|---|---|
| `report_queue` | lost wake-ups, duplicate wakers, order, loss, reads ending, refinement | 2 readers, 2 notifiers, cap 2, 3 reports |
| `hidraw` | stale interests, forgotten readers, a reactor asleep beside a reader | 2 tasks, 2 handles, 2 numbers, kernel queue of 1, symmetry |
| `hidraw_progress` | unplugged reads end, queued reports are read | 2 tasks, 2 handles sharing 1 number |
| `hidraw_drain` | expected violation, see below | as `hidraw_progress` |
| `hidraw_block` | expected violation, see below | as `hidraw_progress` |
| `nusb` | a silent device, a false or masked `Disconnected`, reads and `Drop` ending | 2 readers, cap 1, 2 reports |
| `win_read` | the forgotten reader, overwritten report, armed wait after `Drop`, a lone read ending | 2 tasks, 2 waits |
| `win_waker` | expected violation, see below | as `win_read` |
| `mac` | a thread Drop cannot stop, a false `Disconnected`, callbacks on the main loop, reads and `Drop` ending | 2 readers, cap 1, 2 reports |
| `mac_stop` | expected violation, see below | as `mac` |
| `descriptor` | fields that overlap, descriptors wrongly accepted or refused, values that leak, both round trips | some 9000 descriptors, bytes of 64 values |
| `session` | the wrong device opened, or reported missing; a report sent wrong, twice, late or for another; misread lengths; browser reads out of order | each of 5 backends: 2 devices on 2 paths, 2 tasks, symmetry |

**Why the bounds are enough.** Every race here is between one reader and one
notifier, or two readers and one notifier; a third task brings no new order,
since tasks are told apart nowhere. A cap of two under three reports overruns and
leaves a report to be read after the overrun; a cap of one under two is the same with
less to tell apart. Two handles and one number is the smallest reuse; two numbers
let a snapshot mix a current and a stale one. `WinRead` has no counters at all: it is
finite as it stands, and two waits let a reader register the next wait while the
callback of the last one runs. The bounds named in the modules are `MaxReport`
(reports of a behaviour), `KernelCap` (hidraw's kernel queue) and `Waits`.
`CHECK_DEADLOCK FALSE` is set for the nusb, Windows and macOS runs, where a closed
handle has nothing left to do, for `descriptor`, where parsing ends, and for `session`, where
the bounded calls are over.

`descriptor`: TLC's integers have 32 bits, so a full item does not fit. At `U8` = 64 the
widest item has 24, and every edge of the code is still there and is met: each encoded size, sign
bits, saturation of sizes and offsets, an ID wider than a byte, a page wider than two, usages that carry a page.
The streams are all words of up to three letters out of 18, between a field and either nothing or a
Pop and a second field: a leak needs a setter, a main item and something between. `MaxDepth` = 2, 64 in
the code: one of the trees is too deep, for which there is no descriptor to parse (`Rebuilds`).

`session`: `MaxEvents` (plugs and calls) is 4 natively: two plugs, an open and a transfer, or a
plug, an open and two concurrent transfers. Two devices on two paths are a path that changes
hands. In the browser it is 2, and `MaxTurns` = 4 bounds opens, closes and reads, a transfer
counting double. `MaxReports` = 3 overruns `QueueCapacity` = 2 (64 in the code) once. `ReportLen`
= 4 leaves room for two different short writes, which the race for `staging` needs, and for one
that is whole. Tasks are told apart nowhere: symmetry in `Callers` is sound, since all properties
of the run are safety properties.

**Fairness.** A thread inside a call is scheduled (weak). A thread that wants a
mutex gets it in the end (strong, since others may hold it whenever one looks).
The reactor, the reader threads and the wait callbacks run, as threads the library
starts or the pool provides; IOKit tells a pumped run loop of a removal, and a slice ends. A transfer or a `ReadFile` pending on a device that is
gone completes, and one that was cancelled for `Drop` completes; joins and blocking
unregistrations return when what they wait for has ended. Nobody is obliged to send a report, unplug,
read again, cancel or drop, so no property rests on one of those happening.

**What the expected violations show.**

- `hidraw_drain`: the trait promises `Disconnected` "once the device is gone and any
  queued reports have drained" (`src/backend/mod.rs:89-90`). `try_read_now` tests
  POLLERR and POLLHUP before it reads (`hidraw.rs:363`), and the kernel answers
  POLLIN and POLLERR together for a device unplugged with reports queued: those are lost. The
  queue of macOS and nusb keeps the promise (`ImplementsStream`).
- `hidraw_block`: "the read syscall only happens when the fd is already readable"
  (`hidraw.rs:536-537`). With two readers of one handle and one report, both may
  pass poll(2); the second sleeps in read(2), inside `Future::poll`.
- `win_waker`: "Either way the wake-up cannot be lost" (`windows.rs:879-880`). It
  is not lost between a reader and the callback (`LatestIsWatched`), but the slot
  holds one waker: with two readers of a handle the first one's is overwritten, and
  it stays parked even after an unplug.
- `mac_stop`: "the loop is broken by CFRunLoopStop on close/removal"
  (`macos.rs:651-652`). Not when Drop calls it between the thread's look at the flags and
  its entry into the run loop: the join then lasts until the slice of 1000 s ends. That it does
  end is `DropEnds`.

**What the passing runs show beside what they state.** These points of the code are facts of the
models, stated in the properties as they are rather than as a reader may hope:

- `open` says `DeviceNotFound` when the first device that matches goes between the
  enumeration and `open_path`, even if another one that matches stayed: it tries no
  second. `OpenIsHonest` allows this, with the path it chose among those that changed.
- Windows leaves out an interface that it cannot open and goes on without a string it cannot read, so a
  device that is there may be missed (`unread`). hidraw looks up a handle's metadata by
  node number after the node was opened: a node that is reused just then gives another device's;
  `OpenIsHonest` promises true metadata only while the device is there.
- nusb's `open_path` finds the address in a list (`nusb.rs:320-326`), opens that address (`360`) and keeps
  the list's metadata (`452`). If another device takes the address between the two, the handle is alive and its
  metadata is the other's; the code does not compare them. The `session` run reaches this with two plugs
  and an open, so `OpenIsHonest` promises nusb's metadata only where the path did not change
  hands during the call. Without that exception TLC refutes it.
- In the same way nusb's `enumerate` takes the identity from the list and the usages from whatever has the
  address at the visit (`NusbUsages`).
- A removed device is told as `Disconnected` by nusb and Windows; by macOS once its removal callback has
  run; by hidraw's `write` never, which passes the system's error on. `ReportContract` lets a call fail
  with either, but never with `Disconnected` while the device is there.
- In the browser, a `read` between `close` and the end of its promise starts a new stream, whose
  reports may be read after the next `open` (the comment at `src/lib.rs:789` says that the drop makes
  a reopen start a fresh listener); and a read parked on a stream that `close` dropped is woken by nothing.
  `WebReadsInOrder` therefore speaks of each stream by itself, and promises a waker only on the current one.
- The padding that Windows' reconstruction adds belongs to collection 0 and so comes before the fields of
  its children; the order of fields within a report may differ from the device's, as the method's
  docs say. `WinRoundTrip` compares fields as a bag and lengths exactly. A cap without an ID after one
  with an ID would inherit it: HID forbids mixing them and the inputs do not.
- The WebHID reconstruction is given usages that carry a page; one with page 0 would take the
  collection's. A unit system that this version does not know becomes none.
- The parser's runs and theorems speak of items as the builder encodes them, at their least width: a Usage of
  four bytes whose page is 0 is not among them.

## Proofs

All theorems hold for every value of the constants, from the named assumptions
in the modules only (`QueueAssumption`, `HidrawAssumption`, `NoneAssumption`, `ByteAssumption`, the
`DeviceAssumption` of each queued device, `DiscoveryAssumption`, `SessionAssumption`,
`WebAssumption`, `StreamsAssumption`; TLC evaluates them in every run). They say that counters and capacities are
natural numbers, that a byte has at least two values, that data are sequences of natural numbers, that there are finitely many paths, that
a stream is what the encoder makes of its items, and
that None is none of the values it stands beside. Every safety property of the runs but the two
round trips of the reconstructions is a theorem.

**ReportQueueProofs.** `TypeCorrect` is inductive once a notifier that is waking
is known to hold a waker (`NotifierInv`). `NoLostWakeup` is not inductive: it says
nothing of the moment between the look at an empty queue and the registration.
`IInv` adds that moment: whoever is
at `"empty"` is the reader that holds the mutex, the queue is empty while it does and
while any waker is registered, a flag set meanwhile means a notifier on its way to
`TakeWakers`, and a parked reader is registered or has its wake-up on the way. `QueueIsNewest` and
`LossOnlyAtCapacity` need only the types and what `Enqueue` and `Tail` do to a sequence.
`ImplementsStreamSafety` shows that each step is a step of `ReportStream` or a stutter;
that a read fails as stopped only when the queue is empty again needs `IInv`.

**HidrawProofs.** `Inv` is the type invariant, `FdInv` (handles that hold a number
hold different ones), `InterestsAreCurrent`, `ParkedIsRegistered` and `ReactorWatches`. The
last three are not inductive alone: that the reactor watches a parked reader's
device needs the reader to be registered, and that it is registered under the
*right* number needs the removal in `Drop` before the number is free, which
`InterestsAreCurrent` records. `Invariance` is one induction over the conjunction.

**WinReadProofs.** `FlagMeansOneWait`, `LatestIsWatched` and `DropIsOrderly` are inductive only together,
and with four facts more (`ReadInv`). `PendingInv`: `pending` is what the system has, and a
completion nobody has seen has its signal, in the event or in the hands of a callback that will put it back.
`SlotInv`: a reader past the store of its waker finds it in the slot, or a callback has taken it.
`WaitInv`: the armed wait is the one whose handle `park_read` kept. `OwnerInv`: Drop has the handle for
itself. The step that carries the weight is `ParkBehindWait`: a reader that finds the flag set
and relies on the wait of an earlier one. `UnreadReportSurvives` follows from the same invariant.

**NusbDeviceProofs, MacDeviceProofs.** Each instantiates the queue's proof module. `SameQueue` and
`QueueSteps` show that a device's step is a step of its queue or leaves the queue alone, hence
`DeviceUsesQueue`, and the queue's theorems hold of it (`NoReadSleepsOn` is one). The rest of
`DeviceInv` is the device's. nusb: `StoppedNeverMasksUnplug` rests on `MaskInv`, that
a read which saw `disconnected` unset and has yet to look at `shutdown` holds the mutex the thread
needs between the two flags. macOS: `DropKnowsLoop` rests on the barrier (`BarrierInv`: there is no
handle before the thread has published its run loop) and on when the thread takes the loop back
(`ThreadInv`); `DisconnectedIsTrue` on `StopInv` and `ShutdownInv`, that a run loop is stopped by Drop, which has
shut the queue down before, or by the removal.

**DiscoveryProofs.** `OpenIsHonest` speaks of the end of a call; `DiscoveryInv` of its way there. What the call
knows of a path was true when it began, or the path is among those that have changed (`CallInv`,
`FoundInv`); a device that is asked for, stayed and could be identified is still to be visited or
something was found (`MissInv`); what was chosen, and what is held, is what was asked for unless its path changed
(`PickInv`); what nusb has listed is at the path, and is what it then holds, unless the path changed (`CallInv`).
On macOS it cannot have changed hands: `MacInv`, an entry ID is used once. One lemma per action.

**SessionProofs.** `Inv` is `DiscoveryInv`, `SessionInv` and `WebInv`.
`TaskInv` ties a task's place to what it holds, `RequestInv` its request to its call: the bytes
that the system has are the layout of the call's buffer, a short Windows write's among them,
which lie in `staging` as long as the request may be read, since its writer has the lock until it has reaped it; and a
call is `sent` exactly when its request is `done`. `WebInv` adds to `WebReadsInOrder` that the latest report of the
current stream is the latest the device has sent, without which the next one could not
be shown to follow. `ContractImplemented` takes the steps one by one: `Begin` begins, `Carry` is the
contract's `Arrive`, `Check`, `Return` and `Reap` its `Return`, an unplug its `Unplug`, and the rest changes
nothing that the contract sees. Two groups of lemmas carry it. `CarryArrives`: whichever layout a backend
chose (ID kept, cut off, or padded with zeros), what the system puts on the wire is the
report of the buffer. `NusbMacFaithful`, `WinFaithful`, `WebFaithful`: wherever a backend puts the answer in the
caller's buffer, and whatever it counts, the caller finds the ID and then the report. All this holds for buffers and
answers of any length.

**DescriptorParserProofs.** `FieldsTile` with the shape of `reports` is inductive. Only `AddField`
matters: it makes a report when its key has no offset (`NewReport`) and otherwise extends the one report
of the key at that offset (`FurtherField`); that the key has an offset exactly when it has a report, and then
one, is part of the invariant. How sizes add up and saturate is not expanded, so the
theorem holds for every `U8` and all inputs.
`AcceptsBalanced` speaks of the end of a parse and of a whole list of items; `BalanceInv` says that a running parser has
read some n of them: what is left is the bytes from item n + 1 on (`HasRead`), and the heights of its two stacks are
what those n have begun less what they have ended (`Nested`). `LexLength` and `LexTag` are what the step to n + 1 rests on:
the lexer finds the encoder's item, of its length and tag, unless a part of it is lost, and then it says so.
`FlattenLays`, where each item lies, is an induction over the number of items. The library's induction
theorems take an operator, so `NaturalsByStep` states induction for a set, from the well-foundedness of `<`.
`FieldsAsDeclared` also needs the values. `LexValue` is their round trip: an unsigned value of 32 bits cut into
the fewest of 0, 1, 2 or 4 bytes that hold it (`LeBytes`) is what `Unsigned` puts together again, and a signed one what
`Signed` extends the sign of; `BytesMake` and `SignExtends` are the arithmetic, for any `U8`. `FieldsInv` then
says of a running parser that its state is what the n items read tell (`Told`), by definitions
that look at the list alone: its globals are those in force (`GlobalsAt`), its locals those since the last main item
(`LocalsAre`), its reports those declared so far (`ReportsDeclared`), and state k of its stack is what was in
force at the Push that went to depth k and has been open since (`StackIs`). The last is what makes the invariant inductive:
without it nothing is known of what a Pop puts back. `GlobalRestored` shows that this is what the list says: what was
set inside is left with its depth. `PlaceNext` keeps fields and usages in order as one is added, and that a report
is found by its key is taken from the invariant of `FieldsTile`.

**Only model-checked:** every liveness property (fairness and `ENABLED` are out of
the prover's reach), so also the liveness half of the stream's refinement; and `WebRoundTrip` and
`WinRoundTrip`. `ReportInfo` and `WinDescriptor` recurse over trees of collections, and what a recursive definition
computes for every input is induction over data.

## Not modelled

String requests, container and location queries and the access to the device's descriptor change
nothing and are left out, as are the extension traits of the platforms, which forward a call. `forget`,
`on_input_report`, connection events and streams that a page starts itself beside `read` are
outside `WebSession`. `Blocking` runs its closure in one poll; a future dropped in the middle of a
call is modelled for reads (`WinRead`, `WebSession`, `Hidraw`) and not for transfers.

Executors that poll a task from inside `Waker::wake`, panicking
wakers and poisoned mutexes are left out; the hazards name them. The cost of a loop
that spins (a fault resubmitted at once by nusb, a stale signal on Windows) is a matter of
time, which the models do not have. The wording of errors and debug output has no
behaviour; errors are told apart as far as a caller can (`invalid`, `disconnected`,
`not_found`, any other).

Simplifications inside the models: hidraw reads a node's uevent and its descriptor in one
step; the ways in which a Windows open fails are one; a Windows device that does not give its
attributes gives no string either; `Hidra`'s list is dropped when calls on the handle
begin; a session has one handle, so what two handles of one device do to each other is only
in `Hidraw`. A caller's buffer for a descriptor is taken to be large enough (`src/lib.rs:460` says that 4096 bytes always are).

## Plan

Done: all modules above, and the proofs of every component that moves: queue, hidraw, nusb, Windows, macOS,
discovery, transfers and the browser.

All safety properties of these are theorems as well, and so is what the parser finds in a descriptor. Left to the
model checker are the two reconstructions, as said above; a proof about them would begin by writing their
recursion over trees as one over the flat list of items that they emit.
