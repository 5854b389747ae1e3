----------------------------- MODULE ReportQueue -----------------------------
(***************************************************************************)
(* The bounded input-report queue of src/backend/queue.rs, shared by the   *)
(* nusb and macOS backends, with the tasks that poll it.                   *)
(*                                                                         *)
(* `readers` are the tasks awaiting a read future; a task is one waker     *)
(* (Waker::will_wake tells tasks apart) and one wake-up token: unpark for  *)
(* block_on, the run queue of an executor otherwise.  `notifiers` are the  *)
(* threads that call push, set_disconnected, set_shutdown or wake_parked:  *)
(* the backend's reader thread and the thread that drops the device.       *)
(*                                                                         *)
(* A step ends where another thread can see the difference: poll_read      *)
(* holds the mutex between the loads of the two atomic flags, and a        *)
(* notifier stores a flag without the mutex, takes the parked wakers under *)
(* it, and calls them one at a time after releasing it.                    *)
(***************************************************************************)
EXTENDS Integers, Sequences, Functions

CONSTANTS
  Readers,           \* tasks that poll reads
  Notifiers,         \* threads that push reports or set flags
  NoReader,          \* nobody is inside poll_read's critical section
  MaxQueuedReports,  \* MAX_QUEUED_REPORTS: 30 in the code
  MaxReport          \* bound: reports pushed in one behaviour

ASSUME QueueAssumption ==
  /\ NoReader \notin Readers
  /\ MaxQueuedReports \in Nat \ {0}
  /\ MaxReport \in Nat

VARIABLES
  reports,        \* Inner.reports, oldest first; the k-th report pushed is the number k
  wakers,         \* Inner.wakers: tasks registered to be woken
  disconnected,   \* the sticky flag "device is gone"
  shutdown,       \* the sticky flag "producer stopped, or must stop"
  holder,         \* the reader that holds the mutex across a step
  pc,             \* where each reader is in its read
  failure,        \* the error each reader's latest poll_read ended with, if any
  token,          \* a wake-up is pending for this task
  npc,            \* where each notifier is in its call
  taken,          \* wakers a notifier took from the queue and has yet to call
  pushed,         \* history: how many reports were pushed
  delivered       \* history: the reports some read returned

queueVars == <<reports, wakers, disconnected, shutdown, pushed, delivered>>
readerVars == <<holder, pc, failure, token>>
notifierVars == <<npc, taken>>
vars == <<reports, wakers, disconnected, shutdown, holder, pc, failure, token,
          npc, taken, pushed, delivered>>

\* "poll": about to poll (or to lock the mutex); "empty": holds the mutex, found no
\* report and `disconnected` clear; "parked": poll returned Pending.
ReaderStates == {"idle", "poll", "empty", "parked"}
Failures == {"none", "disconnected", "stopped"}
\* "take": in wake_parked, before its critical section; "wake": in wake_all.
NotifierStates == {"idle", "take", "wake"}

Init ==
  /\ reports = <<>>
  /\ wakers = <<>>
  /\ disconnected = FALSE
  /\ shutdown = FALSE
  /\ holder = NoReader
  /\ pc = [r \in Readers |-> "idle"]
  /\ failure = [r \in Readers |-> "none"]
  /\ token = [r \in Readers |-> FALSE]
  /\ npc = [n \in Notifiers |-> "idle"]
  /\ taken = [n \in Notifiers |-> <<>>]
  /\ pushed = 0
  /\ delivered = {}

-----------------------------------------------------------------------------
(* Notifiers *)

\* Mutants of Enqueue: the cap is off by one; a full queue refuses the new report;
\* the oldest goes one report too early.
EnqueueBeyondCap(queue, report) ==
  Append(IF Len(queue) > MaxQueuedReports THEN Tail(queue) ELSE queue, report)
EnqueueRefused(queue, report) ==
  IF Len(queue) >= MaxQueuedReports THEN queue ELSE Append(queue, report)
EnqueueEarlyDrop(queue, report) ==
  Append(IF Len(queue) >= MaxQueuedReports - 1 /\ queue # <<>> THEN Tail(queue) ELSE queue, report)

(* push's critical section drops the oldest report beyond the cap. *)
Enqueue(queue, report) ==
  Append(IF Len(queue) >= MaxQueuedReports THEN Tail(queue) ELSE queue, report)

\* Mutant of TakeParked: only the task that parked first is woken.
TakeFirstParked(n) ==
  /\ taken' = [taken EXCEPT ![n] = IF wakers = <<>> THEN <<>> ELSE <<Head(wakers)>>]
  /\ npc' = [npc EXCEPT ![n] = IF wakers = <<>> THEN "idle" ELSE "wake"]
  /\ wakers' = IF wakers = <<>> THEN <<>> ELSE Tail(wakers)

(* Leave a critical section with the parked wakers, to be called outside it. *)
TakeParked(n) ==
  /\ taken' = [taken EXCEPT ![n] = wakers]
  /\ npc' = [npc EXCEPT ![n] = IF wakers = <<>> THEN "idle" ELSE "wake"]
  /\ wakers' = <<>>

Push(n) ==
  /\ npc[n] = "idle"
  /\ holder = NoReader
  /\ pushed < MaxReport
  /\ pushed' = pushed + 1
  /\ reports' = Enqueue(reports, pushed + 1)
  /\ TakeParked(n)
  /\ UNCHANGED <<disconnected, shutdown, delivered, readerVars>>

\* Mutant of StartWakeParked: the flag is stored and nobody is woken for it.
StartNothing(n) ==
  /\ npc[n] = "idle"
  /\ UNCHANGED <<npc, taken>>

(* wake_parked begins, with nothing stored before it. *)
StartWakeParked(n) ==
  /\ npc[n] = "idle"
  /\ npc' = [npc EXCEPT ![n] = "take"]
  /\ UNCHANGED taken

SetDisconnected(n) ==
  /\ StartWakeParked(n)
  /\ disconnected' = TRUE
  /\ UNCHANGED <<reports, wakers, shutdown, pushed, delivered, readerVars>>

SetShutdown(n) ==
  /\ StartWakeParked(n)
  /\ shutdown' = TRUE
  /\ UNCHANGED <<reports, wakers, disconnected, pushed, delivered, readerVars>>

(* wake_parked called on its own, by a producer winding down. *)
WakeParked(n) ==
  /\ StartWakeParked(n)
  /\ UNCHANGED <<queueVars, readerVars>>

(* wake_parked's critical section, entered when no reader holds the mutex. *)
TakeWakers(n) ==
  /\ npc[n] = "take"
  /\ holder = NoReader
  /\ TakeParked(n)
  /\ UNCHANGED <<reports, disconnected, shutdown, pushed, delivered, readerVars>>

(* wake_all calls the next waker; waking a task that is not parked leaves a *)
(* token, which makes its next park return at once.                         *)
Wake(n) ==
  /\ npc[n] = "wake"
  /\ token' = [token EXCEPT ![Head(taken[n])] = TRUE]
  /\ taken' = [taken EXCEPT ![n] = Tail(@)]
  /\ npc' = [npc EXCEPT ![n] = IF Len(taken[n]) = 1 THEN "idle" ELSE "wake"]
  /\ UNCHANGED <<queueVars, holder, pc, failure>>

-----------------------------------------------------------------------------
(* Readers *)

(* A read future is created and polled for the first time. *)
Read(r) ==
  /\ pc[r] = "idle"
  /\ pc' = [pc EXCEPT ![r] = "poll"]
  /\ failure' = [failure EXCEPT ![r] = "none"]
  /\ UNCHANGED <<queueVars, notifierVars, holder, token>>

(* A read with an empty buffer fails before the mutex is touched: it can   *)
(* take no report, and leaves no waker.                                    *)
ReadIntoEmptyBuffer(r) ==
  /\ pc[r] = "idle"
  /\ UNCHANGED vars

Return(r, how) ==
  /\ pc' = [pc EXCEPT ![r] = "idle"]
  /\ failure' = [failure EXCEPT ![r] = how]

\* Mutant of GoneAndDrained: the flag is looked at before the queue.
GoneAtOnce == disconnected

(* Queued reports drain even after a disconnect. *)
GoneAndDrained == reports = <<>> /\ disconnected

(* poll_read up to the load of `disconnected`: a queued report is returned *)
(* whatever the flags say; otherwise the mutex stays held.                 *)
PollRead(r) ==
  /\ pc[r] = "poll"
  /\ holder = NoReader
  /\ \/ /\ reports # <<>>
        /\ reports' = Tail(reports)
        /\ delivered' = delivered \cup {Head(reports)}
        /\ Return(r, "none")
        /\ UNCHANGED holder
     \/ /\ GoneAndDrained
        /\ Return(r, "disconnected")
        /\ UNCHANGED <<reports, delivered, holder>>
     \/ /\ reports = <<>> /\ ~disconnected
        /\ holder' = r
        /\ pc' = [pc EXCEPT ![r] = "empty"]
        /\ UNCHANGED <<reports, delivered, failure>>
  /\ UNCHANGED <<wakers, disconnected, shutdown, pushed, token, notifierVars>>

\* Mutant of Register: no will_wake test.
RegisterAgain(registered, r) == Append(registered, r)

(* One waker per task, however often it is polled while parked. *)
Register(registered, r) ==
  IF r \in Range(registered) THEN registered ELSE Append(registered, r)

(* The rest of poll_read: load `shutdown`, then fail or park; unlock. *)
PollPark(r) ==
  /\ pc[r] = "empty"
  /\ holder' = NoReader
  /\ \/ /\ shutdown
        /\ Return(r, "stopped")
        /\ UNCHANGED wakers
     \/ /\ ~shutdown
        /\ wakers' = Register(wakers, r)
        /\ pc' = [pc EXCEPT ![r] = "parked"]
        /\ UNCHANGED failure
  /\ UNCHANGED <<reports, disconnected, shutdown, pushed, delivered, token, notifierVars>>

(* thread::park returns, or the executor polls the woken task. *)
Woken(r) ==
  /\ pc[r] = "parked"
  /\ token[r]
  /\ token' = [token EXCEPT ![r] = FALSE]
  /\ pc' = [pc EXCEPT ![r] = "poll"]
  /\ UNCHANGED <<queueVars, notifierVars, holder, failure>>

(* park may return spuriously; a task may be polled for another of its futures. *)
SpuriousWake(r) ==
  /\ pc[r] = "parked"
  /\ ~token[r]
  /\ token' = [token EXCEPT ![r] = TRUE]
  /\ UNCHANGED <<queueVars, notifierVars, holder, pc, failure>>

(* The future is dropped between polls.  It has no Drop: its waker stays. *)
Cancel(r) ==
  /\ pc[r] \in {"poll", "parked"}
  /\ pc' = [pc EXCEPT ![r] = "idle"]
  /\ UNCHANGED <<queueVars, notifierVars, holder, failure, token>>

-----------------------------------------------------------------------------
Notify(n) == Push(n) \/ SetDisconnected(n) \/ SetShutdown(n) \/ WakeParked(n)

Next ==
  \/ \E n \in Notifiers : Notify(n) \/ TakeWakers(n) \/ Wake(n)
  \/ \E r \in Readers :
       \/ Read(r) \/ ReadIntoEmptyBuffer(r) \/ PollRead(r) \/ PollPark(r)
       \/ Woken(r) \/ SpuriousWake(r) \/ Cancel(r)

(* A thread inside a call is scheduled, and a thread that keeps trying the  *)
(* mutex gets it in the end (strong: others may hold it in between).  No    *)
(* report, unplug, new read or cancellation is promised.                    *)
Fairness ==
  /\ \A n \in Notifiers : SF_vars(TakeWakers(n)) /\ WF_vars(Wake(n))
  /\ \A r \in Readers : SF_vars(PollRead(r)) /\ WF_vars(PollPark(r)) /\ WF_vars(Woken(r))

Safety == Init /\ [][Next]_vars
Spec == Safety /\ Fairness

-----------------------------------------------------------------------------
(* Properties *)

(* Every variable keeps its type; the queue never exceeds its cap. *)
TypeOK ==
  /\ reports \in Seq(1 .. MaxReport) /\ Len(reports) <= MaxQueuedReports
  /\ wakers \in Seq(Readers)
  /\ disconnected \in BOOLEAN /\ shutdown \in BOOLEAN
  /\ holder \in Readers \cup {NoReader}
  /\ pc \in [Readers -> ReaderStates]
  /\ failure \in [Readers -> Failures]
  /\ token \in [Readers -> BOOLEAN]
  /\ npc \in [Notifiers -> NotifierStates]
  /\ taken \in [Notifiers -> Seq(Readers)]
  /\ pushed \in 0 .. MaxReport
  /\ delivered \subseteq 1 .. MaxReport

(* Some notifier holds r's waker and has yet to call it. *)
AboutToBeWoken(r) == \E n \in Notifiers : npc[n] = "wake" /\ r \in Range(taken[n])
(* Some notifier is on its way to take the wakers. *)
WakersAboutToBeTaken == \E n \in Notifiers : npc[n] = "take"

(* No lost wake-up (the gap the comment at queue.rs:36 speaks of): a parked  *)
(* reader with no wake-up pending or on its way is registered, there is no   *)
(* report it should have had, and a flag that is set is about to be acted on. *)
NoLostWakeup ==
  \A r \in Readers :
    pc[r] = "parked" /\ ~token[r] /\ ~AboutToBeWoken(r) =>
      /\ r \in Range(wakers)
      /\ reports = <<>>
      /\ disconnected \/ shutdown => WakersAboutToBeTaken

(* Re-polling or cancelling a parked read never piles up wakers: the list    *)
(* holds each task at most once, however long the device stays silent.       *)
OneWakerPerTask == IsInjective(wakers)

(* Reports leave in order and none is duplicated: what is queued is exactly  *)
(* the newest Len(reports) pushed, and everything delivered is older.        *)
QueueIsNewest ==
  /\ \A i \in 1 .. Len(reports) : reports[i] = pushed - Len(reports) + i
  /\ \A k \in delivered : k <= pushed - Len(reports)

(* A report is lost only to MaxQueuedReports newer ones, never to a          *)
(* cancelled read, a spurious wake-up or a disconnect.                       *)
LossOnlyAtCapacity ==
  \A k \in 1 .. pushed :
    k \in delivered \/ k \in Range(reports) \/ k + MaxQueuedReports <= pushed

(* Once the device is gone or the producer has stopped no read stays         *)
(* outstanding, whichever thread set the flag and whenever the reader parked. *)
EveryReadEnds ==
  \A r \in Readers : (disconnected \/ shutdown) /\ pc[r] # "idle" ~> pc[r] = "idle"

Stream == INSTANCE ReportStream WITH
  Capacity <- MaxQueuedReports,
  sent <- pushed,
  unread <- reports,
  waiting <- {r \in Readers : pc[r] # "idle"},
  gone <- disconnected,
  stopped <- shutdown

(* The queue implements the lossy FIFO stream, its liveness included.        *)
ImplementsStream == Stream!Spec
=============================================================================
