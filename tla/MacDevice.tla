------------------------------ MODULE MacDevice ------------------------------
(***************************************************************************)
(* An open device of the macOS backend (src/backend/macos.rs): the report  *)
(* queue, the read thread that pumps a run loop, the two callbacks IOKit   *)
(* runs on that loop, the start barrier of open and the teardown in Drop.  *)
(*                                                                         *)
(* The queue is ReportQueue with two notifiers: `Producer`, the read       *)
(* thread with the callbacks it runs, and `Owner`.  A call on the queue    *)
(* takes several steps; the caller goes on when its npc is "idle" again.   *)
(* IOKit and CoreFoundation are external: a stop reaches a run loop only   *)
(* while it runs, and each activation starts without one.                  *)
(***************************************************************************)
EXTENDS Naturals, Sequences

CONSTANTS
  Readers,           \* tasks that poll reads
  NoReader,          \* nobody is inside poll_read's critical section
  Producer, Owner,   \* the read thread; the thread that opens and drops the handle
  MaxQueuedReports,  \* MAX_QUEUED_REPORTS: 30 in the code
  MaxReport          \* bound: reports the device sends in one behaviour

ASSUME DeviceAssumption ==
  /\ NoReader \notin Readers
  /\ Producer # Owner
  /\ MaxQueuedReports \in Nat \ {0}
  /\ MaxReport \in Nat

VARIABLES
  reports, wakers, disconnected, shutdown, pushed, delivered,
  holder, pc, failure, token, npc, taken,
  loop,        \* where the read thread is
  stop,        \* its run loop has been told to stop
  ready,       \* ThreadState::ready
  runLoop,     \* ThreadState::run_loop is not 0
  place,       \* the run loop the device is scheduled on
  attached,    \* the device's source is in the private mode
  callbacks,   \* the callbacks are registered
  plugged,     \* the device is there
  owner,       \* the life of the handle
  sawGone, sawLoop  \* Drop's copies of disconnected and run_loop

queueState == <<reports, wakers, disconnected, shutdown, pushed, delivered,
                holder, pc, failure, token, npc, taken>>
threadState == <<loop, stop, ready, runLoop>>
deviceState == <<place, attached, callbacks, plugged>>
ownerState == <<owner, sawGone, sawLoop>>
vars == <<queueState, threadState, deviceState, ownerState>>

Notifiers == {Producer, Owner}
Queue == INSTANCE ReportQueue

\* "run" and "removal" are inside CFRunLoopRunInMode; from "clear" on the loop is over.
Pumping == {"run", "removal"}
LoopStates == {"none", "start", "publish", "check", "enter", "ended", "clear", "wake", "exit"}
                \cup Pumping
OwnerStates == {"new", "barrier", "open", "looked", "copied", "unregistered", "moved",
                "stop", "join", "closed"}

Init ==
  /\ Queue!Init
  /\ loop = "none" /\ stop = FALSE /\ ready = FALSE /\ runLoop = FALSE
  /\ place = "none" /\ attached = FALSE /\ callbacks = FALSE /\ plugged = TRUE
  /\ owner = "new" /\ sawGone = FALSE /\ sawLoop = FALSE

-----------------------------------------------------------------------------
(* Opening *)

(* Register the callbacks, spawn the read thread and wait at the barrier. *)
Open ==
  /\ owner = "new"
  /\ owner' = "barrier"
  /\ callbacks' = TRUE
  /\ loop' = "start"
  /\ UNCHANGED <<queueState, stop, ready, runLoop, place, attached, plugged, sawGone, sawLoop>>

(* The thread cannot be spawned: everything is undone. *)
SpawnFails ==
  /\ owner = "new"
  /\ owner' = "closed"
  /\ UNCHANGED <<queueState, threadState, deviceState, sawGone, sawLoop>>

\* Mutant of Started: open does not wait for the read thread.
StartedAtOnce == TRUE

Started == ready

Opened ==
  /\ owner = "barrier" /\ Started
  /\ owner' = "open"
  /\ UNCHANGED <<queueState, threadState, deviceState, sawGone, sawLoop>>

-----------------------------------------------------------------------------
(* The read thread *)

ThreadAt(step) == loop = step /\ npc[Producer] = "idle"

(* Schedule the device on this thread's run loop. *)
Schedule ==
  /\ ThreadAt("start")
  /\ loop' = "publish"
  /\ place' = "thread"
  /\ UNCHANGED <<queueState, stop, ready, runLoop, attached, callbacks, plugged, ownerState>>

Publish ==
  /\ ThreadAt("publish")
  /\ loop' = "check"
  /\ runLoop' = TRUE /\ ready' = TRUE
  /\ UNCHANGED <<queueState, stop, deviceState, ownerState>>

\* Mutant of KeepPumping: the flags are not looked at before the next slice.
KeepPumpingAlways == TRUE

KeepPumping == ~shutdown /\ ~disconnected

Check ==
  /\ ThreadAt("check")
  /\ loop' = IF KeepPumping THEN "enter" ELSE "clear"
  /\ UNCHANGED <<queueState, stop, ready, runLoop, deviceState, ownerState>>

(* CFRunLoopRunInMode begins: a new activation, not stopped. *)
EnterRunLoop ==
  /\ ThreadAt("enter")
  /\ loop' = "run"
  /\ stop' = FALSE
  /\ UNCHANGED <<queueState, ready, runLoop, deviceState, ownerState>>

SliceEnds ==
  /\ ThreadAt("run") /\ ~stop
  /\ loop' = "check"
  /\ UNCHANGED <<queueState, stop, ready, runLoop, deviceState, ownerState>>

\* Mutant of HasSources: no keep-alive source beside the device's own.
HasSourcesOfDevice == attached

(* The keep-alive source is in the mode, whatever becomes of the device's. *)
HasSources == TRUE

(* It returns kCFRunLoopRunStopped, or Finished for a mode without sources. *)
RunLoopReturns ==
  /\ ThreadAt("run") /\ (HasSources => stop)
  /\ loop' = "ended"
  /\ UNCHANGED <<queueState, stop, ready, runLoop, deviceState, ownerState>>

(* Without an orderly close that counts as a disconnect. *)
RunLoopEnded ==
  /\ ThreadAt("ended")
  /\ IF shutdown THEN UNCHANGED queueState ELSE Queue!SetDisconnected(Producer)
  /\ loop' = "clear"
  /\ UNCHANGED <<stop, ready, runLoop, deviceState, ownerState>>

ClearRunLoop ==
  /\ ThreadAt("clear")
  /\ loop' = "wake"
  /\ runLoop' = FALSE
  /\ UNCHANGED <<queueState, stop, ready, deviceState, ownerState>>

LastWake ==
  /\ ThreadAt("wake")
  /\ Queue!WakeParked(Producer)
  /\ loop' = "exit"
  /\ UNCHANGED <<stop, ready, runLoop, deviceState, ownerState>>

(* Callbacks, run by the run loop on the read thread. *)
CallbackRuns == ThreadAt("run") /\ callbacks /\ place = "thread"

InputReport ==
  /\ CallbackRuns /\ attached /\ plugged
  /\ Queue!Push(Producer)
  /\ UNCHANGED <<threadState, deviceState, ownerState>>

Removal ==
  /\ CallbackRuns /\ ~plugged /\ ~disconnected
  /\ Queue!SetDisconnected(Producer)
  /\ loop' = "removal"
  /\ UNCHANGED <<stop, ready, runLoop, deviceState, ownerState>>

RemovalStops ==
  /\ ThreadAt("removal")
  /\ loop' = "run"
  /\ stop' = (stop \/ runLoop)
  /\ UNCHANGED <<queueState, ready, runLoop, deviceState, ownerState>>

-----------------------------------------------------------------------------
(* IOKit *)

(* The device's source reaches the mode some time after it is scheduled. *)
Attach ==
  /\ place = "thread" /\ plugged /\ ~attached
  /\ attached' = TRUE
  /\ UNCHANGED <<queueState, threadState, place, callbacks, plugged, ownerState>>

Unplug ==
  /\ plugged
  /\ plugged' = FALSE
  /\ UNCHANGED <<queueState, threadState, place, attached, callbacks, ownerState>>

-----------------------------------------------------------------------------
(* Drop: no read is outstanding, because a read future borrows the handle. *)

DropLooks ==
  /\ owner = "open" /\ \A r \in Readers : pc[r] = "idle"
  /\ owner' = "looked"
  /\ sawGone' = disconnected
  /\ UNCHANGED <<queueState, threadState, deviceState, sawLoop>>

DropCopies ==
  /\ owner = "looked"
  /\ owner' = "copied"
  /\ sawLoop' = runLoop
  /\ UNCHANGED <<queueState, threadState, deviceState, sawGone>>

\* Mutant of Unregistered: the callbacks stay registered.
UnregisteredNot == callbacks

(* A device seen to be gone keeps its callbacks and its place. *)
Unregistered == callbacks /\ sawGone

DropUnregisters ==
  /\ owner = "copied"
  /\ owner' = "unregistered"
  /\ callbacks' = Unregistered
  /\ UNCHANGED <<queueState, threadState, place, attached, plugged, sawGone, sawLoop>>

(* Move the device from the read thread's run loop to the main one. *)
DropMoves ==
  /\ owner = "unregistered"
  /\ owner' = "moved"
  /\ IF ~sawGone /\ sawLoop
       THEN place' = "main" /\ attached' = FALSE
       ELSE UNCHANGED <<place, attached>>
  /\ UNCHANGED <<queueState, threadState, callbacks, plugged, sawGone, sawLoop>>

DropShutsDown ==
  /\ owner = "moved"
  /\ Queue!SetShutdown(Owner)
  /\ owner' = "stop"
  /\ UNCHANGED <<threadState, deviceState, sawGone, sawLoop>>

(* Stop the run loop, if it runs just now, and wake it. *)
DropStops ==
  /\ owner = "stop" /\ npc[Owner] = "idle"
  /\ owner' = "join"
  /\ stop' = (stop \/ (sawLoop /\ loop \in Pumping))
  /\ UNCHANGED <<queueState, loop, ready, runLoop, deviceState, sawGone, sawLoop>>

DropJoins ==
  /\ owner = "join" /\ ThreadAt("exit")
  /\ owner' = "closed"
  /\ UNCHANGED <<queueState, threadState, deviceState, sawGone, sawLoop>>

-----------------------------------------------------------------------------
(* The queue: a read needs a handle; what is under way goes on. *)

Read(r) ==
  /\ owner = "open"
  /\ Queue!Read(r)
  /\ UNCHANGED <<threadState, deviceState, ownerState>>

ReadGoesOn(r) ==
  /\ \/ Queue!PollRead(r) \/ Queue!PollPark(r)
     \/ Queue!Woken(r) \/ Queue!SpuriousWake(r) \/ Queue!Cancel(r)
  /\ UNCHANGED <<threadState, deviceState, ownerState>>

WakeGoesOn(n) ==
  /\ Queue!TakeWakers(n) \/ Queue!Wake(n)
  /\ UNCHANGED <<threadState, deviceState, ownerState>>

ThreadStep ==
  \/ Schedule \/ Publish \/ Check \/ EnterRunLoop \/ SliceEnds \/ RunLoopReturns
  \/ RunLoopEnded \/ ClearRunLoop \/ LastWake \/ RemovalStops

DropStep ==
  DropCopies \/ DropUnregisters \/ DropMoves \/ DropShutsDown \/ DropStops \/ DropJoins

Next ==
  \/ Open \/ SpawnFails \/ Opened
  \/ ThreadStep \/ InputReport \/ Removal
  \/ Attach \/ Unplug
  \/ DropLooks \/ DropStep
  \/ \E r \in Readers : Read(r) \/ ReadGoesOn(r)
  \/ \E n \in Notifiers : WakeGoesOn(n)

(* Beside the queue's own fairness: the read thread is scheduled, and its   *)
(* slices end; Drop goes on; and IOKit tells the run loop of a removal,     *)
(* however often that loop is left and entered (strong).  No report,        *)
(* unplug or drop is promised.                                              *)
Fairness ==
  /\ Queue!Fairness
  /\ WF_vars(ThreadStep) /\ SF_vars(Removal) /\ WF_vars(DropStep)

Safety == Init /\ [][Next]_vars
Spec == Safety /\ Fairness

-----------------------------------------------------------------------------
(* Properties *)

(* Every variable keeps its type, the queue's included. *)
TypeOK ==
  /\ Queue!TypeOK
  /\ loop \in LoopStates
  /\ {stop, ready, runLoop, attached, callbacks, plugged, sawGone, sawLoop} \subseteq BOOLEAN
  /\ place \in {"none", "thread", "main"}
  /\ owner \in OwnerStates

(* Drop never joins a thread it had no means to stop: the run loop it copied *)
(* is there, thanks to the barrier of open, unless the thread has left it.   *)
DropKnowsLoop ==
  owner \notin {"new", "barrier", "open", "looked"} /\ ~sawLoop => loop \in {"none", "wake", "exit"}

(* Disconnected is said only of a device that is gone: not while its source  *)
(* has yet to reach the mode, and not for a run loop that Drop stopped.      *)
DisconnectedIsTrue == disconnected => ~plugged

(* The main run loop, to which Drop hands the device, never runs the         *)
(* callbacks, whose context ends with the handle.                            *)
CallbacksStayHome == place = "main" => ~callbacks

(* Every outstanding read ends once the device is gone or the read thread    *)
(* has left its loop for whatever reason.                                    *)
ReadsEnd ==
  \A r \in Readers :
    (~plugged \/ loop \in {"clear", "wake", "exit"}) /\ pc[r] # "idle" ~> pc[r] = "idle"

(* Dropping the handle ends, even when its stop falls between the thread's   *)
(* look at the flags and the run loop, and is forgotten.                     *)
DropEnds == owner = "looked" ~> owner = "closed"

(* What the comment in read_thread says, "the loop is broken by              *)
(* CFRunLoopStop on close/removal": when Drop has done so and waits, the     *)
(* thread is not, or not for long, inside a run loop that was not stopped.   *)
StopIsNotLost == owner = "join" /\ loop \in Pumping => stop
=============================================================================
