-------------------------------- MODULE Hidraw --------------------------------
(***************************************************************************)
(* Input reads of the Linux hidraw backend: the read future of             *)
(* src/backend/hidraw.rs and the process-wide poll(2) reactor of           *)
(* src/backend/reactor.rs that wakes it.                                   *)
(*                                                                         *)
(* `Handles` are the HidrawDevice values a process opens, one after the    *)
(* other or together; each has its own queue in the kernel.  `Fds` are     *)
(* file descriptor numbers, which the kernel hands out again after a       *)
(* close: the reactor knows a device by that number only.                  *)
(*                                                                         *)
(* A step ends where another thread or the kernel can come between: a read *)
(* is poll(2), then read(2) or, with nothing queued, the registration and  *)
(* the write to the reactor's eventfd; a turn of the reactor is the        *)
(* snapshot of the interest set, the entry into poll(2), its return, the   *)
(* read of the eventfd, and the harvest.  The reactor calls wakers inside  *)
(* the interests mutex, and a woken task needs that mutex only to park     *)
(* again, so a harvest is one step.                                        *)
(***************************************************************************)
EXTENDS Naturals, FiniteSets

CONSTANTS
  Tasks,       \* tasks that read; a task is one waker
  Handles,     \* open device handles
  Fds,         \* file descriptor numbers
  None,        \* no handle, no file descriptor
  KernelCap    \* reports the kernel queues per handle: 63 in hidraw.c

ASSUME HidrawAssumption ==
  /\ None \notin Handles \cup Fds
  /\ KernelCap \in Nat \ {0}

VARIABLES
  handle,      \* where each handle is in its life
  fd,          \* the number each open handle has
  queued,      \* reports in the kernel queue of each handle
  present,     \* the device behind each handle is plugged in
  interests,   \* Reactor.interests: who is parked on a number, and (history) on what handle
  nudged,      \* the eventfd's counter is not zero
  rpc,         \* where the reactor is in its loop
  snap,        \* the numbers in the reactor's pollfds
  polled,      \* the handle behind each number when poll(2) was entered
  ready,       \* the numbers with revents # 0
  pc,          \* where each task is in its read
  dev,         \* the handle each task reads
  token        \* a wake-up is pending for this task

handleVars == <<handle, fd>>
kernelVars == <<queued, present>>
reactorVars == <<rpc, snap, polled, ready>>
taskVars == <<pc, dev, token>>
vars == <<handle, fd, queued, present, interests, nudged,
          rpc, snap, polled, ready, pc, dev, token>>

\* "dropping": Drop has taken the interests away; "nudged": and written the eventfd.
HandleStates == {"new", "open", "dropping", "nudged", "closed"}
\* "gone": the task's latest read failed with Disconnected.
TaskStates == {"idle", "gone", "poll", "read", "register", "nudge", "parked"}
ReactorStates == {"snapshot", "enter", "wait", "drain", "harvest"}
Ended == {"idle", "gone"}

Init ==
  /\ handle = [h \in Handles |-> "new"]
  /\ fd = [h \in Handles |-> None]
  /\ queued = [h \in Handles |-> 0]
  /\ present = [h \in Handles |-> TRUE]
  /\ interests = [f \in Fds |-> {}]
  /\ nudged = FALSE
  /\ rpc = "snapshot" /\ snap = {} /\ ready = {}
  /\ polled = [f \in Fds |-> None]
  /\ pc = [t \in Tasks |-> "idle"]
  /\ dev = [t \in Tasks |-> None]
  /\ token = [t \in Tasks |-> FALSE]

-----------------------------------------------------------------------------
(* Opening and dropping a handle *)

(* The handle a file descriptor number stands for, if any. *)
Behind(f) ==
  IF \E h \in Handles : fd[h] = f THEN CHOOSE h \in Handles : fd[h] = f ELSE None

Open(h) ==
  /\ handle[h] = "new"
  /\ handle' = [handle EXCEPT ![h] = "open"]
  /\ \E f \in Fds : Behind(f) = None /\ fd' = [fd EXCEPT ![h] = f]
  /\ UNCHANGED <<kernelVars, interests, nudged, reactorVars, taskVars>>

\* Mutant of Forget: the interests stay.
ForgetNothing(f) == interests

(* Reactor::deregister forgets whoever is parked on the number, unwoken. *)
Forget(f) == [interests EXCEPT ![f] = {}]

(* Drop: no read is outstanding, because a read future borrows the handle. *)
Drop(h) ==
  /\ handle[h] = "open"
  /\ \A t \in Tasks : dev[t] # h
  /\ interests' = Forget(fd[h])
  /\ handle' = [handle EXCEPT ![h] = "dropping"]
  /\ UNCHANGED <<fd, kernelVars, nudged, reactorVars, taskVars>>

DropNudge(h) ==
  /\ handle[h] = "dropping"
  /\ nudged' = TRUE
  /\ handle' = [handle EXCEPT ![h] = "nudged"]
  /\ UNCHANGED <<fd, kernelVars, interests, reactorVars, taskVars>>

(* The OwnedFd field goes last: the number is free again, the queue is gone. *)
Close(h) ==
  /\ handle[h] = "nudged"
  /\ handle' = [handle EXCEPT ![h] = "closed"]
  /\ fd' = [fd EXCEPT ![h] = None]
  /\ queued' = [queued EXCEPT ![h] = 0]
  /\ UNCHANGED <<present, interests, nudged, reactorVars, taskVars>>

-----------------------------------------------------------------------------
(* The kernel *)

(* A report is queued for an open handle, or dropped when the queue is full. *)
Report(h) ==
  /\ fd[h] # None /\ present[h]
  /\ queued' = [queued EXCEPT ![h] = IF @ < KernelCap THEN @ + 1 ELSE @]
  /\ UNCHANGED <<handleVars, present, interests, nudged, reactorVars, taskVars>>

Unplug(h) ==
  /\ fd[h] # None /\ present[h]
  /\ present' = [present EXCEPT ![h] = FALSE]
  /\ UNCHANGED <<handleVars, queued, interests, nudged, reactorVars, taskVars>>

(* poll(2) reports POLLIN, or POLLERR and POLLHUP with or without POLLIN. *)
Pollable(h) == queued[h] > 0 \/ ~present[h]
(* A number nobody has open is POLLNVAL, which is an event too. *)
HasEvents(f) == Behind(f) # None => Pollable(Behind(f))

-----------------------------------------------------------------------------
(* A read *)

\* Mutant of Finish: a read that ended still holds the handle.
FinishHolding(t, how) ==
  /\ pc' = [pc EXCEPT ![t] = how]
  /\ UNCHANGED <<dev, token>>

(* The read future resolves or is dropped, which ends its borrow of the handle. *)
Finish(t, how) ==
  /\ pc' = [pc EXCEPT ![t] = how]
  /\ dev' = [dev EXCEPT ![t] = None]
  /\ UNCHANGED token

Goto(t, where) ==
  /\ pc' = [pc EXCEPT ![t] = where]
  /\ UNCHANGED <<dev, token>>

Read(t, h) ==
  /\ pc[t] \in Ended
  /\ handle[h] = "open"
  /\ pc' = [pc EXCEPT ![t] = "poll"]
  /\ dev' = [dev EXCEPT ![t] = h]
  /\ UNCHANGED <<handleVars, kernelVars, interests, nudged, reactorVars, token>>

(* try_read_now asks poll(2) whether read(2) would block.  An error or a    *)
(* hang-up is Disconnected whether or not reports are queued.               *)
PollNow(t) ==
  /\ pc[t] = "poll"
  /\ \/ ~present[dev[t]] /\ Finish(t, "gone")
     \/ present[dev[t]] /\ queued[dev[t]] > 0 /\ Goto(t, "read")
     \/ ~Pollable(dev[t]) /\ Goto(t, "register")
  /\ UNCHANGED <<handleVars, kernelVars, interests, nudged, reactorVars>>

(* read(2) on a descriptor opened without O_NONBLOCK: with the queue empty  *)
(* it sleeps until there is a report or the device is gone (EIO).           *)
ReadNow(t) ==
  /\ pc[t] = "read"
  /\ \/ /\ queued[dev[t]] > 0
        /\ queued' = [queued EXCEPT ![dev[t]] = @ - 1]
        /\ Finish(t, "idle")
     \/ /\ queued[dev[t]] = 0 /\ ~present[dev[t]]
        /\ UNCHANGED queued
        /\ Finish(t, "gone")
  /\ UNCHANGED <<handleVars, present, interests, nudged, reactorVars>>

(* A report of no bytes counts as nothing queued. *)
ReadNothing(t) ==
  /\ pc[t] = "read" /\ queued[dev[t]] > 0
  /\ queued' = [queued EXCEPT ![dev[t]] = @ - 1]
  /\ Goto(t, "register")
  /\ UNCHANGED <<handleVars, present, interests, nudged, reactorVars>>

(* poll(2) or read(2) fails in another way, as when a signal ends a sleep.  *)
ReadFails(t) ==
  /\ pc[t] \in {"poll", "read"}
  /\ Finish(t, "idle")
  /\ UNCHANGED <<handleVars, kernelVars, interests, nudged, reactorVars>>

\* Mutant of Register: a number already watched takes no second waker.
RegisterFirst(t, h) ==
  [interests EXCEPT ![fd[h]] = IF @ = {} THEN {[task |-> t, handle |-> h]} ELSE @]

(* Reactor::register, under the mutex: one waker per task and number. *)
Register(t, h) ==
  [interests EXCEPT ![fd[h]] =
     IF \E i \in @ : i.task = t THEN @ ELSE @ \cup {[task |-> t, handle |-> h]}]

Park(t) ==
  /\ pc[t] = "register"
  /\ interests' = Register(t, dev[t])
  /\ Goto(t, "nudge")
  /\ UNCHANGED <<handleVars, kernelVars, nudged, reactorVars>>

\* Mutant of Nudge: the eventfd is not written.
NoNudge == UNCHANGED nudged

(* Write the eventfd: a poll(2) under way or to come returns at once. *)
Nudge == nudged' = TRUE

ParkNudge(t) ==
  /\ pc[t] = "nudge"
  /\ Nudge
  /\ Goto(t, "parked")
  /\ UNCHANGED <<handleVars, kernelVars, interests, reactorVars>>

Woken(t) ==
  /\ pc[t] = "parked" /\ token[t]
  /\ token' = [token EXCEPT ![t] = FALSE]
  /\ pc' = [pc EXCEPT ![t] = "poll"]
  /\ UNCHANGED <<handleVars, kernelVars, interests, nudged, reactorVars, dev>>

SpuriousWake(t) ==
  /\ pc[t] = "parked" /\ ~token[t]
  /\ token' = [token EXCEPT ![t] = TRUE]
  /\ UNCHANGED <<handleVars, kernelVars, interests, nudged, reactorVars, pc, dev>>

(* The future is dropped between polls; what it registered stays. *)
Cancel(t) ==
  /\ pc[t] = "parked"
  /\ Finish(t, "idle")
  /\ UNCHANGED <<handleVars, kernelVars, interests, nudged, reactorVars>>

-----------------------------------------------------------------------------
(* The reactor *)

(* A waker called while its task is not parked leaves a token. *)
WakeOn(fs) ==
  LET woken == {i.task : i \in UNION {interests[f] : f \in fs}}
  IN /\ token' = [t \in Tasks |-> token[t] \/ t \in woken]
     /\ interests' = [f \in Fds |-> IF f \in fs THEN {} ELSE interests[f]]

(* The loop's pollfds are its own; the next turn builds new ones. *)
NextTurn ==
  /\ rpc' = "snapshot"
  /\ snap' = {} /\ ready' = {}
  /\ polled' = [f \in Fds |-> None]

Snapshot ==
  /\ rpc = "snapshot"
  /\ snap' = {f \in Fds : interests[f] # {}}
  /\ rpc' = "enter"
  /\ UNCHANGED <<handleVars, kernelVars, interests, nudged, polled, ready, taskVars>>

(* poll(2) looks the numbers up and joins the wait queue of each file. *)
EnterPoll ==
  /\ rpc = "enter"
  /\ polled' = [f \in Fds |-> IF f \in snap THEN Behind(f) ELSE None]
  /\ rpc' = "wait"
  /\ UNCHANGED <<handleVars, kernelVars, interests, nudged, snap, ready, taskVars>>

(* It sleeps until the eventfd or a file it has joined has an event ... *)
PollDue == nudged \/ \E f \in snap : polled[f] = Behind(f) /\ HasEvents(f)

(* ... and looks every number up again before it returns. *)
PollReturns ==
  /\ rpc = "wait" /\ PollDue
  /\ ready' = {f \in snap : HasEvents(f)}
  /\ rpc' = IF nudged THEN "drain" ELSE "harvest"
  /\ polled' = [f \in Fds |-> None]
  /\ UNCHANGED <<handleVars, kernelVars, interests, nudged, snap, taskVars>>

(* EINTR: poll(2) looks for events before it looks for signals. *)
PollInterrupted ==
  /\ rpc = "wait" /\ ~PollDue
  /\ NextTurn
  /\ UNCHANGED <<handleVars, kernelVars, interests, nudged, taskVars>>

(* Any other failure (no memory) wakes everyone. *)
PollFails ==
  /\ rpc = "wait"
  /\ WakeOn(Fds)
  /\ NextTurn
  /\ UNCHANGED <<handleVars, kernelVars, nudged, pc, dev>>

(* The nudge is taken back; what else poll(2) found is harvested all the same. *)
Drain ==
  /\ rpc = "drain"
  /\ nudged' = FALSE
  /\ rpc' = "harvest"
  /\ UNCHANGED <<handleVars, kernelVars, interests, snap, polled, ready, taskVars>>

\* Mutant of ToWake: only POLLIN counts.
ToWakeReadable == {f \in ready : Behind(f) # None /\ queued[Behind(f)] > 0}

(* Errors and hang-ups wake too: any revents but zero. *)
ToWake == ready

Harvest ==
  /\ rpc = "harvest"
  /\ WakeOn(ToWake)
  /\ NextTurn
  /\ UNCHANGED <<handleVars, kernelVars, nudged, pc, dev>>

-----------------------------------------------------------------------------
Kernel(h) == Report(h) \/ Unplug(h)
Owner(h) == Open(h) \/ Drop(h) \/ DropNudge(h) \/ Close(h)
ReadStep(t) == PollNow(t) \/ ReadNow(t) \/ Park(t) \/ ParkNudge(t) \/ Woken(t)
ReactorStep == Snapshot \/ EnterPoll \/ PollReturns \/ Drain \/ Harvest

Next ==
  \/ \E h \in Handles : Kernel(h) \/ Owner(h)
  \/ \E t \in Tasks :
       \/ \E h \in Handles : Read(t, h)
       \/ ReadStep(t) \/ ReadNothing(t) \/ ReadFails(t) \/ SpuriousWake(t) \/ Cancel(t)
  \/ ReactorStep \/ PollInterrupted \/ PollFails

(* The reactor thread, a polled task and a Drop under way are scheduled.    *)
(* No report, unplug, close or new read is promised, and none of the        *)
(* failures of the system calls.                                            *)
Fairness ==
  /\ WF_vars(ReactorStep)
  /\ \A t \in Tasks : WF_vars(ReadStep(t))
  /\ \A h \in Handles : WF_vars(DropNudge(h) \/ Close(h))

Safety == Init /\ [][Next]_vars
Spec == Safety /\ Fairness

-----------------------------------------------------------------------------
(* Properties *)

(* Every variable keeps its type, and a task borrows a handle, an open one,  *)
(* exactly while it reads.                                                   *)
TypeOK ==
  /\ handle \in [Handles -> HandleStates]
  /\ fd \in [Handles -> Fds \cup {None}]
  /\ queued \in [Handles -> 0 .. KernelCap]
  /\ present \in [Handles -> BOOLEAN]
  /\ interests \in [Fds -> SUBSET [task : Tasks, handle : Handles]]
  /\ nudged \in BOOLEAN
  /\ rpc \in ReactorStates
  /\ snap \subseteq Fds /\ ready \subseteq Fds
  /\ polled \in [Fds -> Handles \cup {None}]
  /\ pc \in [Tasks -> TaskStates]
  /\ dev \in [Tasks -> Handles \cup {None}]
  /\ token \in [Tasks -> BOOLEAN]
  /\ \A t \in Tasks :
       IF pc[t] \in Ended THEN dev[t] = None ELSE dev[t] # None /\ handle[dev[t]] = "open"

(* Interests are keyed by a number the kernel reuses, so a handle takes its  *)
(* own away before it closes: whatever is parked on a number was parked there *)
(* by a reader of the handle that has the number now, still open.            *)
InterestsAreCurrent ==
  \A f \in Fds : \A i \in interests[f] : handle[i.handle] = "open" /\ fd[i.handle] = f

(* A reader that parks without a wake-up pending is in the interest set of   *)
(* its own device's number, whatever the reactor and other readers of the    *)
(* device have done with that entry since.                                   *)
ParkedIsRegistered ==
  \A t \in Tasks :
    pc[t] \in {"nudge", "parked"} /\ ~token[t] =>
      \E i \in interests[fd[dev[t]]] : i.task = t

(* A reactor about to sleep, or asleep, watches the device of every parked   *)
(* reader, and not an older one with the same number, unless it is nudged.   *)
ReactorWatches ==
  \A t \in Tasks :
    pc[t] = "parked" /\ ~token[t] /\ rpc \in {"enter", "wait"} /\ ~nudged =>
      /\ fd[dev[t]] \in snap
      /\ rpc = "wait" => polled[fd[dev[t]]] = dev[t]

(* An unplug ends every read of the device, wherever it found the reader.    *)
UnpluggedReadsEnd ==
  \A t \in Tasks :
    dev[t] # None /\ ~present[dev[t]] ~> pc[t] \in Ended

(* A reader does not stay parked beside a queued report.                     *)
QueuedReportIsRead ==
  \A t \in Tasks :
    pc[t] = "parked" /\ queued[dev[t]] > 0
      ~> pc[t] # "parked" \/ queued[dev[t]] = 0

(* The read contract of backend/mod.rs: Disconnected only once the reports   *)
(* queued before the unplug have drained.                                    *)
DrainBeforeDisconnect ==
  [][\A t \in Tasks : pc[t] \notin Ended /\ pc'[t] = "gone" => queued[dev[t]] = 0]_vars

(* What the comment on ReadAsync says of the read syscall: it happens only   *)
(* when the descriptor is readable, so that a poll of the future never sleeps. *)
ReadOnlyWhenReadable ==
  \A t \in Tasks : pc[t] = "read" => Pollable(dev[t])
=============================================================================
