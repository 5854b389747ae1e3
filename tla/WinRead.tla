------------------------------- MODULE WinRead -------------------------------
(***************************************************************************)
(* Reads of the Windows backend (src/backend/windows.rs): one overlapped   *)
(* ReadFile kept in flight per device, its auto-reset event, the one-shot  *)
(* thread-pool wait on that event and the single slot for the waker of the *)
(* reader that parked last.                                                *)
(*                                                                         *)
(* A reader holds the read lock from start_read to the end of park_read;   *)
(* the wait callback takes no part in that lock, so each of its statements *)
(* is a step.  The system is external: a ReadFile completes at once or     *)
(* later, and its completion sets the status and the event together; a     *)
(* wait that finds the event signaled consumes the signal and runs its     *)
(* callback once.  What a report holds is not modelled.                    *)
(***************************************************************************)
CONSTANTS
  Tasks,   \* tasks that poll reads of the device
  None,    \* no task, no wait
  Waits    \* bound: registered waits and callbacks under way at one time

\* A callback that is to wake a task is at that task.
CallbackSteps == {"free", "armed", "fired", "restored", "cleared"}

ASSUME NoneAssumption ==
  None \notin Tasks /\ None \notin Waits /\ Tasks \cap CallbackSteps = {}

VARIABLES
  pc,         \* where each task is in poll_read and park_read
  token,      \* the tasks unparked since they last parked
  lock,       \* the task that holds the read lock
  pending,    \* ReadState::pending
  io,         \* the OVERLAPPED: no read, one in flight, or how it completed
  signaled,   \* the read event
  slot,       \* ReadWake::waker: the task whose waker it holds
  registered, \* ReadWake::wait_registered
  wait,       \* ReadState::wait: the wait registered last
  callback,   \* of each wait: unused, armed, or where its callback is
  plugged,    \* the device is there
  owner       \* the life of the handle

taskVars == <<pc, token, lock>>
ioVars == <<pending, io, signaled>>
waitVars == <<slot, registered, wait, callback>>
vars == <<taskVars, ioVars, waitVars, plugged, owner>>

\* "begin" to "register" are inside the read lock.
InLock == {"begin", "check", "store", "swap", "register"}
TaskSteps == {"idle", "poll", "parked"} \cup InLock
\* "aborted": cancelled, by Drop or by the end of the thread that issued it.
Completions == {"report", "gone", "aborted"}
OwnerSteps == {"open", "unregister", "reap", "closed"}

Init ==
  /\ pc = [t \in Tasks |-> "idle"] /\ token = {} /\ lock = None
  /\ pending = FALSE /\ io = "none" /\ signaled = FALSE
  /\ slot = None /\ registered = FALSE
  /\ wait = None /\ callback = [w \in Waits |-> "free"]
  /\ plugged = TRUE /\ owner = "open"

-----------------------------------------------------------------------------
(* A task polling a read *)

(* A read borrows the handle: there is none once Drop has begun. *)
Read(t) ==
  /\ owner = "open" /\ pc[t] = "idle"
  /\ pc' = [pc EXCEPT ![t] = "poll"]
  /\ token' = token \ {t}
  /\ UNCHANGED <<lock, ioVars, waitVars, plugged, owner>>

Lock(t) ==
  /\ pc[t] = "poll" /\ lock = None
  /\ pc' = [pc EXCEPT ![t] = "begin"]
  /\ lock' = t
  /\ UNCHANGED <<token, ioVars, waitVars, plugged, owner>>

Goto(t, step) == pc' = [pc EXCEPT ![t] = step] /\ UNCHANGED <<token, lock>>

\* Mutant of Unlock: the task goes on and the mutex stays held.
UnlockNot(t, step) == pc' = [pc EXCEPT ![t] = step] /\ UNCHANGED <<lock, token>>

(* Leave the critical section: the read is over, or the task parks. *)
Unlock(t, step) ==
  /\ pc' = [pc EXCEPT ![t] = step]
  /\ lock' = None
  /\ UNCHANGED token

\* Mutant of Reusable: a read in flight is not noticed.
ReusableAlways == TRUE

(* Whether the event, the OVERLAPPED and the staging buffer may be used. *)
Reusable == ~pending

(* ResetEvent and ReadFile, which clears the event as well.  The read is    *)
(* pending, was completed at once, or was refused.                          *)
ReadFile(t) ==
  /\ pc[t] = "begin" /\ Reusable
  /\ \/ pending' = TRUE /\ io' = "pending" /\ signaled' = FALSE /\ Goto(t, "check")
     \/ plugged /\ pending' = FALSE /\ io' = "none" /\ signaled' = TRUE /\ Unlock(t, "idle")
     \/ pending' = FALSE /\ io' = "none" /\ signaled' = FALSE /\ Unlock(t, "idle")
  /\ UNCHANGED <<waitVars, plugged, owner>>

(* An earlier poll, perhaps of a read dropped since, left one in flight. *)
StillPending(t) ==
  /\ pc[t] = "begin" /\ pending
  /\ Goto(t, "check")
  /\ UNCHANGED <<ioVars, waitVars, plugged, owner>>

Incomplete(t) ==
  /\ pc[t] = "check" /\ io = "pending"
  /\ Goto(t, "store")
  /\ UNCHANGED <<ioVars, waitVars, plugged, owner>>

(* GetOverlappedResult finds a report, which is copied out, or an error. *)
Harvest(t) ==
  /\ pc[t] = "check" /\ io \in Completions
  /\ pending' = FALSE /\ io' = "none"
  /\ Unlock(t, "idle")
  /\ UNCHANGED <<signaled, waitVars, plugged, owner>>

StoreWaker(t) ==
  /\ pc[t] = "store"
  /\ slot' = t
  /\ Goto(t, "swap")
  /\ UNCHANGED <<ioVars, registered, wait, callback, plugged, owner>>

\* Mutant of NeedsWait: the one-shot wait is registered once.
NeedsWaitOnce == wait = None

\* Mutant of NeedsWait: every poll registers a wait.
NeedsWaitAlways == TRUE

NeedsWait == ~registered

(* A wait is armed already, and will find the waker. *)
ParkBehindWait(t) ==
  /\ pc[t] = "swap" /\ ~NeedsWait
  /\ Unlock(t, "parked")
  /\ UNCHANGED <<ioVars, waitVars, plugged, owner>>

ClaimWait(t) ==
  /\ pc[t] = "swap" /\ NeedsWait
  /\ registered' = TRUE
  /\ Goto(t, "register")
  /\ UNCHANGED <<ioVars, slot, wait, callback, plugged, owner>>

(* Unregister the last wait without blocking: an armed one is gone, a       *)
(* callback that runs goes on.                                              *)
Unregistered ==
  [w \in Waits |-> IF w = wait /\ callback[w] = "armed" THEN "free" ELSE callback[w]]

Register(t) ==
  /\ pc[t] = "register"
  /\ \E w \in Waits :
       /\ Unregistered[w] = "free"
       /\ callback' = [Unregistered EXCEPT ![w] = "armed"]
       /\ wait' = w
  /\ Unlock(t, "parked")
  /\ UNCHANGED <<ioVars, slot, registered, plugged, owner>>

(* The wait cannot be registered: the read fails, the waker stays stored. *)
RegisterFails(t) ==
  /\ pc[t] = "register"
  /\ callback' = Unregistered
  /\ wait' = None /\ registered' = FALSE
  /\ Unlock(t, "idle")
  /\ UNCHANGED <<ioVars, slot, plugged, owner>>

(* The parked task is unparked, or park returns for no reason. *)
Woken(t) ==
  /\ pc[t] = "parked" /\ t \in token
  /\ pc' = [pc EXCEPT ![t] = "poll"]
  /\ token' = token \ {t}
  /\ UNCHANGED <<lock, ioVars, waitVars, plugged, owner>>

SpuriousWake(t) ==
  /\ pc[t] = "parked"
  /\ Goto(t, "poll")
  /\ UNCHANGED <<ioVars, waitVars, plugged, owner>>

\* Mutant of AfterCancel: dropping the future forgets the read in flight.
AfterCancelForget == FALSE

(* Dropping the future leaves the background read, and its flag, alone. *)
AfterCancel == pending

Cancel(t) ==
  /\ pc[t] = "parked"
  /\ Goto(t, "idle")
  /\ pending' = AfterCancel
  /\ UNCHANGED <<io, signaled, waitVars, plugged, owner>>

-----------------------------------------------------------------------------
(* The system, and the callback of a wait *)

(* The read in flight completes. *)
Complete(outcome) ==
  /\ io = "pending"
  /\ CASE outcome = "report" -> plugged
       [] outcome = "gone" -> ~plugged
       [] outcome = "aborted" -> TRUE
  /\ io' = outcome /\ signaled' = TRUE
  /\ UNCHANGED <<taskVars, pending, waitVars, plugged, owner>>

Unplug ==
  /\ plugged
  /\ plugged' = FALSE
  /\ UNCHANGED <<taskVars, ioVars, waitVars, owner>>

(* The wait is satisfied, which consumes the signal of the event. *)
Fire(w) ==
  /\ callback[w] = "armed" /\ signaled
  /\ callback' = [callback EXCEPT ![w] = "fired"]
  /\ signaled' = FALSE
  /\ UNCHANGED <<taskVars, pending, io, slot, registered, wait, plugged, owner>>

\* Mutant of Restored: the callback does not set the event again.
RestoredNot == signaled

Restored == TRUE

RestoreSignal(w) ==
  /\ callback[w] = "fired"
  /\ callback' = [callback EXCEPT ![w] = "restored"]
  /\ signaled' = Restored
  /\ UNCHANGED <<taskVars, pending, io, slot, registered, wait, plugged, owner>>

ClearFlag(w) ==
  /\ callback[w] = "restored"
  /\ callback' = [callback EXCEPT ![w] = "cleared"]
  /\ registered' = FALSE
  /\ UNCHANGED <<taskVars, ioVars, slot, wait, plugged, owner>>

TakeWaker(w) ==
  /\ callback[w] = "cleared"
  /\ callback' = [callback EXCEPT ![w] = IF slot = None THEN "free" ELSE slot]
  /\ slot' = None
  /\ UNCHANGED <<taskVars, ioVars, registered, wait, plugged, owner>>

Wake(w) ==
  /\ callback[w] \in Tasks
  /\ token' = token \cup {callback[w]}
  /\ callback' = [callback EXCEPT ![w] = "free"]
  /\ UNCHANGED <<pc, lock, ioVars, slot, registered, wait, plugged, owner>>

-----------------------------------------------------------------------------
(* Drop *)

DropBegins ==
  /\ owner = "open" /\ \A t \in Tasks : pc[t] = "idle"
  /\ owner' = "unregister"
  /\ UNCHANGED <<taskVars, ioVars, waitVars, plugged>>

(* Unregister the last wait and block until its callback is not running. *)
DropUnregister ==
  /\ owner = "unregister"
  /\ wait # None => callback[wait] \in {"free", "armed"}
  /\ callback' = Unregistered
  /\ wait' = None
  /\ owner' = "reap"
  /\ UNCHANGED <<taskVars, ioVars, slot, registered, plugged>>

\* Mutant of Reaped: the background read is cancelled but not waited for.
ReapedAtOnce == TRUE

Reaped == pending => io # "pending"

(* Cancel the background read, wait for it, and close the handles. *)
DropReaps ==
  /\ owner = "reap" /\ Reaped
  /\ owner' = "closed"
  /\ UNCHANGED <<taskVars, ioVars, waitVars, plugged>>

-----------------------------------------------------------------------------
InLockStep(t) ==
  \/ ReadFile(t) \/ StillPending(t) \/ Incomplete(t) \/ Harvest(t) \/ StoreWaker(t)
  \/ ParkBehindWait(t) \/ ClaimWait(t) \/ Register(t)

CallbackStep(w) ==
  Fire(w) \/ RestoreSignal(w) \/ ClearFlag(w) \/ TakeWaker(w) \/ Wake(w)

DropStep == DropUnregister \/ DropReaps

Next ==
  \/ \E t \in Tasks :
       \/ Read(t) \/ Lock(t) \/ InLockStep(t) \/ RegisterFails(t)
       \/ Woken(t) \/ SpuriousWake(t) \/ Cancel(t)
  \/ \E w \in Waits : CallbackStep(w)
  \/ (\E outcome \in Completions : Complete(outcome)) \/ Unplug
  \/ DropBegins \/ DropStep

(* A task runs on, gets the mutex in the end (strong: others may hold it    *)
(* whenever it is not looked at) and polls when it is woken; the thread     *)
(* pool fires a wait whose event stays signaled and runs its callback;      *)
(* Windows fails a read of a device that is gone and completes one that     *)
(* Drop cancels.  No report, unplug, cancellation or Drop is promised.      *)
Fairness ==
  /\ \A t \in Tasks : SF_vars(Lock(t)) /\ WF_vars(InLockStep(t)) /\ WF_vars(Woken(t))
  /\ \A w \in Waits : WF_vars(CallbackStep(w))
  /\ WF_vars(Complete("gone")) /\ WF_vars(owner = "reap" /\ Complete("aborted"))
  /\ WF_vars(DropStep)

Safety == Init /\ [][Next]_vars
Spec == Safety /\ Fairness

-----------------------------------------------------------------------------
(* Properties *)

(* Every variable keeps its type, and the lock its holder. *)
TypeOK ==
  /\ pc \in [Tasks -> TaskSteps] /\ token \subseteq Tasks
  /\ lock \in Tasks \cup {None}
  /\ \A t \in Tasks : pc[t] \in InLock <=> lock = t
  /\ pending \in BOOLEAN /\ io \in {"none", "pending"} \cup Completions
  /\ signaled \in BOOLEAN
  /\ slot \in Tasks \cup {None} /\ registered \in BOOLEAN
  /\ wait \in Waits \cup {None}
  /\ callback \in [Waits -> CallbackSteps \cup Tasks]
  /\ plugged \in BOOLEAN /\ owner \in OwnerSteps

(* A report that has completed stays in the staging buffer until a read     *)
(* copies it out, whichever read was dropped since: no ReadFile reuses the  *)
(* buffer.  It is given up with the handle only.                            *)
UnreadReportSurvives ==
  [][io = "report" /\ io' # "report" => \E t \in Tasks : pc[t] = "check" /\ pc'[t] = "idle"]_vars

(* The flag park_read trusts: while it is set exactly one wait is armed or  *)
(* has a callback that is still to clear it, or a reader is about to        *)
(* register one; while it is clear there is none.  (Drop removes an armed   *)
(* wait without clearing it; nobody reads it any more.)                     *)
FlagMeansOneWait ==
  owner \in {"open", "unregister"} =>
    LET underway == {w \in Waits : callback[w] \in {"armed", "fired", "restored"}}
        claimed == {t \in Tasks : pc[t] = "register"}
    IN /\ registered <=> underway # {} \/ claimed # {}
       /\ underway = {} \/ claimed = {}
       /\ \A v, w \in underway : v = w

(* The reader that parked last is not forgotten: a wait is armed or a       *)
(* callback has yet to take its waker, and once the read has completed the  *)
(* armed wait will fire, although an earlier wait consumed the signal.      *)
LatestIsWatched ==
  slot # None /\ pc[slot] = "parked" =>
    LET at(steps) == \E w \in Waits : callback[w] \in steps
    IN /\ at({"armed", "fired", "restored", "cleared"})
       /\ io \in Completions /\ ~at({"fired", "restored", "cleared"}) => signaled

(* When Drop cancels the background read no wait can still fire: the one    *)
(* handle Drop knows is the only wait that may be armed.  When it frees the *)
(* OVERLAPPED and the staging buffer, nothing is in flight on them.         *)
DropIsOrderly ==
  /\ owner \in {"reap", "closed"} => \A w \in Waits : callback[w] # "armed"
  /\ owner = "closed" => io # "pending"

(* A lone reader gets its answer once the background read has completed or  *)
(* the device is gone, whatever signal an earlier callback consumed, put    *)
(* back late, or saw cleared by the next ReadFile.                          *)
LoneReadEnds ==
  \A t \in Tasks :
    [](\A u \in Tasks \ {t} : pc[u] = "idle") =>
      ((~plugged \/ io \in Completions) /\ pc[t] # "idle" ~> pc[t] = "idle")

(* What the comment of park_read says, "Either way the wake-up cannot be    *)
(* lost", for every reader of a handle that may be shared: none stays       *)
(* parked for ever on a device that is gone.                                *)
NoWakeupIsLost == \A t \in Tasks : ~plugged /\ pc[t] # "idle" ~> pc[t] = "idle"
=============================================================================
