------------------------------ MODULE NusbDevice ------------------------------
(***************************************************************************)
(* An open USB device of the nusb backend (src/backend/nusb.rs): the       *)
(* report queue, the reader thread that fills it from an interrupt IN      *)
(* endpoint, and the thread that opens and drops the handle.               *)
(*                                                                         *)
(* The queue is ReportQueue with two notifiers, `Producer` (the reader     *)
(* thread) and `Owner`.  A call on the queue takes several steps; the      *)
(* caller goes on when its npc is "idle" again.  The endpoint belongs to   *)
(* nusb and the operating system: a submitted transfer is pending until it *)
(* completes with a status, and stays the endpoint's until the reader      *)
(* takes the completion.                                                   *)
(***************************************************************************)
EXTENDS Naturals, Sequences

CONSTANTS
  Readers,           \* tasks that poll reads
  NoReader,          \* nobody is inside poll_read's critical section
  Producer, Owner,   \* the reader thread; the thread that opens and drops the handle
  MaxQueuedReports,  \* MAX_QUEUED_REPORTS: 30 in the code
  MaxReport          \* bound: reports the device sends in one behaviour

ASSUME DeviceAssumption ==
  /\ NoReader \notin Readers
  /\ Producer # Owner
  /\ MaxQueuedReports \in Nat \ {0}
  /\ MaxReport \in Nat

VARIABLES
  reports, wakers, disconnected, shutdown, pushed, delivered,
  holder, pc, failure, token, npc, taken,
  loop,        \* where the reader thread is
  transfer,    \* the endpoint's one transfer: none, pending, or its completion status
  plugged,     \* the device is on the bus
  owner        \* the life of the handle

queueState == <<reports, wakers, disconnected, shutdown, pushed, delivered,
                holder, pc, failure, token, npc, taken>>
vars == <<queueState, loop, transfer, plugged, owner>>

Notifiers == {Producer, Owner}
Queue == INSTANCE ReportQueue

\* "check" is the loop's condition; from "cancel" on the loop has been left.
LoopStates == {"none", "start", "check", "wait", "resubmit", "cancel", "drain", "flag", "exit"}
\* "empty": a completion of no bytes; "error": a stall, a fault, anything transient.
Statuses == {"report", "empty", "gone", "cancelled", "error"}
OwnerStates == {"new", "open", "dropping", "closed"}

Init ==
  /\ Queue!Init
  /\ loop = "none"
  /\ transfer = "none"
  /\ plugged = TRUE
  /\ owner = "new"

-----------------------------------------------------------------------------
(* The handle *)

(* Open an interface with an interrupt IN endpoint: spawn the reader. *)
Open ==
  /\ owner = "new"
  /\ owner' = "open"
  /\ loop' = "start"
  /\ UNCHANGED <<queueState, transfer, plugged>>

(* Open an interface without one, or one another driver holds: nothing will *)
(* ever queue a report, so the queue is shut down before the handle exists. *)
OpenControlOnly ==
  /\ owner = "new"
  /\ Queue!SetShutdown(Owner)
  /\ owner' = "open"
  /\ UNCHANGED <<loop, transfer, plugged>>

Usable == owner = "open" /\ npc[Owner] = "idle"

(* Drop: no read is outstanding, because a read future borrows the handle. *)
Drop ==
  /\ Usable
  /\ \A r \in Readers : pc[r] = "idle"
  /\ Queue!SetShutdown(Owner)
  /\ owner' = "dropping"
  /\ UNCHANGED <<loop, transfer, plugged>>

(* Join the reader thread, if there is one. *)
Join ==
  /\ owner = "dropping" /\ npc[Owner] = "idle"
  /\ loop \in {"none", "exit"} /\ npc[Producer] = "idle"
  /\ owner' = "closed"
  /\ UNCHANGED <<queueState, loop, transfer, plugged>>

-----------------------------------------------------------------------------
(* The endpoint *)

(* A pending transfer completes; cancellation may race a report.  MaxReport *)
(* bounds the reports.                                                      *)
Complete(status) ==
  /\ transfer = "pending"
  /\ status = "report" => pushed < MaxReport
  /\ CASE status \in {"report", "empty", "error"} -> plugged
       [] status = "gone" -> ~plugged
       [] status = "cancelled" -> TRUE
  /\ transfer' = status
  /\ UNCHANGED <<queueState, loop, plugged, owner>>

Unplug ==
  /\ plugged
  /\ plugged' = FALSE
  /\ UNCHANGED <<queueState, loop, transfer, owner>>

-----------------------------------------------------------------------------
(* The reader thread *)

Start ==
  /\ loop = "start"
  /\ transfer' = "pending"
  /\ loop' = "check"
  /\ UNCHANGED <<queueState, plugged, owner>>

\* Mutant of KeepReading: the flag Drop sets is not looked at.
KeepReadingAlways == TRUE

KeepReading == ~shutdown

Check ==
  /\ loop = "check"
  /\ loop' = IF KeepReading THEN "wait" ELSE "cancel"
  /\ UNCHANGED <<queueState, transfer, plugged, owner>>

(* READER_POLL_INTERVAL passes without a completion. *)
WaitTimeout ==
  /\ loop = "wait" /\ transfer = "pending"
  /\ loop' = "check"
  /\ UNCHANGED <<queueState, transfer, plugged, owner>>

(* Take the completion the endpoint has, if its status is one of these. *)
TakeCompletion(statuses) ==
  /\ loop = "wait" /\ transfer \in statuses
  /\ transfer' = "none"
  /\ UNCHANGED <<plugged, owner>>

QueueReport ==
  /\ TakeCompletion({"report"})
  /\ Queue!Push(Producer)
  /\ loop' = "resubmit"

\* Mutant of Transient: a device that is gone counts as a passing fault.
TransientOrGone == {"error", "gone"}

(* What is neither data nor Disconnected nor Cancelled is tried again. *)
Transient == {"error"}

\* Mutant of AfterTransient: the buffer is not submitted again.
AfterTransientIdle == "check"

AfterTransient == "resubmit"

SkipCompletion ==
  /\ \/ TakeCompletion({"empty"}) /\ loop' = "resubmit"
     \/ TakeCompletion(Transient) /\ loop' = AfterTransient
  /\ UNCHANGED queueState

\* Mutant of FlagGone: the flag is stored without going through wake_parked.
FlagGoneQuietly ==
  /\ disconnected' = TRUE
  /\ UNCHANGED <<reports, wakers, shutdown, pushed, delivered, holder, pc, failure, token,
                 npc, taken>>

FlagGone == Queue!SetDisconnected(Producer)

NoticeGone ==
  /\ TakeCompletion({"gone"})
  /\ FlagGone
  /\ loop' = "cancel"

\* Mutant of EndQuietly: a cancelled transfer is reported as an unplug.
EndAsGone == Queue!SetDisconnected(Producer)

(* Cancelled leaves the loop without a word about the device. *)
EndQuietly == UNCHANGED queueState

NoticeCancelled ==
  /\ TakeCompletion({"cancelled"})
  /\ EndQuietly
  /\ loop' = "cancel"

Resubmit ==
  /\ loop = "resubmit" /\ npc[Producer] = "idle"
  /\ transfer' = "pending"
  /\ loop' = "check"
  /\ UNCHANGED <<queueState, plugged, owner>>

(* cancel_all asks for it; the cancelled transfer is still to be reclaimed. *)
CancelAll ==
  /\ loop = "cancel" /\ npc[Producer] = "idle"
  /\ loop' = "drain"
  /\ UNCHANGED <<queueState, transfer, plugged, owner>>

(* Reclaim completions whatever their status: a report among them is lost. *)
Reclaim ==
  /\ loop = "drain" /\ transfer \in Statuses
  /\ transfer' = "none"
  /\ UNCHANGED <<queueState, loop, plugged, owner>>

(* Nothing is pending, or nothing completes within a second. *)
DrainEnds ==
  /\ loop = "drain" /\ transfer \in {"none", "pending"}
  /\ loop' = "flag"
  /\ UNCHANGED <<queueState, transfer, plugged, owner>>

FlagStopped ==
  /\ loop = "flag"
  /\ Queue!SetShutdown(Producer)
  /\ loop' = "exit"
  /\ UNCHANGED <<transfer, plugged, owner>>

-----------------------------------------------------------------------------
(* The queue: a read needs a handle; what is under way goes on. *)

Read(r) ==
  /\ Usable
  /\ Queue!Read(r)
  /\ UNCHANGED <<loop, transfer, plugged, owner>>

ReadGoesOn(r) ==
  /\ \/ Queue!PollRead(r) \/ Queue!PollPark(r)
     \/ Queue!Woken(r) \/ Queue!SpuriousWake(r) \/ Queue!Cancel(r)
  /\ UNCHANGED <<loop, transfer, plugged, owner>>

WakeGoesOn(n) ==
  /\ Queue!TakeWakers(n) \/ Queue!Wake(n)
  /\ UNCHANGED <<loop, transfer, plugged, owner>>

LoopStep ==
  \/ Start \/ Check \/ QueueReport \/ SkipCompletion \/ NoticeGone \/ NoticeCancelled
  \/ Resubmit \/ CancelAll \/ Reclaim \/ DrainEnds \/ FlagStopped

Next ==
  \/ Open \/ OpenControlOnly \/ Drop \/ Join
  \/ (\E status \in Statuses : Complete(status)) \/ Unplug
  \/ LoopStep \/ WaitTimeout
  \/ \E r \in Readers : Read(r) \/ ReadGoesOn(r)
  \/ \E n \in Notifiers : WakeGoesOn(n)

(* Beside the queue's own fairness: the reader thread is scheduled, gets    *)
(* the mutex in the end and its waits time out (strong, as in ReportQueue), *)
(* a join returns, and a transfer pending on a device that is gone          *)
(* completes.  No report, error, unplug or drop is promised.                *)
Fairness ==
  /\ Queue!Fairness
  /\ SF_vars(LoopStep \/ WaitTimeout) /\ WF_vars(Join) /\ WF_vars(Complete("gone"))

Safety == Init /\ [][Next]_vars
Spec == Safety /\ Fairness

-----------------------------------------------------------------------------
(* Properties *)

(* Every variable keeps its type, the queue's included. *)
TypeOK ==
  /\ Queue!TypeOK
  /\ loop \in LoopStates
  /\ transfer \in Statuses \cup {"none", "pending"}
  /\ plugged \in BOOLEAN
  /\ owner \in OwnerStates

(* The reader thread keeps one interrupt IN transfer pending: whatever the   *)
(* last completion was, the loop does not wait for one it never submitted,   *)
(* which would leave an open device silent for good.                         *)
OneTransferInFlight == loop \in {"check", "wait"} => transfer # "none"

(* Disconnected is said only of a device that is gone: not for a cancelled   *)
(* transfer, a stall or a dropped handle.                                    *)
DisconnectedIsTrue == disconnected => ~plugged

(* The thread that sees the unplug also stops, and says so right after; no   *)
(* read that the two flags race may mistake the unplug for the stop, though  *)
(* it looked at the first flag before it was set.                            *)
StoppedNeverMasksUnplug ==
  [][\A r \in Readers :
       pc[r] # "idle" /\ pc'[r] = "idle" /\ failure'[r] = "stopped" => ~disconnected]_vars

(* Every outstanding read ends once the device is gone or nobody is left to  *)
(* queue a report: a control-only handle never had a reader thread.          *)
ReadsEnd ==
  \A r \in Readers :
    (~plugged \/ loop \in {"none", "exit"}) /\ pc[r] # "idle" ~> pc[r] = "idle"

(* Dropping the handle ends: the reader thread notices within its poll       *)
(* interval and gives up on a transfer that will not complete.               *)
DropEnds == owner = "dropping" ~> owner = "closed"
=============================================================================
