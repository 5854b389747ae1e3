-------------------------- MODULE NusbDeviceProofs --------------------------
(***************************************************************************)
(* Proofs about NusbDevice, for any number of reading tasks and any        *)
(* capacity of the queue.                                                  *)
(*                                                                         *)
(* A device does nothing to its queue that ReportQueue does not: what is   *)
(* proved of the queue for any readers and notifiers holds of the queue of *)
(* this device.  The rest is about the order in which the reader thread    *)
(* sets the two flags and lets go of the queue's mutex between them.       *)
(***************************************************************************)
EXTENDS NusbDevice, TLAPS

QueueProofs == INSTANCE ReportQueueProofs

\* The queue keeps its types and its lock, and nobody is in the way of a wake-up.
QueueInv == QueueProofs!TypeOK /\ QueueProofs!NotifierInv /\ QueueProofs!IInv

DeviceTypes ==
  /\ loop \in LoopStates
  /\ transfer \in Statuses \cup {"none", "pending"}
  /\ plugged \in BOOLEAN
  /\ owner \in OwnerStates

\* Before the handle there is no thread, and no flag but the one of a device
\* that is opened without an endpoint.
OpeningInv ==
  /\ owner = "new" => loop = "none" /\ ~shutdown
  /\ loop = "none" => ~disconnected

\* Who has stopped the queue: an open without an endpoint, Drop, or the thread
\* as its last act.
StopInv == shutdown => loop \in {"none", "exit"} \/ owner \in {"dropping", "closed"}

\* Drop has the handle for itself.
DropInv == owner \in {"dropping", "closed"} => \A r \in Readers : pc[r] = "idle"

\* The endpoint says that a device is gone only when it is, and so does the flag.
GoneInv == (transfer = "gone" => ~plugged) /\ DisconnectedIsTrue

\* A read that goes on has not failed.
FailureInv == \A r \in Readers : pc[r] # "idle" => failure[r] = "none"

\* A read that looked at `disconnected` before it was set, and has yet to look
\* at `shutdown`, holds the mutex: the thread cannot go on to set the latter.
MaskInv ==
  \A r \in Readers :
    pc[r] = "empty" /\ disconnected =>
      loop = "cancel" /\ npc[Producer] = "take" /\ ~shutdown

DeviceInv ==
  /\ QueueInv /\ DeviceTypes /\ OpeningInv /\ StopInv /\ DropInv /\ GoneInv
  /\ FailureInv /\ MaskInv /\ OneTransferInFlight

USE DeviceAssumption DEF DeviceAssumption

-----------------------------------------------------------------------------
(* The queue of a device is a ReportQueue *)

\* The queue that the device uses is the one that the proofs are about.
LEMMA SameQueue ==
  /\ Queue!Init <=> QueueProofs!Init
  /\ Queue!Next <=> QueueProofs!Next
  /\ Queue!vars = QueueProofs!vars
  /\ UNCHANGED Queue!vars <=> UNCHANGED QueueProofs!vars
<1> USE DEF Queue!queueVars, Queue!readerVars, Queue!notifierVars,
            QueueProofs!queueVars, QueueProofs!readerVars, QueueProofs!notifierVars
<1>1. Queue!Init <=> QueueProofs!Init
  BY DEF Queue!Init, QueueProofs!Init
<1>2. /\ Queue!vars = QueueProofs!vars
      /\ UNCHANGED Queue!vars <=> UNCHANGED QueueProofs!vars
  BY DEF Queue!vars, QueueProofs!vars
<1>3. ASSUME NEW n
      PROVE  Queue!Notify(n) <=> QueueProofs!Notify(n)
  BY DEF Queue!Notify, Queue!Push, Queue!Enqueue, Queue!TakeParked,
         Queue!SetDisconnected, Queue!SetShutdown, Queue!WakeParked,
         Queue!StartWakeParked,
         QueueProofs!Notify, QueueProofs!Push, QueueProofs!Enqueue,
         QueueProofs!TakeParked, QueueProofs!SetDisconnected,
         QueueProofs!SetShutdown, QueueProofs!WakeParked,
         QueueProofs!StartWakeParked
<1>4. ASSUME NEW n
      PROVE  /\ Queue!TakeWakers(n) <=> QueueProofs!TakeWakers(n)
             /\ Queue!Wake(n) <=> QueueProofs!Wake(n)
  BY DEF Queue!TakeWakers, Queue!TakeParked, Queue!Wake,
         QueueProofs!TakeWakers, QueueProofs!TakeParked, QueueProofs!Wake
<1>5. ASSUME NEW r
      PROVE  /\ Queue!Read(r) <=> QueueProofs!Read(r)
             /\ Queue!ReadIntoEmptyBuffer(r) <=> QueueProofs!ReadIntoEmptyBuffer(r)
  BY <1>2 DEF Queue!Read, Queue!ReadIntoEmptyBuffer,
              QueueProofs!Read, QueueProofs!ReadIntoEmptyBuffer
<1>6. ASSUME NEW r
      PROVE  /\ Queue!PollRead(r) <=> QueueProofs!PollRead(r)
             /\ Queue!PollPark(r) <=> QueueProofs!PollPark(r)
  BY DEF Queue!PollRead, Queue!PollPark, Queue!Return, Queue!GoneAndDrained,
         Queue!Register, QueueProofs!PollRead, QueueProofs!PollPark,
         QueueProofs!Return, QueueProofs!GoneAndDrained, QueueProofs!Register,
         Queue!Range, QueueProofs!Range
<1>7. ASSUME NEW r
      PROVE  /\ Queue!Woken(r) <=> QueueProofs!Woken(r)
             /\ Queue!SpuriousWake(r) <=> QueueProofs!SpuriousWake(r)
             /\ Queue!Cancel(r) <=> QueueProofs!Cancel(r)
  BY DEF Queue!Woken, Queue!SpuriousWake, Queue!Cancel,
         QueueProofs!Woken, QueueProofs!SpuriousWake, QueueProofs!Cancel
<1> QED
  BY <1>1, <1>2, <1>3, <1>4, <1>5, <1>6, <1>7 DEF Queue!Next, QueueProofs!Next

\* Every step of the device is a step of its queue, or leaves the queue alone.
LEMMA QueueSteps == [Next]_vars => [Queue!Next]_(Queue!vars)
<1> SUFFICES ASSUME [Next]_vars
             PROVE  Queue!Next \/ UNCHANGED Queue!vars
  OBVIOUS
<1>1. UNCHANGED queueState => UNCHANGED Queue!vars
  BY DEF queueState, Queue!vars
<1>2. ASSUME NEW n \in Notifiers,
             \/ Queue!Push(n) \/ Queue!SetDisconnected(n) \/ Queue!SetShutdown(n)
             \/ Queue!TakeWakers(n) \/ Queue!Wake(n)
      PROVE  Queue!Next
  BY <1>2 DEF Queue!Next, Queue!Notify
<1>3. ASSUME NEW r \in Readers,
             \/ Queue!Read(r) \/ Queue!PollRead(r) \/ Queue!PollPark(r)
             \/ Queue!Woken(r) \/ Queue!SpuriousWake(r) \/ Queue!Cancel(r)
      PROVE  Queue!Next
  BY <1>3 DEF Queue!Next
<1>4. Producer \in Notifiers /\ Owner \in Notifiers
  BY DEF Notifiers
<1>5. CASE Open \/ Join \/ Unplug \/ WaitTimeout \/ \E status \in Statuses : Complete(status)
  BY <1>1, <1>5 DEF Open, Join, Unplug, WaitTimeout, Complete
<1>6. CASE OpenControlOnly \/ Drop
  BY <1>2, <1>4, <1>6 DEF OpenControlOnly, Drop
<1>7. CASE LoopStep
  BY <1>1, <1>2, <1>4, <1>7
     DEF LoopStep, Start, Check, QueueReport, SkipCompletion, NoticeGone, FlagGone,
         NoticeCancelled, EndQuietly, Resubmit, CancelAll, Reclaim, DrainEnds, FlagStopped
<1>8. CASE \E r \in Readers : Read(r) \/ ReadGoesOn(r)
  BY <1>3, <1>8 DEF Read, ReadGoesOn
<1>9. CASE \E n \in Notifiers : WakeGoesOn(n)
  BY <1>2, <1>9 DEF WakeGoesOn
<1>10. CASE UNCHANGED vars
  BY <1>1, <1>10 DEF vars
<1> QED
  BY <1>5, <1>6, <1>7, <1>8, <1>9, <1>10 DEF Next

\* What is proved of the queue is kept by the steps of the device.
LEMMA StepQueue == QueueInv /\ [Next]_vars => QueueInv'
<1>1. [Next]_vars => [QueueProofs!Next]_(QueueProofs!vars)
  BY QueueSteps, SameQueue
<1> QED
  <2>1. QueueProofs!QueueAssumption
    BY DEF QueueProofs!QueueAssumption
  <2>2. QueueInv /\ [Next]_vars => QueueProofs!TypeOK' /\ QueueProofs!NotifierInv'
    BY <1>1, <2>1, QueueProofs!TypeStep DEF QueueInv
  <2>3. QueueInv /\ [Next]_vars => QueueProofs!IInv'
    BY <1>1, <2>1, QueueProofs!WakeupStep DEF QueueInv
  <2> QED
    BY <2>2, <2>3 DEF QueueInv

-----------------------------------------------------------------------------
(* The inductive invariant *)

\* A device that is about to be opened.
LEMMA InitDevice == Init => DeviceInv
<1> SUFFICES ASSUME Init PROVE DeviceInv
  OBVIOUS
<1>1. QueueProofs!Init
  BY SameQueue DEF Init
<1>2. QueueProofs!QueueAssumption
  BY DEF QueueProofs!QueueAssumption
<1>3. QueueInv
  BY <1>1, <1>2, QueueProofs!TypeInit, QueueProofs!WakeupInit
     DEF QueueInv, QueueProofs!Init, QueueProofs!NotifierInv
<1>4. ~disconnected /\ ~shutdown
      /\ pc = [r \in Readers |-> "idle"] /\ failure = [r \in Readers |-> "none"]
  BY DEF Init, Queue!Init
<1>5. DeviceTypes /\ OpeningInv /\ StopInv /\ DropInv /\ GoneInv /\ FailureInv /\ MaskInv
        /\ OneTransferInFlight
  BY <1>4 DEF Init, DeviceTypes, LoopStates, Statuses, OwnerStates, OpeningInv, StopInv,
              DropInv, GoneInv, DisconnectedIsTrue, FailureInv, MaskInv, OneTransferInFlight
<1> QED
  BY <1>3, <1>5 DEF DeviceInv

\* What the parts below need to know of the queue.
QueueTypes ==
  /\ disconnected \in BOOLEAN /\ shutdown \in BOOLEAN
  /\ pc \in [Readers -> Queue!ReaderStates]
  /\ failure \in [Readers -> Queue!Failures]
  /\ npc \in [Notifiers -> Queue!NotifierStates]
  /\ \A r \in Readers : pc[r] = "empty" <=> holder = r

\* The queue inside a device is typed.
LEMMA QueueFacts == QueueInv => QueueTypes /\ Queue!TypeOK
BY DEF QueueInv, QueueTypes, QueueProofs!TypeOK, QueueProofs!IInv, QueueProofs!LockInv,
       Queue!TypeOK, QueueProofs!ReaderStates, Queue!ReaderStates, QueueProofs!Failures,
       Queue!Failures, QueueProofs!NotifierStates, Queue!NotifierStates

\* How a step of the queue on behalf of a reading task, or a wake-up, changes what
\* the device's own state depends on.
LEMMA ReadSteps ==
  ASSUME QueueTypes, NEW r \in Readers, Read(r) \/ ReadGoesOn(r)
  PROVE  /\ UNCHANGED <<disconnected, shutdown, npc, loop, transfer, plugged, owner>>
         /\ \A q \in Readers \ {r} : pc'[q] = pc[q] /\ failure'[q] = failure[q]
<1> USE DEF QueueTypes, Queue!queueVars, Queue!notifierVars
<1>1. CASE Read(r)
  BY <1>1 DEF Read, Queue!Read
<1>2. CASE ReadGoesOn(r)
  BY <1>2 DEF ReadGoesOn, Queue!PollRead, Queue!PollPark, Queue!Woken,
              Queue!SpuriousWake, Queue!Cancel, Queue!Return
<1> QED
  BY <1>1, <1>2

\* What a notifier's step of the queue changes.
LEMMA WakeSteps ==
  ASSUME QueueTypes, NEW n \in Notifiers, WakeGoesOn(n)
  PROVE  /\ UNCHANGED <<disconnected, shutdown, holder, pc, failure, loop, transfer,
                         plugged, owner>>
         /\ \A m \in Notifiers \ {n} : npc'[m] = npc[m]
         /\ npc[n] = "take" => holder = NoReader
<1> USE DEF QueueTypes, WakeGoesOn
<1>1. CASE Queue!TakeWakers(n)
  BY <1>1 DEF Queue!TakeWakers, Queue!TakeParked, Queue!readerVars
<1>2. CASE Queue!Wake(n)
  BY <1>2 DEF Queue!Wake, Queue!queueVars
<1> QED
  BY <1>1, <1>2

\* A transfer ends once, and as a device that is gone only if it is.
LEMMA CompleteFacts ==
  ASSUME NEW status \in Statuses, Complete(status)
  PROVE  /\ transfer = "pending" /\ transfer' = status
         /\ status = "gone" => ~plugged
         /\ UNCHANGED <<queueState, loop, plugged, owner>>
<1>1. status = "gone" => ~plugged
  BY DEF Complete
<1> QED
  BY <1>1 DEF Complete

\* Where the thread and the handle are, and what that says of the endpoint and of
\* the flags.
LEMMA StepLoop ==
  DeviceInv /\ [Next]_vars =>
    DeviceTypes' /\ OpeningInv' /\ StopInv' /\ OneTransferInFlight'
<1> SUFFICES ASSUME DeviceInv, [Next]_vars
             PROVE  DeviceTypes' /\ OpeningInv' /\ StopInv' /\ OneTransferInFlight'
  OBVIOUS
<1>0. QueueTypes
  BY QueueFacts DEF DeviceInv
<1> USE DEF DeviceInv, DeviceTypes, OpeningInv, StopInv, OneTransferInFlight, LoopStates,
            Statuses, OwnerStates
<1>1. CASE Open \/ OpenControlOnly \/ Drop \/ Join
  BY <1>1 DEF Open, OpenControlOnly, Drop, Usable, Join, Queue!SetShutdown, queueState
<1>2. CASE Unplug \/ \E status \in Statuses : Complete(status)
  BY <1>2, CompleteFacts DEF Unplug, Statuses, queueState
<1>3. CASE Start \/ Check \/ WaitTimeout \/ Resubmit \/ CancelAll \/ Reclaim \/ DrainEnds
  BY <1>3 DEF Start, Check, KeepReading, WaitTimeout, Resubmit, CancelAll, Reclaim,
              DrainEnds, queueState
<1>4. CASE QueueReport \/ SkipCompletion \/ NoticeCancelled
  BY <1>4 DEF QueueReport, SkipCompletion, NoticeCancelled, EndQuietly, TakeCompletion,
              Transient, AfterTransient, Queue!Push, queueState
<1>5. CASE NoticeGone \/ FlagStopped
  BY <1>5 DEF NoticeGone, FlagGone, FlagStopped, TakeCompletion, Queue!SetDisconnected,
              Queue!SetShutdown
<1>6. CASE \E r \in Readers : Read(r) \/ ReadGoesOn(r)
  BY <1>0, <1>6, ReadSteps
<1>7. CASE \E n \in Notifiers : WakeGoesOn(n)
  BY <1>0, <1>7, WakeSteps
<1>8. CASE UNCHANGED vars
  BY <1>8 DEF vars, queueState
<1> QED
  BY <1>1, <1>2, <1>3, <1>4, <1>5, <1>6, <1>7, <1>8 DEF Next, LoopStep

\* Only an endpoint whose device is gone says so, and only then is the flag set.
LEMMA StepGone ==
  DeviceInv /\ [Next]_vars => GoneInv'
<1> SUFFICES ASSUME DeviceInv, [Next]_vars PROVE GoneInv'
  OBVIOUS
<1>0. QueueTypes
  BY QueueFacts DEF DeviceInv
<1> USE DEF DeviceInv, DeviceTypes, GoneInv, DisconnectedIsTrue
<1>1. CASE Open \/ OpenControlOnly \/ Drop \/ Join
  BY <1>1 DEF Open, OpenControlOnly, Drop, Join, Queue!SetShutdown, queueState
<1>2. CASE Unplug \/ \E status \in Statuses : Complete(status)
  BY <1>2, CompleteFacts DEF Unplug, Statuses, queueState
<1>3. CASE Start \/ Check \/ WaitTimeout \/ Resubmit \/ CancelAll \/ Reclaim \/ DrainEnds
  BY <1>3 DEF Start, Check, WaitTimeout, Resubmit, CancelAll, Reclaim, DrainEnds, queueState
<1>4. CASE QueueReport \/ SkipCompletion \/ NoticeCancelled
  BY <1>4 DEF QueueReport, SkipCompletion, NoticeCancelled, EndQuietly, TakeCompletion,
              Transient, Queue!Push, queueState
<1>5. CASE NoticeGone \/ FlagStopped
  BY <1>5 DEF NoticeGone, FlagGone, FlagStopped, TakeCompletion, Queue!SetDisconnected,
              Queue!SetShutdown
<1>6. CASE \E r \in Readers : Read(r) \/ ReadGoesOn(r)
  BY <1>0, <1>6, ReadSteps
<1>7. CASE \E n \in Notifiers : WakeGoesOn(n)
  BY <1>0, <1>7, WakeSteps
<1>8. CASE UNCHANGED vars
  BY <1>8 DEF vars, queueState
<1> QED
  BY <1>1, <1>2, <1>3, <1>4, <1>5, <1>6, <1>7, <1>8 DEF Next, LoopStep

\* Drop and reads exclude each other, and a read that goes on has not failed.
LEMMA StepReads ==
  DeviceInv /\ [Next]_vars => DropInv' /\ FailureInv'
<1> SUFFICES ASSUME DeviceInv, [Next]_vars PROVE DropInv' /\ FailureInv'
  OBVIOUS
<1>0. QueueTypes
  BY QueueFacts DEF DeviceInv
<1> USE DEF DeviceInv, DropInv, FailureInv
<1>1. CASE Open \/ OpenControlOnly \/ Drop \/ Join
  BY <1>1 DEF Open, OpenControlOnly, Drop, Join, Queue!SetShutdown, Queue!readerVars,
              queueState
<1>2. CASE Unplug \/ WaitTimeout \/ \E status \in Statuses : Complete(status)
  BY <1>2 DEF Unplug, WaitTimeout, Complete, queueState
<1>3. CASE LoopStep
  BY <1>3 DEF LoopStep, Start, Check, QueueReport, SkipCompletion, NoticeGone, FlagGone,
              NoticeCancelled, EndQuietly, Resubmit, CancelAll, Reclaim, DrainEnds,
              FlagStopped, TakeCompletion, Queue!Push, Queue!SetDisconnected,
              Queue!SetShutdown, Queue!readerVars, queueState
<1>4. ASSUME NEW r \in Readers, Read(r) \/ ReadGoesOn(r)
      PROVE  DropInv' /\ FailureInv'
  <2>1. UNCHANGED owner /\ \A q \in Readers \ {r} : pc'[q] = pc[q] /\ failure'[q] = failure[q]
    BY <1>0, <1>4, ReadSteps
  <2>2. owner \notin {"dropping", "closed"}
    BY <1>4 DEF Read, Usable, ReadGoesOn, Queue!PollRead, Queue!PollPark, Queue!Woken,
                Queue!SpuriousWake, Queue!Cancel
  <2>3. pc'[r] # "idle" => failure'[r] = "none"
    BY <1>0, <1>4 DEF QueueTypes, Read, ReadGoesOn, Queue!Read, Queue!PollRead,
                      Queue!PollPark, Queue!Woken, Queue!SpuriousWake, Queue!Cancel,
                      Queue!Return
  <2> QED
    BY <2>1, <2>2, <2>3
<1>5. CASE \E n \in Notifiers : WakeGoesOn(n)
  BY <1>0, <1>5, WakeSteps
<1>6. CASE UNCHANGED vars
  BY <1>6 DEF vars, queueState
<1> QED
  BY <1>1, <1>2, <1>3, <1>4, <1>5, <1>6 DEF Next

\* The thread cannot take the wakers, and so goes no further than the first flag,
\* while a read that has seen neither flag holds the mutex; and Drop, which sets the
\* second flag too, waits for no read to be left.
LEMMA StepMask ==
  DeviceInv /\ [Next]_vars => MaskInv'
<1> SUFFICES ASSUME DeviceInv, [Next]_vars, NEW r \in Readers, pc'[r] = "empty", disconnected'
             PROVE  loop' = "cancel" /\ npc'[Producer] = "take" /\ ~shutdown'
  BY DEF MaskInv
<1>0. QueueTypes /\ NoReader # r
  BY QueueFacts DEF DeviceInv
<1> USE DEF DeviceInv, OpeningInv, MaskInv
<1>1. CASE Open \/ OpenControlOnly \/ Drop \/ Join
  BY <1>1 DEF Open, OpenControlOnly, Drop, Join, Queue!SetShutdown, Queue!readerVars,
              queueState
<1>2. CASE Unplug \/ WaitTimeout \/ \E status \in Statuses : Complete(status)
  BY <1>2, CompleteFacts DEF Unplug, WaitTimeout, queueState
<1>3. CASE Start \/ Check \/ Resubmit \/ CancelAll \/ Reclaim \/ DrainEnds
  BY <1>3 DEF Start, Check, Resubmit, CancelAll, Reclaim, DrainEnds, queueState
<1>4. CASE QueueReport \/ SkipCompletion \/ NoticeCancelled
  BY <1>4 DEF QueueReport, SkipCompletion, NoticeCancelled, EndQuietly, TakeCompletion,
              Queue!Push, Queue!readerVars, queueState
<1>5. CASE NoticeGone
  <2>1. /\ loop = "wait" /\ loop' = "cancel" /\ pc[r] = "empty"
        /\ shutdown' = shutdown /\ npc' = [npc EXCEPT ![Producer] = "take"]
    BY <1>5 DEF NoticeGone, TakeCompletion, FlagGone, Queue!SetDisconnected,
                Queue!StartWakeParked, Queue!readerVars
  <2>2. ~shutdown
    BY <2>1 DEF StopInv, DropInv
  <2> QED
    BY <1>0, <2>1, <2>2 DEF QueueTypes, Notifiers
<1>6. CASE FlagStopped
  BY <1>6 DEF FlagStopped, Queue!SetShutdown, Queue!readerVars
<1>7. ASSUME NEW q \in Readers, Read(q) \/ ReadGoesOn(q)
      PROVE  pc[r] = "empty" /\ disconnected /\ UNCHANGED <<shutdown, npc, loop>>
  <2>1. /\ UNCHANGED <<disconnected, shutdown, npc, loop>>
        /\ r # q => pc[r] = pc'[r]
    BY <1>0, <1>7, ReadSteps
  <2>2. pc'[q] # "empty"
    BY <1>0, <1>7, <2>1
       DEF QueueTypes, Read, ReadGoesOn, Queue!Read, Queue!PollRead, Queue!PollPark,
           Queue!Woken, Queue!SpuriousWake, Queue!Cancel, Queue!Return
  <2> QED
    BY <2>1, <2>2
<1>8. ASSUME NEW n \in Notifiers, WakeGoesOn(n)
      PROVE  pc[r] = "empty" /\ disconnected /\ UNCHANGED <<shutdown, loop, npc[Producer]>>
  <2>1. /\ UNCHANGED <<disconnected, shutdown, holder, pc, loop>>
        /\ \A m \in Notifiers \ {n} : npc'[m] = npc[m]
        /\ npc[n] = "take" => holder = NoReader
    BY <1>0, <1>8, WakeSteps
  <2>2. npc[Producer] = "take" /\ holder = r
    BY <1>0, <2>1 DEF QueueTypes
  <2>3. n # Producer
    BY <1>0, <2>1, <2>2
  <2> QED
    BY <2>1, <2>3 DEF Notifiers
<1>9. CASE UNCHANGED vars
  BY <1>9 DEF vars, queueState
<1> QED
  BY <1>1, <1>2, <1>3, <1>4, <1>5, <1>6, <1>7, <1>8, <1>9 DEF Next, LoopStep

\* DeviceInv is kept by every step.
LEMMA StepDevice == DeviceInv /\ [Next]_vars => DeviceInv'
BY StepQueue, StepLoop, StepGone, StepReads, StepMask DEF DeviceInv

\* What a USB device keeps in every behaviour.
LEMMA DeviceInvariance == Safety => []DeviceInv
BY InitDevice, StepDevice, PTL DEF Safety

-----------------------------------------------------------------------------
(* Theorems *)

\* A device is a user of its queue like any other: for its queue too, whatever the
\* thread, the owner and the tasks do, no wake-up is lost (queue.rs:36), and all
\* that is proved of ReportQueue holds.
THEOREM DeviceUsesQueue == Spec => Queue!Safety
<1>1. Init => Queue!Init
  BY DEF Init
<1> QED
  BY <1>1, QueueSteps, PTL DEF Spec, Safety, Queue!Safety

\* Every variable keeps its type in every reachable state, the queue's included.
THEOREM TypeCorrect == Spec => []TypeOK
<1>1. DeviceInv => TypeOK
  BY QueueFacts DEF DeviceInv, DeviceTypes, TypeOK
<1> QED
  BY <1>1, DeviceInvariance, PTL DEF Spec

\* read_loop never waits for a completion of a transfer it has not submitted.
THEOREM AlwaysOneTransfer == Spec => []OneTransferInFlight
<1>1. DeviceInv => OneTransferInFlight
  BY DEF DeviceInv
<1> QED
  BY <1>1, DeviceInvariance, PTL DEF Spec

\* A read fails with Disconnected only if the device has been unplugged.
THEOREM DisconnectedAlwaysTrue == Spec => []DisconnectedIsTrue
<1>1. DeviceInv => DisconnectedIsTrue
  BY DEF DeviceInv, GoneInv
<1> QED
  BY <1>1, DeviceInvariance, PTL DEF Spec

\* No parked read of the device sleeps over a report, an unplug or a stop.
THEOREM NoReadSleepsOn == Spec => []Queue!NoLostWakeup
<1> USE DEF Queue!NoLostWakeup, Queue!AboutToBeWoken, Queue!WakersAboutToBeTaken,
            Queue!Range
<1>1. QueueInv => Queue!NoLostWakeup
  BY DEF QueueInv, QueueProofs!IInv, QueueProofs!WakersInv, QueueProofs!ParkedInv,
         QueueProofs!AboutToBeWoken, QueueProofs!WakersAboutToBeTaken, QueueProofs!Range
<1> QED
  BY <1>1, DeviceInvariance, PTL DEF Spec, DeviceInv

\* A read that ends as stopped did not overlook an unplug.
LEMMA StoppedStep ==
  ASSUME DeviceInv, [Next]_vars, NEW r \in Readers,
         pc[r] # "idle", pc'[r] = "idle", failure'[r] = "stopped"
  PROVE  ~disconnected
<1>0. QueueTypes
  BY QueueFacts DEF DeviceInv
<1>1. failure[r] = "none"
  BY DEF DeviceInv, FailureInv
<1>2. PICK q \in Readers : Read(q) \/ ReadGoesOn(q)
  <2>1. ~(Open \/ OpenControlOnly \/ Drop \/ Join \/ Unplug \/ WaitTimeout)
    BY DEF Open, OpenControlOnly, Drop, Join, Unplug, WaitTimeout, Queue!SetShutdown,
           Queue!readerVars, queueState
  <2>2. ~LoopStep
    BY DEF LoopStep, Start, Check, QueueReport, SkipCompletion, NoticeGone, FlagGone,
           NoticeCancelled, EndQuietly, Resubmit, CancelAll, Reclaim, DrainEnds,
           FlagStopped, TakeCompletion, Queue!Push, Queue!SetDisconnected,
           Queue!SetShutdown, Queue!readerVars, queueState
  <2>3. ~(\E status \in Statuses : Complete(status))
    BY CompleteFacts DEF queueState
  <2>4. ~(\E n \in Notifiers : WakeGoesOn(n)) /\ ~UNCHANGED vars
    BY <1>0, WakeSteps DEF vars, queueState
  <2> QED
    BY <2>1, <2>2, <2>3, <2>4 DEF Next
<1>3. q = r
  BY <1>0, <1>2, ReadSteps
<1>4. Queue!PollPark(r) /\ shutdown
  BY <1>0, <1>1, <1>2, <1>3
     DEF QueueTypes, Read, ReadGoesOn, Queue!Read, Queue!PollRead, Queue!PollPark,
         Queue!Woken, Queue!SpuriousWake, Queue!Cancel, Queue!Return
<1> QED
  BY <1>4 DEF Queue!PollPark, DeviceInv, MaskInv

\* The two flags are set in an order, and looked at in one, that never lets a read
\* mistake an unplug for the stop that follows it.
THEOREM StoppedNeverMasks == Spec => StoppedNeverMasksUnplug
<1>1. DeviceInv /\ [Next]_vars =>
        [\A r \in Readers :
           pc[r] # "idle" /\ pc'[r] = "idle" /\ failure'[r] = "stopped" => ~disconnected]_vars
  BY StoppedStep
<1> QED
  BY <1>1, DeviceInvariance, PTL DEF Spec, Safety, StoppedNeverMasksUnplug
=============================================================================
