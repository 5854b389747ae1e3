--------------------------- MODULE MacDeviceProofs ---------------------------
(***************************************************************************)
(* Proofs about MacDevice, for any number of reading tasks and any         *)
(* capacity of the queue.                                                  *)
(*                                                                         *)
(* As in NusbDeviceProofs, a device does nothing to its queue that         *)
(* ReportQueue does not.  The rest is about what Drop may conclude from    *)
(* the copies it makes of what the read thread goes on changing, and why   *)
(* a run loop that ends means an unplug unless Drop has ended it.          *)
(***************************************************************************)
EXTENDS MacDevice, TLAPS

QueueProofs == INSTANCE ReportQueueProofs

\* The queue keeps its types and its lock, and nobody is in the way of a wake-up.
QueueInv == QueueProofs!TypeOK /\ QueueProofs!NotifierInv /\ QueueProofs!IInv

DeviceTypes ==
  /\ loop \in LoopStates
  /\ stop \in BOOLEAN /\ ready \in BOOLEAN /\ runLoop \in BOOLEAN
  /\ attached \in BOOLEAN /\ callbacks \in BOOLEAN /\ plugged \in BOOLEAN
  /\ sawGone \in BOOLEAN /\ sawLoop \in BOOLEAN
  /\ place \in {"none", "thread", "main"}
  /\ owner \in OwnerStates

\* The thread publishes its run loop once, and takes it back after its last slice.
ThreadInv ==
  /\ ready <=> loop \notin {"none", "start", "publish"}
  /\ runLoop <=> loop \in {"check", "enter", "ended", "clear"} \cup Pumping

\* The handle is there only once the thread has passed the barrier, or will
\* never run.
BarrierInv ==
  /\ owner = "new" => loop = "none" /\ place = "none"
  /\ loop = "none" => owner \in {"new", "closed"}
  /\ owner \notin {"new", "barrier"} => ready \/ loop = "none"

\* Only Drop shuts the queue down, and it does before it stops the run loop.
ShutdownInv == owner \in {"stop", "join"} => shutdown

\* A run loop is stopped by Drop or by the removal callback.
StopInv ==
  /\ stop => shutdown \/ disconnected
  /\ loop = "removal" => disconnected
  /\ loop = "ended" => shutdown \/ disconnected

\* Drop moves the device to the main run loop only after it has unregistered the
\* callbacks; nobody registers any once there is a handle.
HomeInv ==
  /\ owner = "unregistered" /\ ~sawGone => ~callbacks
  /\ CallbacksStayHome

DeviceInv ==
  /\ QueueInv /\ DeviceTypes /\ ThreadInv /\ BarrierInv /\ ShutdownInv /\ StopInv
  /\ HomeInv /\ DropKnowsLoop /\ DisconnectedIsTrue

USE DeviceAssumption DEF DeviceAssumption

-----------------------------------------------------------------------------
(* The queue of a device is a ReportQueue *)

\* The queue that the device uses is the one that the proofs are about.
LEMMA SameQueue ==
  /\ Queue!Init <=> QueueProofs!Init
  /\ Queue!Next <=> QueueProofs!Next
  /\ Queue!vars = QueueProofs!vars
  /\ UNCHANGED Queue!vars <=> UNCHANGED QueueProofs!vars
<1> USE DEF Queue!queueVars, Queue!readerVars, Queue!notifierVars,
            QueueProofs!queueVars, QueueProofs!readerVars, QueueProofs!notifierVars
<1>1. Queue!Init <=> QueueProofs!Init
  BY DEF Queue!Init, QueueProofs!Init
<1>2. /\ Queue!vars = QueueProofs!vars
      /\ UNCHANGED Queue!vars <=> UNCHANGED QueueProofs!vars
  BY DEF Queue!vars, QueueProofs!vars
<1>3. ASSUME NEW n
      PROVE  Queue!Notify(n) <=> QueueProofs!Notify(n)
  BY DEF Queue!Notify, Queue!Push, Queue!Enqueue, Queue!TakeParked,
         Queue!SetDisconnected, Queue!SetShutdown, Queue!WakeParked,
         Queue!StartWakeParked,
         QueueProofs!Notify, QueueProofs!Push, QueueProofs!Enqueue,
         QueueProofs!TakeParked, QueueProofs!SetDisconnected,
         QueueProofs!SetShutdown, QueueProofs!WakeParked,
         QueueProofs!StartWakeParked
<1>4. ASSUME NEW n
      PROVE  /\ Queue!TakeWakers(n) <=> QueueProofs!TakeWakers(n)
             /\ Queue!Wake(n) <=> QueueProofs!Wake(n)
  BY DEF Queue!TakeWakers, Queue!TakeParked, Queue!Wake,
         QueueProofs!TakeWakers, QueueProofs!TakeParked, QueueProofs!Wake
<1>5. ASSUME NEW r
      PROVE  /\ Queue!Read(r) <=> QueueProofs!Read(r)
             /\ Queue!ReadIntoEmptyBuffer(r) <=> QueueProofs!ReadIntoEmptyBuffer(r)
  BY <1>2 DEF Queue!Read, Queue!ReadIntoEmptyBuffer,
              QueueProofs!Read, QueueProofs!ReadIntoEmptyBuffer
<1>6. ASSUME NEW r
      PROVE  /\ Queue!PollRead(r) <=> QueueProofs!PollRead(r)
             /\ Queue!PollPark(r) <=> QueueProofs!PollPark(r)
  BY DEF Queue!PollRead, Queue!PollPark, Queue!Return, Queue!GoneAndDrained,
         Queue!Register, QueueProofs!PollRead, QueueProofs!PollPark,
         QueueProofs!Return, QueueProofs!GoneAndDrained, QueueProofs!Register,
         Queue!Range, QueueProofs!Range
<1>7. ASSUME NEW r
      PROVE  /\ Queue!Woken(r) <=> QueueProofs!Woken(r)
             /\ Queue!SpuriousWake(r) <=> QueueProofs!SpuriousWake(r)
             /\ Queue!Cancel(r) <=> QueueProofs!Cancel(r)
  BY DEF Queue!Woken, Queue!SpuriousWake, Queue!Cancel,
         QueueProofs!Woken, QueueProofs!SpuriousWake, QueueProofs!Cancel
<1> QED
  BY <1>1, <1>2, <1>3, <1>4, <1>5, <1>6, <1>7 DEF Queue!Next, QueueProofs!Next

\* Every step of the device is a step of its queue, or leaves the queue alone.
LEMMA QueueSteps == [Next]_vars => [Queue!Next]_(Queue!vars)
<1> SUFFICES ASSUME [Next]_vars
             PROVE  Queue!Next \/ UNCHANGED Queue!vars
  OBVIOUS
<1>1. UNCHANGED queueState => UNCHANGED Queue!vars
  BY DEF queueState, Queue!vars
<1>2. ASSUME NEW n \in Notifiers,
             \/ Queue!Push(n) \/ Queue!SetDisconnected(n) \/ Queue!SetShutdown(n)
             \/ Queue!WakeParked(n) \/ Queue!TakeWakers(n) \/ Queue!Wake(n)
      PROVE  Queue!Next
  BY <1>2 DEF Queue!Next, Queue!Notify
<1>3. ASSUME NEW r \in Readers,
             \/ Queue!Read(r) \/ Queue!PollRead(r) \/ Queue!PollPark(r)
             \/ Queue!Woken(r) \/ Queue!SpuriousWake(r) \/ Queue!Cancel(r)
      PROVE  Queue!Next
  BY <1>3 DEF Queue!Next
<1>4. Producer \in Notifiers /\ Owner \in Notifiers
  BY DEF Notifiers
<1>5. CASE Open \/ SpawnFails \/ Opened \/ Attach \/ Unplug
  BY <1>1, <1>5 DEF Open, SpawnFails, Opened, Attach, Unplug
<1>6. CASE ThreadStep \/ InputReport \/ Removal
  BY <1>1, <1>2, <1>4, <1>6
     DEF ThreadStep, Schedule, Publish, Check, EnterRunLoop, SliceEnds, RunLoopReturns,
         RunLoopEnded, ClearRunLoop, LastWake, RemovalStops, InputReport, Removal
<1>7. CASE DropLooks \/ DropStep
  BY <1>1, <1>2, <1>4, <1>7
     DEF DropLooks, DropStep, DropCopies, DropUnregisters, DropMoves, DropShutsDown,
         DropStops, DropJoins
<1>8. CASE \E r \in Readers : Read(r) \/ ReadGoesOn(r)
  BY <1>3, <1>8 DEF Read, ReadGoesOn
<1>9. CASE \E n \in Notifiers : WakeGoesOn(n)
  BY <1>2, <1>9 DEF WakeGoesOn
<1>10. CASE UNCHANGED vars
  BY <1>1, <1>10 DEF vars
<1> QED
  BY <1>5, <1>6, <1>7, <1>8, <1>9, <1>10 DEF Next

\* What is proved of the queue is kept by the steps of the device.
LEMMA StepQueue == QueueInv /\ [Next]_vars => QueueInv'
<1>1. [Next]_vars => [QueueProofs!Next]_(QueueProofs!vars)
  BY QueueSteps, SameQueue
<1> QED
  <2>1. QueueProofs!QueueAssumption
    BY DEF QueueProofs!QueueAssumption
  <2>2. QueueInv /\ [Next]_vars => QueueProofs!TypeOK' /\ QueueProofs!NotifierInv'
    BY <1>1, <2>1, QueueProofs!TypeStep DEF QueueInv
  <2>3. QueueInv /\ [Next]_vars => QueueProofs!IInv'
    BY <1>1, <2>1, QueueProofs!WakeupStep DEF QueueInv
  <2> QED
    BY <2>2, <2>3 DEF QueueInv

-----------------------------------------------------------------------------
(* The inductive invariant *)

\* A device that is about to be opened.
LEMMA InitDevice == Init => DeviceInv
<1> SUFFICES ASSUME Init PROVE DeviceInv
  OBVIOUS
<1>1. QueueProofs!Init
  BY SameQueue DEF Init
<1>2. QueueProofs!QueueAssumption
  BY DEF QueueProofs!QueueAssumption
<1>3. QueueInv
  BY <1>1, <1>2, QueueProofs!TypeInit, QueueProofs!WakeupInit
     DEF QueueInv, QueueProofs!Init, QueueProofs!NotifierInv
<1>4. ~disconnected
  BY DEF Init, Queue!Init
<1>5. DeviceTypes /\ ThreadInv /\ BarrierInv /\ ShutdownInv /\ StopInv /\ HomeInv
        /\ DropKnowsLoop /\ DisconnectedIsTrue
  BY <1>4 DEF Init, DeviceTypes, LoopStates, Pumping, OwnerStates, ThreadInv, BarrierInv,
              ShutdownInv, StopInv, HomeInv, CallbacksStayHome, DropKnowsLoop,
              DisconnectedIsTrue
<1> QED
  BY <1>3, <1>5 DEF DeviceInv

\* A step of the queue on behalf of a reading task, or a wake-up, touches nothing
\* that the device's own state depends on.
LEMMA ReadSteps ==
  ASSUME NEW r \in Readers, Read(r) \/ ReadGoesOn(r)
  PROVE  UNCHANGED <<disconnected, shutdown, threadState, deviceState, ownerState>>
BY DEF Read, ReadGoesOn, Queue!Read, Queue!PollRead, Queue!PollPark, Queue!Woken,
       Queue!SpuriousWake, Queue!Cancel, Queue!queueVars

\* What a notifier's step of the queue changes.
LEMMA WakeSteps ==
  ASSUME NEW n \in Notifiers, WakeGoesOn(n)
  PROVE  UNCHANGED <<disconnected, shutdown, threadState, deviceState, ownerState>>
BY DEF WakeGoesOn, Queue!TakeWakers, Queue!Wake, Queue!queueVars

\* Every variable of the device's own keeps its type.
LEMMA StepTypes ==
  DeviceInv /\ [Next]_vars => DeviceTypes'
<1> SUFFICES ASSUME DeviceTypes, disconnected \in BOOLEAN, [Next]_vars
             PROVE  DeviceTypes'
  BY DEF DeviceInv, QueueInv, QueueProofs!TypeOK
<1> USE DEF DeviceTypes, LoopStates, Pumping, OwnerStates,
            queueState, threadState, deviceState, ownerState
<1>1. CASE Open \/ SpawnFails \/ Opened
  <2> USE <1>1 DEF Open, SpawnFails, Opened
  <2>1. loop' \in LoopStates /\ place' \in {"none", "thread", "main"} /\ owner' \in OwnerStates
    OBVIOUS
  <2>2. stop' \in BOOLEAN /\ ready' \in BOOLEAN /\ runLoop' \in BOOLEAN
    OBVIOUS
  <2>3. attached' \in BOOLEAN /\ callbacks' \in BOOLEAN /\ plugged' \in BOOLEAN
    OBVIOUS
  <2>4. sawGone' \in BOOLEAN /\ sawLoop' \in BOOLEAN
    OBVIOUS
  <2> QED
    BY <2>1, <2>2, <2>3, <2>4
<1>2. CASE Attach
  BY <1>2 DEF Attach
<1>3. CASE Unplug
  <2> USE <1>3 DEF Unplug
  <2>1. loop' \in LoopStates /\ place' \in {"none", "thread", "main"} /\ owner' \in OwnerStates
    OBVIOUS
  <2>2. stop' \in BOOLEAN /\ ready' \in BOOLEAN /\ runLoop' \in BOOLEAN
    OBVIOUS
  <2>3. attached' \in BOOLEAN /\ callbacks' \in BOOLEAN /\ plugged' \in BOOLEAN
    OBVIOUS
  <2>4. sawGone' \in BOOLEAN /\ sawLoop' \in BOOLEAN
    OBVIOUS
  <2> QED
    BY <2>1, <2>2, <2>3, <2>4
<1>4. CASE Schedule \/ Check \/ SliceEnds \/ RunLoopReturns
  BY <1>4 DEF Schedule, Check, SliceEnds, RunLoopReturns
<1>5. CASE Publish
  BY <1>5 DEF Publish
<1>6. CASE EnterRunLoop
  <2> USE <1>6 DEF EnterRunLoop
  <2>1. loop' \in LoopStates /\ place' \in {"none", "thread", "main"} /\ owner' \in OwnerStates
    OBVIOUS
  <2>2. stop' \in BOOLEAN /\ ready' \in BOOLEAN /\ runLoop' \in BOOLEAN
    OBVIOUS
  <2>3. attached' \in BOOLEAN /\ callbacks' \in BOOLEAN /\ plugged' \in BOOLEAN
    OBVIOUS
  <2>4. sawGone' \in BOOLEAN /\ sawLoop' \in BOOLEAN
    OBVIOUS
  <2> QED
    BY <2>1, <2>2, <2>3, <2>4
<1>7. CASE ClearRunLoop
  <2> USE <1>7 DEF ClearRunLoop
  <2>1. loop' \in LoopStates /\ place' \in {"none", "thread", "main"} /\ owner' \in OwnerStates
    OBVIOUS
  <2>2. stop' \in BOOLEAN /\ ready' \in BOOLEAN /\ runLoop' \in BOOLEAN
    OBVIOUS
  <2>3. attached' \in BOOLEAN /\ callbacks' \in BOOLEAN /\ plugged' \in BOOLEAN
    OBVIOUS
  <2>4. sawGone' \in BOOLEAN /\ sawLoop' \in BOOLEAN
    OBVIOUS
  <2> QED
    BY <2>1, <2>2, <2>3, <2>4
<1>8. CASE RemovalStops
  BY <1>8 DEF RemovalStops
<1>9. CASE RunLoopEnded \/ LastWake \/ InputReport \/ Removal
  BY <1>9 DEF RunLoopEnded, LastWake, InputReport, Removal
<1>10. CASE DropLooks
  BY <1>10 DEF DropLooks
<1>11. CASE DropCopies
  BY <1>11 DEF DropCopies
<1>12. CASE DropUnregisters
  BY <1>12 DEF DropUnregisters, Unregistered
<1>13. CASE DropMoves
  <2> USE <1>13 DEF DropMoves
  <2>1. loop' \in LoopStates /\ place' \in {"none", "thread", "main"} /\ owner' \in OwnerStates
    OBVIOUS
  <2>2. stop' \in BOOLEAN /\ ready' \in BOOLEAN /\ runLoop' \in BOOLEAN
    OBVIOUS
  <2>3. attached' \in BOOLEAN /\ callbacks' \in BOOLEAN /\ plugged' \in BOOLEAN
    OBVIOUS
  <2>4. sawGone' \in BOOLEAN /\ sawLoop' \in BOOLEAN
    OBVIOUS
  <2> QED
    BY <2>1, <2>2, <2>3, <2>4
<1>14. CASE DropShutsDown \/ DropJoins
  BY <1>14 DEF DropShutsDown, DropJoins
<1>15. CASE DropStops
  BY <1>15 DEF DropStops
<1>16. CASE \E r \in Readers : Read(r) \/ ReadGoesOn(r)
  BY <1>16, ReadSteps
<1>17. CASE \E n \in Notifiers : WakeGoesOn(n)
  BY <1>17, WakeSteps
<1>18. CASE UNCHANGED vars
  BY <1>18 DEF vars
<1> QED
  BY <1>1, <1>2, <1>3, <1>4, <1>5, <1>6, <1>7, <1>8, <1>9, <1>10, <1>11, <1>12,
     <1>13, <1>14, <1>15, <1>16, <1>17, <1>18 DEF Next, ThreadStep, DropStep

\* The thread, the run loop it publishes and the barrier of open.
LEMMA StepThread ==
  DeviceInv /\ [Next]_vars => ThreadInv' /\ BarrierInv'
<1> SUFFICES ASSUME DeviceInv, [Next]_vars
             PROVE  ThreadInv' /\ BarrierInv'
  OBVIOUS
<1>0. disconnected \in BOOLEAN
  BY DEF DeviceInv, QueueInv, QueueProofs!TypeOK
<1> USE <1>0 DEF DeviceInv, DeviceTypes, LoopStates, Pumping, OwnerStates, ThreadInv, BarrierInv,
            queueState, threadState, deviceState, ownerState
<1>1. CASE Open \/ SpawnFails \/ Opened \/ Attach \/ Unplug
  BY <1>1 DEF Open, SpawnFails, Opened, Started, Attach, Unplug
<1>2. CASE Schedule \/ Publish \/ Check \/ EnterRunLoop \/ SliceEnds
  BY <1>2 DEF ThreadAt, Schedule, Publish, Check, KeepPumping, EnterRunLoop, SliceEnds
<1>3. CASE RunLoopReturns \/ ClearRunLoop \/ RemovalStops
  BY <1>3 DEF ThreadAt, RunLoopReturns, HasSources, ClearRunLoop, RemovalStops
<1>4. CASE RunLoopEnded
  BY <1>4 DEF ThreadAt, RunLoopEnded, Queue!SetDisconnected
<1>5. CASE LastWake
  BY <1>5 DEF ThreadAt, LastWake, Queue!WakeParked, Queue!queueVars
<1>6. CASE InputReport \/ Removal
  BY <1>6 DEF ThreadAt, CallbackRuns, InputReport, Queue!Push, Removal,
              Queue!SetDisconnected
<1>7. CASE DropLooks \/ DropCopies \/ DropUnregisters \/ DropMoves
  BY <1>7 DEF DropLooks, DropCopies, DropUnregisters, Unregistered, DropMoves
<1>8. CASE DropShutsDown \/ DropStops \/ DropJoins
  BY <1>8 DEF ThreadAt, DropShutsDown, Queue!SetShutdown, DropStops, DropJoins
<1>9. CASE \E r \in Readers : Read(r) \/ ReadGoesOn(r)
  BY <1>9, ReadSteps
<1>10. CASE \E n \in Notifiers : WakeGoesOn(n)
  BY <1>10, WakeSteps
<1>11. CASE UNCHANGED vars
  BY <1>11 DEF vars
<1> QED
  BY <1>1, <1>2, <1>3, <1>4, <1>5, <1>6, <1>7, <1>8, <1>9, <1>10, <1>11
     DEF Next, ThreadStep, DropStep

\* Who sets the two flags, who stops the run loop, and when a run loop ends.
LEMMA StepStop ==
  DeviceInv /\ [Next]_vars => ShutdownInv' /\ StopInv' /\ DisconnectedIsTrue'
<1> SUFFICES ASSUME DeviceInv, [Next]_vars
             PROVE  ShutdownInv' /\ StopInv' /\ DisconnectedIsTrue'
  OBVIOUS
<1>0. disconnected \in BOOLEAN
  BY DEF DeviceInv, QueueInv, QueueProofs!TypeOK
<1> USE <1>0 DEF DeviceInv, DeviceTypes, Pumping, ShutdownInv, StopInv, DisconnectedIsTrue,
            queueState, threadState, deviceState, ownerState
<1>1. CASE Open \/ SpawnFails \/ Opened \/ Attach \/ Unplug
  BY <1>1 DEF Open, SpawnFails, Opened, Started, Attach, Unplug
<1>2. CASE Schedule \/ Publish \/ Check \/ EnterRunLoop \/ SliceEnds
  BY <1>2 DEF ThreadAt, Schedule, Publish, Check, KeepPumping, EnterRunLoop, SliceEnds
<1>3. CASE RunLoopReturns \/ ClearRunLoop \/ RemovalStops
  BY <1>3 DEF ThreadAt, RunLoopReturns, HasSources, ClearRunLoop, RemovalStops
<1>4. CASE RunLoopEnded
  BY <1>4 DEF ThreadAt, RunLoopEnded, Queue!SetDisconnected
<1>5. CASE LastWake
  BY <1>5 DEF ThreadAt, LastWake, Queue!WakeParked, Queue!queueVars
<1>6. CASE InputReport \/ Removal
  BY <1>6 DEF ThreadAt, CallbackRuns, InputReport, Queue!Push, Removal,
              Queue!SetDisconnected
<1>7. CASE DropLooks \/ DropCopies \/ DropUnregisters \/ DropMoves
  BY <1>7 DEF DropLooks, DropCopies, DropUnregisters, Unregistered, DropMoves
<1>8. CASE DropShutsDown \/ DropStops \/ DropJoins
  BY <1>8 DEF ThreadAt, DropShutsDown, Queue!SetShutdown, DropStops, DropJoins
<1>9. CASE \E r \in Readers : Read(r) \/ ReadGoesOn(r)
  BY <1>9, ReadSteps
<1>10. CASE \E n \in Notifiers : WakeGoesOn(n)
  BY <1>10, WakeSteps
<1>11. CASE UNCHANGED vars
  BY <1>11 DEF vars
<1> QED
  BY <1>1, <1>2, <1>3, <1>4, <1>5, <1>6, <1>7, <1>8, <1>9, <1>10, <1>11
     DEF Next, ThreadStep, DropStep

\* What Drop has copied stays good enough for what it does next.
LEMMA StepDrop ==
  DeviceInv /\ [Next]_vars => HomeInv' /\ DropKnowsLoop'
<1> SUFFICES ASSUME DeviceInv, [Next]_vars
             PROVE  HomeInv' /\ DropKnowsLoop'
  OBVIOUS
<1>0. disconnected \in BOOLEAN
  BY DEF DeviceInv, QueueInv, QueueProofs!TypeOK
<1> USE <1>0 DEF DeviceInv, DeviceTypes, LoopStates, Pumping, OwnerStates, ThreadInv, BarrierInv, HomeInv,
            CallbacksStayHome, DropKnowsLoop, queueState, threadState, deviceState, ownerState
<1>1. CASE Open \/ SpawnFails \/ Opened \/ Attach \/ Unplug
  BY <1>1 DEF Open, SpawnFails, Opened, Started, Attach, Unplug
<1>2. CASE Schedule \/ Publish \/ Check \/ EnterRunLoop \/ SliceEnds
  BY <1>2 DEF ThreadAt, Schedule, Publish, Check, KeepPumping, EnterRunLoop, SliceEnds
<1>3. CASE RunLoopReturns \/ ClearRunLoop \/ RemovalStops
  BY <1>3 DEF ThreadAt, RunLoopReturns, HasSources, ClearRunLoop, RemovalStops
<1>4. CASE RunLoopEnded
  BY <1>4 DEF ThreadAt, RunLoopEnded, Queue!SetDisconnected
<1>5. CASE LastWake
  BY <1>5 DEF ThreadAt, LastWake, Queue!WakeParked, Queue!queueVars
<1>6. CASE InputReport \/ Removal
  BY <1>6 DEF ThreadAt, CallbackRuns, InputReport, Queue!Push, Removal,
              Queue!SetDisconnected
<1>7. CASE DropLooks \/ DropCopies \/ DropUnregisters \/ DropMoves
  BY <1>7 DEF DropLooks, DropCopies, DropUnregisters, Unregistered, DropMoves
<1>8. CASE DropShutsDown \/ DropStops \/ DropJoins
  BY <1>8 DEF ThreadAt, DropShutsDown, Queue!SetShutdown, DropStops, DropJoins
<1>9. CASE \E r \in Readers : Read(r) \/ ReadGoesOn(r)
  BY <1>9, ReadSteps
<1>10. CASE \E n \in Notifiers : WakeGoesOn(n)
  BY <1>10, WakeSteps
<1>11. CASE UNCHANGED vars
  BY <1>11 DEF vars
<1> QED
  BY <1>1, <1>2, <1>3, <1>4, <1>5, <1>6, <1>7, <1>8, <1>9, <1>10, <1>11
     DEF Next, ThreadStep, DropStep

\* DeviceInv is kept by every step.
LEMMA StepDevice == DeviceInv /\ [Next]_vars => DeviceInv'
BY StepQueue, StepTypes, StepThread, StepStop, StepDrop DEF DeviceInv

\* What a macOS device keeps in every behaviour.
LEMMA DeviceInvariance == Safety => []DeviceInv
BY InitDevice, StepDevice, PTL DEF Safety

-----------------------------------------------------------------------------
(* Theorems *)

\* A device is a user of its queue like any other: all that is proved of
\* ReportQueue holds of the queue of a macOS device.
THEOREM DeviceUsesQueue == Spec => Queue!Safety
<1>1. Init => Queue!Init
  BY DEF Init
<1> QED
  BY <1>1, QueueSteps, PTL DEF Spec, Safety, Queue!Safety

\* Every variable keeps its type in every reachable state, the queue's included.
THEOREM TypeCorrect == Spec => []TypeOK
<1>1. DeviceInv => TypeOK
  BY DEF DeviceInv, DeviceTypes, TypeOK, QueueInv, QueueProofs!TypeOK, Queue!TypeOK,
         QueueProofs!ReaderStates, Queue!ReaderStates, QueueProofs!Failures,
         Queue!Failures, QueueProofs!NotifierStates, Queue!NotifierStates
<1> QED
  BY <1>1, DeviceInvariance, PTL DEF Spec

\* Drop has the run loop it must stop: the barrier of open has seen to it.
THEOREM DropAlwaysKnowsLoop == Spec => []DropKnowsLoop
<1>1. DeviceInv => DropKnowsLoop
  BY DEF DeviceInv
<1> QED
  BY <1>1, DeviceInvariance, PTL DEF Spec

\* A read fails with Disconnected only if the device has been unplugged, though the
\* thread takes every end of its run loop that Drop did not ask for as an unplug.
THEOREM DisconnectedAlwaysTrue == Spec => []DisconnectedIsTrue
<1>1. DeviceInv => DisconnectedIsTrue
  BY DEF DeviceInv
<1> QED
  BY <1>1, DeviceInvariance, PTL DEF Spec

\* The main run loop never gets a device with callbacks.
THEOREM CallbacksAlwaysStayHome == Spec => []CallbacksStayHome
<1>1. DeviceInv => CallbacksStayHome
  BY DEF DeviceInv, HomeInv
<1> QED
  BY <1>1, DeviceInvariance, PTL DEF Spec

\* No parked read of the device sleeps over a report, an unplug or a stop.
THEOREM NoReadSleepsOn == Spec => []Queue!NoLostWakeup
<1> USE DEF Queue!NoLostWakeup, Queue!AboutToBeWoken, Queue!WakersAboutToBeTaken,
            Queue!Range
<1>1. QueueInv => Queue!NoLostWakeup
  BY DEF QueueInv, QueueProofs!IInv, QueueProofs!WakersInv, QueueProofs!ParkedInv,
         QueueProofs!AboutToBeWoken, QueueProofs!WakersAboutToBeTaken, QueueProofs!Range
<1> QED
  BY <1>1, DeviceInvariance, PTL DEF Spec, DeviceInv
=============================================================================
