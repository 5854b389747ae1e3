---------------------------- MODULE WinReadProofs ----------------------------
(***************************************************************************)
(* Proofs about the reads of the Windows backend in WinRead, for any       *)
(* number of tasks and waits.                                              *)
(*                                                                         *)
(* The four invariants of the runs are not inductive: they say nothing of  *)
(* a reader between the store of its waker and the end of park_read, of    *)
(* the signal that one callback holds while the next wait is armed, or of  *)
(* the flag `pending` that Drop trusts.  ReadInv adds that.                *)
(***************************************************************************)
EXTENDS WinRead, TLAPS

At(steps) == \E w \in Waits : callback[w] \in steps

\* The flag tells what the system has, and a completion that nobody has seen
\* has its signal: the event holds it, or a callback that will set it again.
PendingInv ==
  /\ pending <=> io # "none"
  /\ io \in Completions => signaled \/ At({"fired"})

\* A reader that has stored its waker has it in the slot until a callback
\* takes it: nobody else stores one before the lock is free.
SlotInv == \A t \in Tasks : pc[t] \in {"swap", "register"} => slot \in {t, None}

\* The handle that park_read kept is that of the armed wait.
WaitInv == \A w \in Waits : callback[w] = "armed" => w = wait

\* Drop has the handle for itself.
OwnerInv == owner # "open" => \A t \in Tasks : pc[t] = "idle"

ReadInv ==
  /\ TypeOK /\ PendingInv /\ SlotInv /\ WaitInv /\ OwnerInv
  /\ FlagMeansOneWait /\ LatestIsWatched /\ DropIsOrderly

USE NoneAssumption DEF NoneAssumption, taskVars, ioVars, waitVars

-----------------------------------------------------------------------------
\* A handle that has just been opened.
LEMMA InitRead == Init => ReadInv
<1> SUFFICES ASSUME Init PROVE ReadInv
  OBVIOUS
<1> USE DEF Init
<1>1. TypeOK
  BY DEF TypeOK, TaskSteps, InLock, CallbackSteps, OwnerSteps
<1>2. PendingInv /\ SlotInv /\ WaitInv /\ OwnerInv
  BY DEF PendingInv, Completions, SlotInv, WaitInv, OwnerInv
<1>3. FlagMeansOneWait /\ LatestIsWatched /\ DropIsOrderly
  BY DEF FlagMeansOneWait, LatestIsWatched, DropIsOrderly
<1> QED
  BY <1>1, <1>2, <1>3 DEF ReadInv

\* Types are kept, and with them the lock.
LEMMA StepType ==
  TypeOK /\ [Next]_vars => TypeOK'
<1> SUFFICES ASSUME TypeOK, [Next]_vars
             PROVE  TypeOK'
  OBVIOUS
<1> USE DEF TypeOK, TaskSteps, InLock, CallbackSteps, OwnerSteps, Completions
<1>1. ASSUME NEW t \in Tasks,
             \/ Read(t) \/ Lock(t) \/ InLockStep(t) \/ RegisterFails(t)
             \/ Woken(t) \/ SpuriousWake(t) \/ Cancel(t)
      PROVE  TypeOK'
  <2>1. CASE \/ Read(t) \/ StillPending(t) \/ Incomplete(t) \/ StoreWaker(t)
            \/ Woken(t) \/ SpuriousWake(t) \/ Cancel(t)
    BY <2>1 DEF Read, StillPending, Goto, Incomplete, StoreWaker, Woken,
           SpuriousWake, Cancel, AfterCancel
  <2>2. CASE Lock(t)
    BY <2>2 DEF Lock
  <2>3. CASE ReadFile(t)
    <3>1. /\ pending' \in BOOLEAN /\ signaled' \in BOOLEAN
          /\ io' \in {"none", "pending"}
      BY <2>3 DEF ReadFile
    <3>2. CASE Goto(t, "check")
      BY <2>3, <3>1, <3>2 DEF ReadFile, Goto
    <3>3. CASE Unlock(t, "idle")
      BY <2>3, <3>1, <3>3 DEF ReadFile, Unlock
    <3> QED
      BY <2>3, <3>2, <3>3 DEF ReadFile
  <2>4. CASE Harvest(t)
    BY <2>4 DEF Harvest, Unlock
  <2>5. CASE ParkBehindWait(t)
    BY <2>5 DEF ParkBehindWait, NeedsWait, Unlock
  <2>6. CASE ClaimWait(t)
    BY <2>6 DEF ClaimWait, NeedsWait, Goto
  <2>7. CASE Register(t)
    BY <2>7 DEF Register, Unregistered, Unlock
  <2>8. CASE RegisterFails(t)
    BY <2>8 DEF RegisterFails, Unregistered, Unlock
  <2> QED
    BY <1>1, <2>1, <2>2, <2>3, <2>4, <2>5, <2>6, <2>7, <2>8 DEF InLockStep
<1>2. ASSUME NEW w \in Waits, CallbackStep(w)
      PROVE  TypeOK'
  <2>1. CASE Fire(w)
    BY <2>1 DEF Fire
  <2>2. CASE RestoreSignal(w)
    BY <2>2 DEF RestoreSignal, Restored
  <2>3. CASE ClearFlag(w)
    BY <2>3 DEF ClearFlag
  <2>4. CASE TakeWaker(w)
    BY <2>4 DEF TakeWaker
  <2>5. CASE Wake(w)
    BY <2>5 DEF Wake
  <2> QED
    BY <1>2, <2>1, <2>2, <2>3, <2>4, <2>5 DEF CallbackStep
<1>3. ASSUME NEW outcome \in Completions, Complete(outcome)
      PROVE  TypeOK'
  BY <1>3 DEF Complete, Completions
<1>4. CASE Unplug \/ DropBegins
  <2>1. CASE Unplug
    BY <2>1 DEF Unplug
  <2>2. CASE DropBegins
    BY <2>2 DEF DropBegins
  <2> QED
    BY <1>4, <2>1, <2>2
<1>5. CASE DropUnregister
  BY <1>5 DEF DropUnregister, Unregistered
<1>6. CASE DropReaps
  BY <1>6 DEF DropReaps, Reaped
<1>7. CASE UNCHANGED vars
  BY <1>7 DEF vars
<1> QED
  BY <1>1, <1>2, <1>3, <1>4, <1>5, <1>6, <1>7 DEF Next, DropStep

\* Only ReadFile and Harvest change the flag, a completion signals, and the
\* callback that consumes the signal will set it again.
LEMMA StepPending ==
  TypeOK /\ PendingInv /\ [Next]_vars => PendingInv'
<1> SUFFICES ASSUME TypeOK /\ PendingInv, [Next]_vars
             PROVE  PendingInv'
  OBVIOUS
<1> USE DEF TypeOK, PendingInv, At, Completions
<1>1. ASSUME NEW t \in Tasks,
             \/ Read(t) \/ Lock(t) \/ InLockStep(t) \/ RegisterFails(t)
             \/ Woken(t) \/ SpuriousWake(t) \/ Cancel(t)
      PROVE  PendingInv'
  <2>1. CASE \/ Read(t) \/ Lock(t) \/ StillPending(t) \/ Incomplete(t)
            \/ StoreWaker(t) \/ ParkBehindWait(t) \/ ClaimWait(t) \/ Woken(t)
            \/ SpuriousWake(t)
    BY <2>1 DEF Read, Lock, StillPending, Goto, Incomplete, StoreWaker,
           ParkBehindWait, NeedsWait, Unlock, ClaimWait, Woken, SpuriousWake
  <2>2. CASE ReadFile(t)
    BY <2>2 DEF ReadFile, Reusable, Goto, Unlock
  <2>3. CASE Harvest(t)
    BY <2>3 DEF Harvest, Unlock
  <2>4. CASE Register(t)
    BY <2>4 DEF Register, Unregistered, Unlock
  <2>5. CASE RegisterFails(t)
    BY <2>5 DEF RegisterFails, Unregistered, Unlock
  <2>6. CASE Cancel(t)
    BY <2>6 DEF Cancel, AfterCancel, Goto
  <2> QED
    BY <1>1, <2>1, <2>2, <2>3, <2>4, <2>5, <2>6 DEF InLockStep
<1>2. ASSUME NEW w \in Waits, CallbackStep(w)
      PROVE  PendingInv'
  <2>1. CASE Fire(w)
    BY <2>1 DEF Fire
  <2>2. CASE RestoreSignal(w)
    BY <2>2 DEF RestoreSignal, Restored
  <2>3. CASE ClearFlag(w)
    BY <2>3 DEF ClearFlag
  <2>4. CASE TakeWaker(w)
    BY <2>4 DEF TakeWaker
  <2>5. CASE Wake(w)
    BY <2>5 DEF Wake, CallbackSteps
  <2> QED
    BY <1>2, <2>1, <2>2, <2>3, <2>4, <2>5 DEF CallbackStep
<1>3. ASSUME NEW outcome \in Completions, Complete(outcome)
      PROVE  PendingInv'
  BY <1>3 DEF Complete, Completions
<1>4. CASE Unplug \/ DropBegins
  BY <1>4 DEF Unplug, DropBegins
<1>5. CASE DropUnregister
  BY <1>5 DEF DropUnregister, Unregistered
<1>6. CASE DropReaps
  BY <1>6 DEF DropReaps, Reaped
<1>7. CASE UNCHANGED vars
  BY <1>7 DEF vars
<1> QED
  BY <1>1, <1>2, <1>3, <1>4, <1>5, <1>6, <1>7 DEF Next, DropStep

\* Only a read that begins leaves "idle", and only while the handle is open.
LEMMA StepOwner ==
  TypeOK /\ OwnerInv /\ [Next]_vars => OwnerInv'
<1> SUFFICES ASSUME TypeOK /\ OwnerInv, [Next]_vars
             PROVE  OwnerInv'
  OBVIOUS
<1> USE DEF TypeOK, OwnerInv, InLock
<1>1. ASSUME NEW t \in Tasks,
             \/ Read(t) \/ Lock(t) \/ InLockStep(t) \/ RegisterFails(t)
             \/ Woken(t) \/ SpuriousWake(t) \/ Cancel(t)
      PROVE  OwnerInv'
  <2>1. CASE \/ Lock(t) \/ ReadFile(t) \/ StillPending(t) \/ Incomplete(t)
            \/ Harvest(t) \/ StoreWaker(t) \/ ParkBehindWait(t)
            \/ ClaimWait(t) \/ Register(t) \/ RegisterFails(t) \/ Woken(t)
            \/ SpuriousWake(t) \/ Cancel(t)
    BY <2>1 DEF Lock, ReadFile, Reusable, Goto, Unlock, StillPending,
           Incomplete, Harvest, StoreWaker, ParkBehindWait, NeedsWait,
           ClaimWait, Register, Unregistered, RegisterFails, Woken,
           SpuriousWake, Cancel, AfterCancel
  <2>2. CASE Read(t)
    BY <2>2 DEF Read
  <2> QED
    BY <1>1, <2>1, <2>2 DEF InLockStep
<1>2. ASSUME NEW w \in Waits, CallbackStep(w)
      PROVE  OwnerInv'
  <2>1. CASE \/ Fire(w) \/ RestoreSignal(w) \/ ClearFlag(w) \/ TakeWaker(w)
            \/ Wake(w)
    BY <2>1 DEF Fire, RestoreSignal, Restored, ClearFlag, TakeWaker, Wake
  <2> QED
    BY <1>2, <2>1 DEF CallbackStep
<1>3. ASSUME NEW outcome \in Completions, Complete(outcome)
      PROVE  OwnerInv'
  BY <1>3 DEF Complete, Completions
<1>4. CASE Unplug \/ DropBegins
  BY <1>4 DEF Unplug, DropBegins
<1>5. CASE DropUnregister
  BY <1>5 DEF DropUnregister, Unregistered
<1>6. CASE DropReaps
  BY <1>6 DEF DropReaps, Reaped
<1>7. CASE UNCHANGED vars
  BY <1>7 DEF vars
<1> QED
  BY <1>1, <1>2, <1>3, <1>4, <1>5, <1>6, <1>7 DEF Next, DropStep

\* The lock keeps others from the slot.
LEMMA StepSlot ==
  TypeOK /\ SlotInv /\ [Next]_vars => SlotInv'
<1> SUFFICES ASSUME TypeOK /\ SlotInv, [Next]_vars
             PROVE  SlotInv'
  OBVIOUS
<1> USE DEF TypeOK, SlotInv, InLock
<1>1. ASSUME NEW t \in Tasks,
             \/ Read(t) \/ Lock(t) \/ InLockStep(t) \/ RegisterFails(t)
             \/ Woken(t) \/ SpuriousWake(t) \/ Cancel(t)
      PROVE  SlotInv'
  <2>1. CASE \/ Read(t) \/ Lock(t) \/ StillPending(t) \/ Incomplete(t)
            \/ Woken(t) \/ SpuriousWake(t) \/ Cancel(t)
    BY <2>1 DEF Read, Lock, StillPending, Goto, Incomplete, Woken,
           SpuriousWake, Cancel, AfterCancel
  <2>2. CASE ReadFile(t)
    BY <2>2 DEF ReadFile, Reusable, Goto, Unlock
  <2>3. CASE Harvest(t)
    BY <2>3 DEF Harvest, Unlock
  <2>4. CASE StoreWaker(t)
    BY <2>4 DEF StoreWaker, Goto
  <2>5. CASE ParkBehindWait(t)
    BY <2>5 DEF ParkBehindWait, NeedsWait, Unlock
  <2>6. CASE ClaimWait(t)
    BY <2>6 DEF ClaimWait, NeedsWait, Goto
  <2>7. CASE Register(t)
    BY <2>7 DEF Register, Unregistered, Unlock
  <2>8. CASE RegisterFails(t)
    BY <2>8 DEF RegisterFails, Unregistered, Unlock
  <2> QED
    BY <1>1, <2>1, <2>2, <2>3, <2>4, <2>5, <2>6, <2>7, <2>8 DEF InLockStep
<1>2. ASSUME NEW w \in Waits, CallbackStep(w)
      PROVE  SlotInv'
  <2>1. CASE Fire(w) \/ RestoreSignal(w) \/ ClearFlag(w) \/ Wake(w)
    BY <2>1 DEF Fire, RestoreSignal, Restored, ClearFlag, Wake
  <2>2. CASE TakeWaker(w)
    BY <2>2 DEF TakeWaker
  <2> QED
    BY <1>2, <2>1, <2>2 DEF CallbackStep
<1>3. ASSUME NEW outcome \in Completions, Complete(outcome)
      PROVE  SlotInv'
  BY <1>3 DEF Complete, Completions
<1>4. CASE Unplug \/ DropBegins
  BY <1>4 DEF Unplug, DropBegins
<1>5. CASE DropUnregister
  BY <1>5 DEF DropUnregister, Unregistered
<1>6. CASE DropReaps
  BY <1>6 DEF DropReaps, Reaped
<1>7. CASE UNCHANGED vars
  BY <1>7 DEF vars
<1> QED
  BY <1>1, <1>2, <1>3, <1>4, <1>5, <1>6, <1>7 DEF Next, DropStep

\* A wait under way keeps its place until ClearFlag, which clears the flag with
\* it; a reader claims only when there is none.
LEMMA StepFlag ==
  TypeOK /\ OwnerInv /\ FlagMeansOneWait /\ [Next]_vars => FlagMeansOneWait'
<1> SUFFICES ASSUME TypeOK /\ OwnerInv /\ FlagMeansOneWait, [Next]_vars
             PROVE  FlagMeansOneWait'
  OBVIOUS
<1> USE DEF TypeOK, OwnerInv, InLock, FlagMeansOneWait, CallbackSteps
<1>1. ASSUME NEW t \in Tasks,
             \/ Read(t) \/ Lock(t) \/ InLockStep(t) \/ RegisterFails(t)
             \/ Woken(t) \/ SpuriousWake(t) \/ Cancel(t)
      PROVE  FlagMeansOneWait'
  <2>1. CASE \/ Read(t) \/ Lock(t) \/ StillPending(t) \/ Incomplete(t)
            \/ StoreWaker(t) \/ Woken(t) \/ SpuriousWake(t) \/ Cancel(t)
    BY <2>1 DEF Read, Lock, StillPending, Goto, Incomplete, StoreWaker, Woken,
           SpuriousWake, Cancel, AfterCancel
  <2>2. CASE ReadFile(t)
    BY <2>2 DEF ReadFile, Reusable, Goto, Unlock
  <2>3. CASE Harvest(t)
    BY <2>3 DEF Harvest, Unlock
  <2>4. CASE ParkBehindWait(t)
    BY <2>4 DEF ParkBehindWait, NeedsWait, Unlock
  <2>5. CASE ClaimWait(t)
    BY <2>5 DEF ClaimWait, NeedsWait, Goto
  <2>6. CASE Register(t)
    BY <2>6 DEF Register, Unregistered, Unlock
  <2>7. CASE RegisterFails(t)
    BY <2>7 DEF RegisterFails, Unregistered, Unlock
  <2> QED
    BY <1>1, <2>1, <2>2, <2>3, <2>4, <2>5, <2>6, <2>7 DEF InLockStep
<1>2. ASSUME NEW w \in Waits, CallbackStep(w)
      PROVE  FlagMeansOneWait'
  <2>1. CASE Fire(w)
    BY <2>1 DEF Fire
  <2>2. CASE RestoreSignal(w)
    BY <2>2 DEF RestoreSignal, Restored
  <2>3. CASE ClearFlag(w)
    BY <2>3 DEF ClearFlag
  <2>4. CASE TakeWaker(w)
    BY <2>4 DEF TakeWaker
  <2>5. CASE Wake(w)
    BY <2>5 DEF Wake
  <2> QED
    BY <1>2, <2>1, <2>2, <2>3, <2>4, <2>5 DEF CallbackStep
<1>3. ASSUME NEW outcome \in Completions, Complete(outcome)
      PROVE  FlagMeansOneWait'
  BY <1>3 DEF Complete, Completions
<1>4. CASE Unplug \/ DropBegins
  BY <1>4 DEF Unplug, DropBegins
<1>5. CASE DropUnregister
  BY <1>5 DEF DropUnregister, Unregistered
<1>6. CASE DropReaps
  BY <1>6 DEF DropReaps, Reaped
<1>7. CASE UNCHANGED vars
  BY <1>7 DEF vars
<1> QED
  BY <1>1, <1>2, <1>3, <1>4, <1>5, <1>6, <1>7 DEF Next, DropStep

\* No wait is armed when a reader registers, so the one it arms is alone.
LEMMA StepWait ==
  TypeOK /\ OwnerInv /\ FlagMeansOneWait /\ WaitInv /\ [Next]_vars => WaitInv'
<1> SUFFICES ASSUME TypeOK /\ OwnerInv /\ FlagMeansOneWait /\ WaitInv, [Next]_vars
             PROVE  WaitInv'
  OBVIOUS
<1> USE DEF TypeOK, OwnerInv, FlagMeansOneWait, WaitInv, CallbackSteps
<1>1. ASSUME NEW t \in Tasks,
             \/ Read(t) \/ Lock(t) \/ InLockStep(t) \/ RegisterFails(t)
             \/ Woken(t) \/ SpuriousWake(t) \/ Cancel(t)
      PROVE  WaitInv'
  <2>1. CASE \/ Read(t) \/ Lock(t) \/ StillPending(t) \/ Incomplete(t)
            \/ Harvest(t) \/ StoreWaker(t) \/ ParkBehindWait(t)
            \/ ClaimWait(t) \/ Woken(t) \/ SpuriousWake(t) \/ Cancel(t)
    BY <2>1 DEF Read, Lock, StillPending, Goto, Incomplete, Harvest, Unlock,
           StoreWaker, ParkBehindWait, NeedsWait, ClaimWait, Woken,
           SpuriousWake, Cancel, AfterCancel
  <2>2. CASE ReadFile(t)
    BY <2>2 DEF ReadFile, Reusable, Goto, Unlock
  <2>3. CASE Register(t)
    BY <2>3 DEF Register, Unregistered, Unlock
  <2>4. CASE RegisterFails(t)
    BY <2>4 DEF RegisterFails, Unregistered, Unlock
  <2> QED
    BY <1>1, <2>1, <2>2, <2>3, <2>4 DEF InLockStep
<1>2. ASSUME NEW w \in Waits, CallbackStep(w)
      PROVE  WaitInv'
  <2>1. CASE Fire(w)
    BY <2>1 DEF Fire
  <2>2. CASE RestoreSignal(w)
    BY <2>2 DEF RestoreSignal, Restored
  <2>3. CASE ClearFlag(w)
    BY <2>3 DEF ClearFlag
  <2>4. CASE TakeWaker(w)
    BY <2>4 DEF TakeWaker
  <2>5. CASE Wake(w)
    BY <2>5 DEF Wake
  <2> QED
    BY <1>2, <2>1, <2>2, <2>3, <2>4, <2>5 DEF CallbackStep
<1>3. ASSUME NEW outcome \in Completions, Complete(outcome)
      PROVE  WaitInv'
  BY <1>3 DEF Complete, Completions
<1>4. CASE Unplug \/ DropBegins
  BY <1>4 DEF Unplug, DropBegins
<1>5. CASE DropUnregister
  BY <1>5 DEF DropUnregister, Unregistered
<1>6. CASE DropReaps
  BY <1>6 DEF DropReaps, Reaped
<1>7. CASE UNCHANGED vars
  BY <1>7 DEF vars
<1> QED
  BY <1>1, <1>2, <1>3, <1>4, <1>5, <1>6, <1>7 DEF Next, DropStep

\* A reader that parks leaves behind a wait that FlagMeansOneWait knows, or its
\* own; afterwards what watches it moves from one callback step to the next.
LEMMA StepLatest ==
  ReadInv /\ [Next]_vars => LatestIsWatched'
<1> SUFFICES ASSUME ReadInv, [Next]_vars
             PROVE  LatestIsWatched'
  OBVIOUS
<1> USE DEF ReadInv, TypeOK, OwnerInv, PendingInv, SlotInv, InLock, At,
         FlagMeansOneWait, LatestIsWatched, CallbackSteps
<1>1. ASSUME NEW t \in Tasks,
             \/ Read(t) \/ Lock(t) \/ InLockStep(t) \/ RegisterFails(t)
             \/ Woken(t) \/ SpuriousWake(t) \/ Cancel(t)
      PROVE  LatestIsWatched'
  <2>1. CASE \/ Read(t) \/ Lock(t) \/ StillPending(t) \/ Incomplete(t)
            \/ Woken(t) \/ SpuriousWake(t) \/ Cancel(t)
    BY <2>1 DEF Read, Lock, StillPending, Goto, Incomplete, Woken,
           SpuriousWake, Cancel, AfterCancel
  <2>2. CASE ReadFile(t)
    BY <2>2 DEF ReadFile, Reusable, Goto, Unlock, Completions
  <2>3. CASE Harvest(t)
    BY <2>3 DEF Harvest, Unlock, Completions
  <2>4. CASE StoreWaker(t)
    BY <2>4 DEF StoreWaker, Goto
  <2>5. CASE ParkBehindWait(t)
    BY <2>5 DEF ParkBehindWait, NeedsWait, Unlock
  <2>6. CASE ClaimWait(t)
    BY <2>6 DEF ClaimWait, NeedsWait, Goto
  <2>7. CASE Register(t)
    BY <2>7 DEF Register, Unregistered, Unlock
  <2>8. CASE RegisterFails(t)
    BY <2>8 DEF RegisterFails, Unregistered, Unlock
  <2> QED
    BY <1>1, <2>1, <2>2, <2>3, <2>4, <2>5, <2>6, <2>7, <2>8 DEF InLockStep
<1>2. ASSUME NEW w \in Waits, CallbackStep(w)
      PROVE  LatestIsWatched'
  <2>1. CASE Fire(w)
    BY <2>1 DEF Fire
  <2>2. CASE RestoreSignal(w)
    BY <2>2 DEF RestoreSignal, Restored
  <2>3. CASE ClearFlag(w)
    BY <2>3 DEF ClearFlag
  <2>4. CASE TakeWaker(w)
    BY <2>4 DEF TakeWaker
  <2>5. CASE Wake(w)
    BY <2>5 DEF Wake
  <2> QED
    BY <1>2, <2>1, <2>2, <2>3, <2>4, <2>5 DEF CallbackStep
<1>3. ASSUME NEW outcome \in Completions, Complete(outcome)
      PROVE  LatestIsWatched'
  BY <1>3 DEF Complete, Completions
<1>4. CASE Unplug \/ DropBegins
  BY <1>4 DEF Unplug, DropBegins
<1>5. CASE DropUnregister
  BY <1>5 DEF DropUnregister, Unregistered
<1>6. CASE DropReaps
  BY <1>6 DEF DropReaps, Reaped
<1>7. CASE UNCHANGED vars
  BY <1>7 DEF vars
<1> QED
  BY <1>1, <1>2, <1>3, <1>4, <1>5, <1>6, <1>7 DEF Next, DropStep

\* Drop's one handle is that of the armed wait, and the flag that makes Drop wait
\* for the read is set while the system has it.
LEMMA StepDrop ==
  ReadInv /\ [Next]_vars => DropIsOrderly'
<1> SUFFICES ASSUME ReadInv, [Next]_vars
             PROVE  DropIsOrderly'
  OBVIOUS
<1> USE DEF ReadInv, TypeOK, OwnerInv, PendingInv, WaitInv, DropIsOrderly,
         CallbackSteps
<1>1. ASSUME NEW t \in Tasks,
             \/ Read(t) \/ Lock(t) \/ InLockStep(t) \/ RegisterFails(t)
             \/ Woken(t) \/ SpuriousWake(t) \/ Cancel(t)
      PROVE  DropIsOrderly'
  <2>1. CASE \/ Read(t) \/ Lock(t) \/ ReadFile(t) \/ StillPending(t)
            \/ Incomplete(t) \/ Harvest(t) \/ StoreWaker(t)
            \/ ParkBehindWait(t) \/ ClaimWait(t) \/ Register(t)
            \/ RegisterFails(t) \/ Woken(t) \/ SpuriousWake(t) \/ Cancel(t)
    BY <2>1 DEF Read, Lock, ReadFile, Reusable, Goto, Unlock, StillPending,
           Incomplete, Harvest, StoreWaker, ParkBehindWait, NeedsWait,
           ClaimWait, Register, Unregistered, RegisterFails, Woken,
           SpuriousWake, Cancel, AfterCancel
  <2> QED
    BY <1>1, <2>1 DEF InLockStep
<1>2. ASSUME NEW w \in Waits, CallbackStep(w)
      PROVE  DropIsOrderly'
  <2>1. CASE \/ Fire(w) \/ RestoreSignal(w) \/ ClearFlag(w) \/ TakeWaker(w)
            \/ Wake(w)
    BY <2>1 DEF Fire, RestoreSignal, Restored, ClearFlag, TakeWaker, Wake
  <2> QED
    BY <1>2, <2>1 DEF CallbackStep
<1>3. ASSUME NEW outcome \in Completions, Complete(outcome)
      PROVE  DropIsOrderly'
  BY <1>3 DEF Complete, Completions
<1>4. CASE Unplug \/ DropBegins
  BY <1>4 DEF Unplug, DropBegins
<1>5. CASE DropUnregister
  BY <1>5 DEF DropUnregister, Unregistered
<1>6. CASE DropReaps
  BY <1>6 DEF DropReaps, Reaped
<1>7. CASE UNCHANGED vars
  BY <1>7 DEF vars
<1> QED
  BY <1>1, <1>2, <1>3, <1>4, <1>5, <1>6, <1>7 DEF Next, DropStep

\* The invariant is kept by every step.
LEMMA StepRead == ReadInv /\ [Next]_vars => ReadInv'
BY StepType, StepPending, StepOwner, StepSlot, StepFlag, StepWait, StepLatest,
   StepDrop DEF ReadInv

\* What the reads of a Windows device keep in every behaviour.
LEMMA ReadInvariance == Safety => []ReadInv
BY InitRead, StepRead, PTL DEF Safety

-----------------------------------------------------------------------------
\* The read lock has one holder, and every variable its type.
THEOREM TypeCorrect == Spec => []TypeOK
<1>1. ReadInv => TypeOK
  BY DEF ReadInv
<1> QED
  BY <1>1, ReadInvariance, PTL DEF Spec

\* wait_registered, which park_read trusts, is set exactly while one wait is
\* armed, has a callback that is still to clear it, or is about to be
\* registered.
THEOREM FlagAlwaysMeansOneWait == Spec => []FlagMeansOneWait
<1>1. ReadInv => FlagMeansOneWait
  BY DEF ReadInv
<1> QED
  BY <1>1, ReadInvariance, PTL DEF Spec

\* The reader that parked last is watched, whichever callbacks are late.
THEOREM LatestAlwaysWatched == Spec => []LatestIsWatched
<1>1. ReadInv => LatestIsWatched
  BY DEF ReadInv
<1> QED
  BY <1>1, ReadInvariance, PTL DEF Spec

\* Drop leaves no wait armed and nothing in flight on what it frees.
THEOREM DropAlwaysOrderly == Spec => []DropIsOrderly
<1>1. ReadInv => DropIsOrderly
  BY DEF ReadInv
<1> QED
  BY <1>1, ReadInvariance, PTL DEF Spec

\* A step that makes a completed report disappear is the read that copies it
\* out: start_read issues no ReadFile over it, dropped reads included.
LEMMA SurvivesStep ==
  ASSUME ReadInv, [Next]_vars, io = "report", io' # "report"
  PROVE  \E t \in Tasks : pc[t] = "check" /\ pc'[t] = "idle"
<1> USE DEF ReadInv, TypeOK, PendingInv
<1>1. ASSUME NEW t \in Tasks,
             \/ Read(t) \/ Lock(t) \/ InLockStep(t) \/ RegisterFails(t)
             \/ Woken(t) \/ SpuriousWake(t) \/ Cancel(t)
      PROVE  Harvest(t)
  BY <1>1 DEF InLockStep, Read, Lock, ReadFile, Reusable, StillPending, Incomplete,
              StoreWaker, ParkBehindWait, ClaimWait, Register, RegisterFails,
              Woken, SpuriousWake, Cancel, Goto, Unlock
<1>2. ASSUME NEW w \in Waits, CallbackStep(w)
      PROVE  FALSE
  BY <1>2 DEF CallbackStep, Fire, RestoreSignal, ClearFlag, TakeWaker, Wake
<1>3. ASSUME NEW outcome \in Completions, Complete(outcome)
      PROVE  FALSE
  BY <1>3 DEF Complete
<1>4. ~Unplug /\ ~DropBegins /\ ~DropStep /\ ~UNCHANGED vars
  BY DEF Unplug, DropBegins, DropStep, DropUnregister, DropReaps, vars
<1>5. PICK t \in Tasks : Harvest(t)
  BY <1>1, <1>2, <1>3, <1>4 DEF Next
<1> QED
  BY <1>5 DEF Harvest, Unlock

\* A report that was read ahead survives every step but its own read.
THEOREM UnreadReportAlwaysSurvives == Spec => UnreadReportSurvives
<1>1. ReadInv /\ [Next]_vars =>
        [io = "report" /\ io' # "report" =>
           \E t \in Tasks : pc[t] = "check" /\ pc'[t] = "idle"]_vars
  BY SurvivesStep
<1> QED
  BY <1>1, ReadInvariance, PTL DEF Spec, Safety, UnreadReportSurvives
=============================================================================
