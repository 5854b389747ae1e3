----------------------------- MODULE HidrawProofs -----------------------------
(***************************************************************************)
(* Proofs about the hidraw reads and the reactor of Hidraw, for any number *)
(* of tasks, handles and descriptor numbers.                               *)
(*                                                                         *)
(* The inductive invariant adds to the three invariants the runs check     *)
(* what the kernel guarantees of descriptor numbers: a handle has one from *)
(* its opening to its close, and no two handles have the same one.         *)
(***************************************************************************)
EXTENDS Hidraw, TLAPS

(* A handle has a number while it is open or being dropped, and alone.       *)
FdInv ==
  /\ \A h \in Handles : fd[h] # None <=> handle[h] \in {"open", "dropping", "nudged"}
  /\ \A g, h \in Handles : fd[g] # None /\ fd[g] = fd[h] => g = h

Inv == TypeOK /\ FdInv /\ InterestsAreCurrent /\ ParkedIsRegistered /\ ReactorWatches

USE HidrawAssumption DEF HidrawAssumption

-----------------------------------------------------------------------------
(* The handle behind the number of an open handle is that handle. *)
LEMMA BehindIsOwner ==
  ASSUME FdInv, NEW h \in Handles, fd[h] # None
  PROVE  Behind(fd[h]) = h
  BY DEF FdInv, Behind

(* Whatever is behind a number is a handle with that number, or nothing. *)
LEMMA BehindType ==
  ASSUME NEW f PROVE Behind(f) \in Handles \cup {None}
  BY DEF Behind

(* Registering keeps who is registered, and adds the task. *)
LEMMA RegisterFacts ==
  ASSUME TypeOK, NEW t \in Tasks, NEW h \in Handles, fd[h] \in Fds
  PROVE  /\ Register(t, h) \in [Fds -> SUBSET [task : Tasks, handle : Handles]]
         /\ \A f \in Fds : interests[f] \subseteq Register(t, h)[f]
         /\ \A f \in Fds : f # fd[h] => Register(t, h)[f] = interests[f]
         /\ \A i \in Register(t, h)[fd[h]] :
              i \in interests[fd[h]] \/ i = [task |-> t, handle |-> h]
         /\ \E i \in Register(t, h)[fd[h]] : i.task = t
<1> DEFINE mine == [task |-> t, handle |-> h]
           old  == interests[fd[h]]
           new  == IF \E i \in old : i.task = t THEN old ELSE old \cup {mine}
<1>1. interests \in [Fds -> SUBSET [task : Tasks, handle : Handles]]
  BY DEF TypeOK
<1>2. mine \in [task : Tasks, handle : Handles] /\ mine.task = t
  OBVIOUS
<1>3. Register(t, h) = [interests EXCEPT ![fd[h]] = new]
  BY DEF Register
<1> HIDE DEF mine
<1>4. /\ new \subseteq [task : Tasks, handle : Handles]
      /\ old \subseteq new
      /\ \A i \in new : i \in old \/ i = mine
      /\ \E i \in new : i.task = t
  BY <1>1, <1>2
<1> HIDE DEF new
<1>5. Register(t, h)[fd[h]] = new
  BY <1>1, <1>3
<1>6. \A f \in Fds : f # fd[h] => Register(t, h)[f] = interests[f]
  BY <1>1, <1>3
<1>7. Register(t, h) \in [Fds -> SUBSET [task : Tasks, handle : Handles]]
  BY <1>1, <1>3, <1>4
<1> QED BY <1>4, <1>5, <1>6, <1>7 DEF mine

\* The initial states are typed.
LEMMA InitType == Init => TypeOK
<1> SUFFICES ASSUME Init PROVE TypeOK
  OBVIOUS
<1>1. /\ handle \in [Handles -> HandleStates]
      /\ fd \in [Handles -> Fds \cup {None}]
      /\ present \in [Handles -> BOOLEAN]
  BY DEF Init, HandleStates
<1>2. queued \in [Handles -> 0 .. KernelCap]
  BY DEF Init
<1>3. /\ interests \in [Fds -> SUBSET [task : Tasks, handle : Handles]]
      /\ polled \in [Fds -> Handles \cup {None}]
      /\ nudged \in BOOLEAN /\ rpc \in ReactorStates
      /\ snap \subseteq Fds /\ ready \subseteq Fds
  BY DEF Init, ReactorStates
<1>4. /\ pc \in [Tasks -> TaskStates]
      /\ dev \in [Tasks -> Handles \cup {None}]
      /\ token \in [Tasks -> BOOLEAN]
      /\ \A t \in Tasks : pc[t] \in Ended /\ dev[t] = None
  BY DEF Init, TaskStates, Ended
<1> QED BY <1>1, <1>2, <1>3, <1>4 DEF TypeOK

\* Types are kept by every step.
LEMMA TypeInvariant == TypeOK /\ FdInv /\ [Next]_vars => TypeOK'
<1> SUFFICES ASSUME TypeOK, FdInv, [Next]_vars PROVE TypeOK'
  OBVIOUS
<1> USE DEF TypeOK, handleVars, kernelVars, reactorVars, taskVars
<1>1. ASSUME NEW h \in Handles, Kernel(h) PROVE TypeOK'
  <2>1. queued' \in [Handles -> 0 .. KernelCap]
    BY <1>1 DEF Kernel, Report, Unplug
  <2>2. present' \in [Handles -> BOOLEAN]
    BY <1>1 DEF Kernel, Report, Unplug
  <2>3. UNCHANGED <<handleVars, interests, nudged, reactorVars, taskVars>>
    BY <1>1 DEF Kernel, Report, Unplug
  <2> QED BY <2>1, <2>2, <2>3
<1>2. ASSUME NEW h \in Handles, Owner(h) PROVE TypeOK'
  <2>1. CASE Open(h)
    BY <2>1 DEF Open, HandleStates
  <2>2. CASE Drop(h)
    BY <2>2 DEF Drop, Forget, HandleStates
  <2>3. CASE DropNudge(h)
    BY <2>3 DEF DropNudge, HandleStates
  <2>4. CASE Close(h)
    BY <2>4 DEF Close, HandleStates
  <2> QED BY <1>2, <2>1, <2>2, <2>3, <2>4 DEF Owner
<1>3. ASSUME NEW t \in Tasks, NEW h \in Handles, Read(t, h) PROVE TypeOK'
  BY <1>3 DEF Read, TaskStates, Ended
<1>4. ASSUME NEW t \in Tasks, ReadStep(t) PROVE TypeOK'
  <2>1. CASE PollNow(t)
    BY <2>1 DEF PollNow, Finish, Goto, TaskStates, Ended
  <2>2. CASE ReadNow(t)
    BY <2>2 DEF ReadNow, Finish, TaskStates, Ended
  <2>3. CASE Park(t)
    BY <2>3, RegisterFacts DEF Park, Goto, TaskStates, Ended, FdInv
  <2>4. CASE ParkNudge(t)
    BY <2>4 DEF ParkNudge, Nudge, Goto, TaskStates, Ended
  <2>5. CASE Woken(t)
    BY <2>5 DEF Woken, TaskStates, Ended
  <2> QED BY <1>4, <2>1, <2>2, <2>3, <2>4, <2>5 DEF ReadStep
<1>5. ASSUME NEW t \in Tasks,
             ReadNothing(t) \/ ReadFails(t) \/ SpuriousWake(t) \/ Cancel(t)
      PROVE  TypeOK'
  <2>1. CASE ReadNothing(t)
    <3>1. dev[t] \in Handles /\ dev[t] # None
      BY <2>1 DEF ReadNothing, Ended
    <3>2. queued' \in [Handles -> 0 .. KernelCap]
      BY <2>1, <3>1 DEF ReadNothing
    <3> QED BY <2>1, <3>2 DEF ReadNothing, Goto, TaskStates, Ended
  <2>2. CASE ReadFails(t)
    BY <2>2 DEF ReadFails, Finish, TaskStates, Ended
  <2>3. CASE SpuriousWake(t)
    BY <2>3 DEF SpuriousWake
  <2>4. CASE Cancel(t)
    BY <2>4 DEF Cancel, Finish, TaskStates, Ended
  <2> QED BY <1>5, <2>1, <2>2, <2>3, <2>4
<1>6. CASE Snapshot
  BY <1>6 DEF Snapshot, ReactorStates
<1>7. CASE EnterPoll
  BY <1>7, BehindType DEF EnterPoll, ReactorStates
<1>8. CASE PollReturns
  BY <1>8 DEF PollReturns, ReactorStates
<1>9. CASE PollInterrupted
  BY <1>9 DEF PollInterrupted, NextTurn, ReactorStates
<1>10. CASE PollFails
  BY <1>10 DEF PollFails, NextTurn, WakeOn, ReactorStates
<1>11. CASE Drain
  BY <1>11 DEF Drain, ReactorStates
<1>12. CASE Harvest
  BY <1>12 DEF Harvest, NextTurn, WakeOn, ReactorStates
<1>13. CASE UNCHANGED vars
  BY <1>13 DEF vars
<1> QED
  BY <1>1, <1>2, <1>3, <1>4, <1>5, <1>6, <1>7, <1>8, <1>9, <1>10, <1>11, <1>12, <1>13
     DEF Next, ReactorStep

-----------------------------------------------------------------------------
(* A task between the start and the end of its read borrows an open handle,  *)
(* which therefore has a number.                                             *)
LEMMA ReaderHasFd ==
  ASSUME TypeOK, FdInv, NEW t \in Tasks, pc[t] \notin Ended
  PROVE  /\ dev[t] \in Handles /\ handle[dev[t]] = "open"
         /\ fd[dev[t]] \in Fds /\ fd[dev[t]] # None
  BY DEF TypeOK, FdInv

(* Only opening and closing touch the numbers, and dropping the life of a    *)
(* handle; everything else leaves both alone.                                *)
LEMMA HandlesStay ==
  ASSUME [Next]_vars, \A h \in Handles : ~Owner(h)
  PROVE  UNCHANGED handleVars
<1> USE DEF handleVars
<1>1. ASSUME NEW h \in Handles, Kernel(h) PROVE UNCHANGED handleVars
  BY <1>1 DEF Kernel, Report, Unplug
<1>2. ASSUME NEW t \in Tasks, NEW h \in Handles, Read(t, h) PROVE UNCHANGED handleVars
  BY <1>2 DEF Read
<1>3. ASSUME NEW t \in Tasks, ReadStep(t) PROVE UNCHANGED handleVars
  BY <1>3 DEF ReadStep, PollNow, ReadNow, Park, ParkNudge, Woken
<1>4. ASSUME NEW t \in Tasks,
             ReadNothing(t) \/ ReadFails(t) \/ SpuriousWake(t) \/ Cancel(t)
      PROVE  UNCHANGED handleVars
  BY <1>4 DEF ReadNothing, ReadFails, SpuriousWake, Cancel
<1>5. ASSUME ReactorStep \/ PollInterrupted \/ PollFails PROVE UNCHANGED handleVars
  BY <1>5 DEF ReactorStep, Snapshot, EnterPoll, PollReturns, Drain, Harvest,
              PollInterrupted, PollFails
<1>6. CASE UNCHANGED vars
  BY <1>6 DEF vars
<1> QED BY <1>1, <1>2, <1>3, <1>4, <1>5, <1>6 DEF Next

\* Handles that hold a number hold different ones.
LEMMA FdInvariant == TypeOK /\ FdInv /\ [Next]_vars => FdInv'
<1> SUFFICES ASSUME TypeOK, FdInv, [Next]_vars PROVE FdInv'
  OBVIOUS
<1>1. ASSUME NEW h \in Handles, Open(h) PROVE FdInv'
  <2>1. PICK f \in Fds : Behind(f) = None /\ fd' = [fd EXCEPT ![h] = f]
    BY <1>1 DEF Open
  <2>2. \A g \in Handles : fd[g] # f
    BY <2>1 DEF Behind
  <2>3. handle' = [handle EXCEPT ![h] = "open"]
    BY <1>1 DEF Open
  <2> QED BY <2>1, <2>2, <2>3 DEF FdInv, TypeOK
<1>2. ASSUME NEW h \in Handles, Drop(h) \/ DropNudge(h) PROVE FdInv'
  BY <1>2 DEF Drop, DropNudge, FdInv, TypeOK
<1>3. ASSUME NEW h \in Handles, Close(h) PROVE FdInv'
  BY <1>3 DEF Close, FdInv, TypeOK
<1>4. CASE \A h \in Handles : ~Owner(h)
  BY <1>4, HandlesStay DEF handleVars, FdInv
<1> QED BY <1>1, <1>2, <1>3, <1>4 DEF Owner

-----------------------------------------------------------------------------
(* What the steps do to the interest set: Drop empties its own number's      *)
(* entry, Park adds the parking task with its handle, and a waking reactor   *)
(* leaves a token with everyone it takes out.                                *)
LEMMA WakeFacts ==
  ASSUME TypeOK, NEW fs, fs \subseteq Fds, WakeOn(fs)
  PROVE  /\ \A f \in Fds : interests'[f] \subseteq interests[f]
         /\ \A t \in Tasks : token[t] => token'[t]
         /\ \A f \in Fds : \A t \in Tasks :
              (\E i \in interests[f] : i.task = t)
                => token'[t] \/ \E i \in interests'[f] : i.task = t
<1> DEFINE woken == {i.task : i \in UNION {interests[f] : f \in fs}}
<1>1. token' = [t \in Tasks |-> token[t] \/ t \in woken]
  BY DEF WakeOn
<1>2. interests' = [f \in Fds |-> IF f \in fs THEN {} ELSE interests[f]]
  BY DEF WakeOn
<1>3. ASSUME NEW f \in fs, NEW i \in interests[f] PROVE i.task \in woken
  OBVIOUS
<1> HIDE DEF woken
<1>4. \A t \in Tasks : t \in woken => token'[t]
  BY <1>1, Zenon
<1>5. \A t \in Tasks : token[t] => token'[t]
  BY <1>1, Zenon
<1>6. ASSUME NEW f \in Fds, NEW t \in Tasks, NEW i \in interests[f], i.task = t
      PROVE  token'[t] \/ \E j \in interests'[f] : j.task = t
  <2>1. CASE f \in fs
    BY <1>3, <1>4, <1>6, <2>1
  <2>2. CASE f \notin fs
    BY <1>2, <1>6, <2>2
  <2> QED BY <2>1, <2>2
<1>7. \A f \in Fds : interests'[f] \subseteq interests[f]
  BY <1>2
<1> QED BY <1>5, <1>6, <1>7

\* Interests are those of open handles, under their numbers: kept by every step.
LEMMA InterestsInvariant ==
  TypeOK /\ FdInv /\ InterestsAreCurrent /\ [Next]_vars => InterestsAreCurrent'
<1> SUFFICES ASSUME TypeOK, FdInv, InterestsAreCurrent, [Next]_vars,
                    NEW f \in Fds, NEW i \in interests'[f]
             PROVE  (handle[i.handle] = "open" /\ fd[i.handle] = f)'
  BY DEF InterestsAreCurrent
<1> USE DEF InterestsAreCurrent
<1>0. interests \in [Fds -> SUBSET [task : Tasks, handle : Handles]]
  BY DEF TypeOK
<1>1. ASSUME NEW h \in Handles, Open(h)
      PROVE  (handle[i.handle] = "open" /\ fd[i.handle] = f)'
  <2>1. i \in interests[f] /\ i.handle # h /\ i.handle \in Handles
    BY <1>0, <1>1 DEF Open
  <2> QED BY <1>1, <2>1 DEF Open, TypeOK
<1>2. ASSUME NEW h \in Handles, Drop(h)
      PROVE  (handle[i.handle] = "open" /\ fd[i.handle] = f)'
  <2>1. i \in interests[f] /\ f # fd[h]
    BY <1>0, <1>2 DEF Drop, Forget
  <2>2. i.handle \in Handles /\ i.handle # h
    BY <1>0, <2>1
  <2> QED BY <1>2, <2>1, <2>2 DEF Drop, TypeOK
<1>3. ASSUME NEW h \in Handles, DropNudge(h) \/ Close(h)
      PROVE  (handle[i.handle] = "open" /\ fd[i.handle] = f)'
  <2>1. i \in interests[f] /\ i.handle # h /\ i.handle \in Handles
    BY <1>0, <1>3 DEF DropNudge, Close
  <2> QED BY <1>3, <2>1 DEF DropNudge, Close, TypeOK
<1>4. CASE \A h \in Handles : ~Owner(h)
  <2>1. UNCHANGED handleVars
    BY <1>4, HandlesStay
  <2>2. ASSUME NEW t \in Tasks, Park(t)
        PROVE  (handle[i.handle] = "open" /\ fd[i.handle] = f)'
    <3>1. /\ dev[t] \in Handles /\ handle[dev[t]] = "open" /\ fd[dev[t]] \in Fds
      BY <2>2, ReaderHasFd DEF Park, Ended
    <3>2. i \in interests[f] \/ (f = fd[dev[t]] /\ i = [task |-> t, handle |-> dev[t]])
      BY <2>2, <3>1, RegisterFacts DEF Park
    <3> QED BY <2>1, <3>1, <3>2 DEF handleVars
  <2>3. ASSUME PollFails \/ Harvest
        PROVE  (handle[i.handle] = "open" /\ fd[i.handle] = f)'
    <3>1. i \in interests[f]
      BY <2>3, WakeFacts DEF PollFails, Harvest, ToWake, TypeOK
    <3> QED BY <2>1, <3>1 DEF handleVars
  <2>4. CASE UNCHANGED interests
    BY <2>1, <2>4 DEF handleVars
  <2>5. \/ \E t \in Tasks : Park(t)
        \/ PollFails \/ Harvest
        \/ UNCHANGED interests
    BY <1>4 DEF Next, vars, Kernel, Report, Unplug, Read, ReadStep, PollNow, ReadNow,
                ParkNudge, Woken, ReadNothing, ReadFails, SpuriousWake, Cancel, ReactorStep,
                Snapshot, EnterPoll, PollReturns, Drain, PollInterrupted
  <2> QED BY <2>2, <2>3, <2>4, <2>5
<1> QED BY <1>1, <1>2, <1>3, <1>4 DEF Owner

-----------------------------------------------------------------------------
(* A reader that is neither woken nor beyond its registration was there      *)
(* before the step, on the same handle, unless the step is its own Park or   *)
(* its own ParkNudge; and nothing else takes its token away.                 *)
LEMMA StillParked ==
  ASSUME TypeOK, [Next]_vars, NEW t \in Tasks,
         pc'[t] \in {"nudge", "parked"}, ~token'[t], ~Park(t), ~ParkNudge(t)
  PROVE  pc[t] = pc'[t] /\ dev[t] = dev'[t] /\ ~token[t]
<1> USE DEF TypeOK, taskVars
<1>1. ASSUME NEW h \in Handles, Kernel(h) \/ Owner(h)
      PROVE  pc[t] = pc'[t] /\ dev[t] = dev'[t] /\ ~token[t]
  BY <1>1 DEF Kernel, Report, Unplug, Owner, Open, Drop, DropNudge, Close
<1>2. ASSUME NEW u \in Tasks, NEW h \in Handles, Read(u, h)
      PROVE  pc[t] = pc'[t] /\ dev[t] = dev'[t] /\ ~token[t]
  BY <1>2 DEF Read
<1>3. ASSUME NEW u \in Tasks, ReadStep(u)
      PROVE  pc[t] = pc'[t] /\ dev[t] = dev'[t] /\ ~token[t]
  <2>1. CASE PollNow(u) \/ ReadNow(u)
    BY <2>1 DEF PollNow, ReadNow, Finish, Goto, Ended
  <2>2. CASE Park(u) \/ ParkNudge(u)
    BY <2>2 DEF Park, ParkNudge, Goto
  <2>3. CASE Woken(u)
    BY <2>3 DEF Woken
  <2> QED BY <1>3, <2>1, <2>2, <2>3 DEF ReadStep
<1>4. ASSUME NEW u \in Tasks,
             ReadNothing(u) \/ ReadFails(u) \/ SpuriousWake(u) \/ Cancel(u)
      PROVE  pc[t] = pc'[t] /\ dev[t] = dev'[t] /\ ~token[t]
  BY <1>4 DEF ReadNothing, ReadFails, SpuriousWake, Cancel, Finish, Goto
<1>5. ASSUME Snapshot \/ EnterPoll \/ PollReturns \/ PollInterrupted \/ Drain
      PROVE  pc[t] = pc'[t] /\ dev[t] = dev'[t] /\ ~token[t]
  BY <1>5 DEF Snapshot, EnterPoll, PollReturns, PollInterrupted, Drain
<1>6. ASSUME PollFails \/ Harvest
      PROVE  pc[t] = pc'[t] /\ dev[t] = dev'[t] /\ ~token[t]
  <2>1. pc[t] = pc'[t] /\ dev[t] = dev'[t]
    BY <1>6 DEF PollFails, Harvest
  <2>2. \A u \in Tasks : token[u] => token'[u]
    BY <1>6, WakeFacts DEF PollFails, Harvest, ToWake
  <2> QED BY <2>1, <2>2
<1>7. CASE UNCHANGED vars
  BY <1>7 DEF vars
<1> QED BY <1>1, <1>2, <1>3, <1>4, <1>5, <1>6, <1>7 DEF Next, ReactorStep

(* A handle that is open before a step and borrowed during it keeps its      *)
(* number: it is neither opened again nor closed.                            *)
LEMMA NumberStays ==
  ASSUME TypeOK, FdInv, [Next]_vars, NEW t \in Tasks, pc[t] \notin Ended
  PROVE  fd'[dev[t]] = fd[dev[t]]
<1>1. dev[t] \in Handles /\ handle[dev[t]] = "open"
  BY ReaderHasFd
<1>2. ASSUME NEW h \in Handles, Open(h) \/ Close(h) PROVE fd'[dev[t]] = fd[dev[t]]
  BY <1>1, <1>2 DEF Open, Close, TypeOK
<1>3. ASSUME NEW h \in Handles, Drop(h) \/ DropNudge(h) PROVE fd'[dev[t]] = fd[dev[t]]
  BY <1>3 DEF Drop, DropNudge
<1>4. CASE \A h \in Handles : ~Owner(h)
  BY <1>4, HandlesStay DEF handleVars
<1> QED BY <1>2, <1>3, <1>4 DEF Owner

\* A parked reader stays registered until it is woken.
LEMMA ParkedInvariant ==
  TypeOK /\ FdInv /\ ParkedIsRegistered /\ [Next]_vars => ParkedIsRegistered'
<1> SUFFICES ASSUME TypeOK, FdInv, ParkedIsRegistered, [Next]_vars, NEW t \in Tasks,
                    pc'[t] \in {"nudge", "parked"}, ~token'[t]
             PROVE  (\E i \in interests[fd[dev[t]]] : i.task = t)'
  BY DEF ParkedIsRegistered
<1>0. interests \in [Fds -> SUBSET [task : Tasks, handle : Handles]]
  BY DEF TypeOK
<1>1. CASE Park(t)
  <2>1. dev[t] \in Handles /\ fd[dev[t]] \in Fds
    BY <1>1, ReaderHasFd DEF Park, Ended
  <2>2. interests' = Register(t, dev[t]) /\ dev' = dev /\ fd' = fd
    BY <1>1 DEF Park, Goto, handleVars
  <2> QED BY <2>1, <2>2, RegisterFacts
<1>2. CASE ParkNudge(t)
  <2>1. pc[t] = "nudge" /\ token' = token /\ dev' = dev /\ fd' = fd /\ interests' = interests
    BY <1>2 DEF ParkNudge, Goto, handleVars
  <2> QED BY <2>1 DEF ParkedIsRegistered
<1>3. CASE ~Park(t) /\ ~ParkNudge(t)
  <2>1. pc[t] \in {"nudge", "parked"} /\ dev'[t] = dev[t] /\ ~token[t]
    BY <1>3, StillParked
  <2>2. PICK i \in interests[fd[dev[t]]] : i.task = t
    BY <2>1 DEF ParkedIsRegistered
  <2>3. /\ dev[t] \in Handles /\ fd[dev[t]] \in Fds /\ handle[dev[t]] = "open"
    BY <2>1, ReaderHasFd DEF Ended
  <2>4. fd'[dev'[t]] = fd[dev[t]]
    BY <2>1, NumberStays DEF Ended
  <2>5. ASSUME NEW h \in Handles, Drop(h)
        PROVE  (\E j \in interests[fd[dev[t]]] : j.task = t)'
    <3>1. dev[t] # h /\ handle[h] = "open"
      BY <2>5 DEF Drop
    <3>2. fd[h] # fd[dev[t]]
      BY <2>3, <3>1 DEF FdInv
    <3>3. interests'[fd[dev[t]]] = interests[fd[dev[t]]]
      BY <1>0, <2>3, <2>5, <3>2 DEF Drop, Forget
    <3> QED BY <2>2, <2>4, <3>3
  <2>6. ASSUME NEW u \in Tasks, Park(u)
        PROVE  (\E j \in interests[fd[dev[t]]] : j.task = t)'
    <3>1. dev[u] \in Handles /\ fd[dev[u]] \in Fds
      BY <2>6, ReaderHasFd DEF Park, Ended
    <3>2. interests[fd[dev[t]]] \subseteq interests'[fd[dev[t]]]
      BY <2>3, <2>6, <3>1, RegisterFacts DEF Park
    <3> QED BY <2>2, <2>4, <3>2
  <2>7. ASSUME PollFails \/ Harvest
        PROVE  (\E j \in interests[fd[dev[t]]] : j.task = t)'
    <3>1. token'[t] \/ \E j \in interests'[fd[dev[t]]] : j.task = t
      BY <2>2, <2>3, <2>7, WakeFacts DEF PollFails, Harvest, ToWake, TypeOK
    <3> QED BY <2>4, <3>1
  <2>8. CASE UNCHANGED interests
    BY <2>2, <2>4, <2>8
  <2>9. \/ \E h \in Handles : Drop(h)
        \/ \E u \in Tasks : Park(u)
        \/ PollFails \/ Harvest
        \/ UNCHANGED interests
    BY DEF Next, vars, Kernel, Report, Unplug, Owner, Open, DropNudge, Close, Read,
           ReadStep, PollNow, ReadNow, ParkNudge, Woken, ReadNothing, ReadFails,
           SpuriousWake, Cancel, ReactorStep, Snapshot, EnterPoll, PollReturns, Drain,
           PollInterrupted
  <2> QED BY <2>5, <2>6, <2>7, <2>8, <2>9
<1> QED BY <1>1, <1>2, <1>3

-----------------------------------------------------------------------------
(* The nudge is taken back by Drain alone, which goes on to a harvest; and   *)
(* the reactor gets to "enter" and to "wait" by Snapshot and EnterPoll.      *)
LEMMA ReactorFacts ==
  ASSUME [Next]_vars, rpc' \in {"enter", "wait"}, ~nudged'
  PROVE  Snapshot \/ EnterPoll \/ (UNCHANGED <<rpc, snap, polled>> /\ ~nudged)
<1> USE DEF reactorVars
<1>1. ASSUME NEW h \in Handles, Kernel(h) \/ Owner(h)
      PROVE  UNCHANGED <<rpc, snap, polled>> /\ ~nudged
  BY <1>1 DEF Kernel, Report, Unplug, Owner, Open, Drop, DropNudge, Close
<1>2. ASSUME NEW t \in Tasks, NEW h \in Handles, Read(t, h)
      PROVE  UNCHANGED <<rpc, snap, polled>> /\ ~nudged
  BY <1>2 DEF Read
<1>3. ASSUME NEW t \in Tasks, ReadStep(t)
      PROVE  UNCHANGED <<rpc, snap, polled>> /\ ~nudged
  BY <1>3 DEF ReadStep, PollNow, ReadNow, Park, ParkNudge, Nudge, Woken
<1>4. ASSUME NEW t \in Tasks,
             ReadNothing(t) \/ ReadFails(t) \/ SpuriousWake(t) \/ Cancel(t)
      PROVE  UNCHANGED <<rpc, snap, polled>> /\ ~nudged
  BY <1>4 DEF ReadNothing, ReadFails, SpuriousWake, Cancel
<1>5. ~(PollReturns \/ Drain \/ Harvest \/ PollInterrupted \/ PollFails)
  BY DEF PollReturns, Drain, Harvest, PollInterrupted, PollFails, NextTurn
<1>6. CASE UNCHANGED vars
  BY <1>6 DEF vars
<1> QED BY <1>1, <1>2, <1>3, <1>4, <1>5, <1>6 DEF Next, ReactorStep

\* The reactor looks at what readers parked on, or has been nudged.
LEMMA WatchInvariant == Inv /\ [Next]_vars => ReactorWatches'
<1> SUFFICES ASSUME TypeOK, FdInv, ParkedIsRegistered, ReactorWatches, [Next]_vars,
                    NEW t \in Tasks, pc'[t] = "parked", ~token'[t],
                    rpc' \in {"enter", "wait"}, ~nudged'
             PROVE  (fd[dev[t]] \in snap /\ (rpc = "wait" => polled[fd[dev[t]]] = dev[t]))'
  BY DEF Inv, ReactorWatches
<1>1. ~Park(t) /\ ~ParkNudge(t)
  BY DEF Park, ParkNudge, Goto, Nudge, TypeOK
<1>2. pc[t] = "parked" /\ dev'[t] = dev[t] /\ ~token[t]
  BY <1>1, StillParked
<1>3. /\ dev[t] \in Handles /\ fd[dev[t]] \in Fds /\ fd[dev[t]] # None
  BY <1>2, ReaderHasFd DEF Ended
<1>4. fd'[dev'[t]] = fd[dev[t]]
  BY <1>2, NumberStays DEF Ended
<1>5. CASE Snapshot
  <2>1. interests[fd[dev[t]]] # {}
    BY <1>2 DEF ParkedIsRegistered
  <2>2. fd[dev[t]] \in snap' /\ rpc' = "enter"
    BY <1>3, <1>5, <2>1 DEF Snapshot
  <2> QED BY <1>4, <2>2
<1>6. CASE EnterPoll
  <2>1. fd[dev[t]] \in snap
    BY <1>2, <1>6 DEF EnterPoll, ReactorWatches
  <2>2. Behind(fd[dev[t]]) = dev[t]
    BY <1>3, BehindIsOwner
  <2>3. polled'[fd[dev[t]]] = dev[t] /\ snap' = snap
    BY <1>3, <1>6, <2>1, <2>2 DEF EnterPoll
  <2> QED BY <1>2, <1>4, <2>1, <2>3
<1>7. CASE UNCHANGED <<rpc, snap, polled>> /\ ~nudged
  <2>1. fd[dev[t]] \in snap /\ (rpc = "wait" => polled[fd[dev[t]]] = dev[t])
    BY <1>2, <1>7 DEF ReactorWatches
  <2> QED BY <1>2, <1>4, <1>7, <2>1
<1> QED BY <1>5, <1>6, <1>7, ReactorFacts

-----------------------------------------------------------------------------
(* The invariant holds: it holds at first, and every step keeps it.          *)
THEOREM Invariance == Safety => []Inv
<1>1. Init => Inv
  <2>1. Init => FdInv /\ InterestsAreCurrent /\ ParkedIsRegistered /\ ReactorWatches
    BY DEF Init, FdInv, InterestsAreCurrent, ParkedIsRegistered, ReactorWatches
  <2> QED BY <2>1, InitType DEF Inv
<1>2. Inv /\ [Next]_vars => Inv'
  BY TypeInvariant, FdInvariant, InterestsInvariant, ParkedInvariant, WatchInvariant DEF Inv
<1> QED BY <1>1, <1>2, PTL DEF Safety

(* Every variable keeps its type, and reads borrow open handles.             *)
THEOREM TypeCorrect == Spec => []TypeOK
<1>1. Inv => TypeOK
  BY DEF Inv
<1> QED BY <1>1, Invariance, PTL DEF Spec

(* No interest outlives its handle: nothing parked on a number was parked    *)
(* there for an earlier device that had it.                                  *)
THEOREM InterestsTheorem == Spec => []InterestsAreCurrent
<1>1. Inv => InterestsAreCurrent
  BY DEF Inv
<1> QED BY <1>1, Invariance, PTL DEF Spec

(* A parked reader that nobody has woken is in the interest set.             *)
THEOREM RegisteredTheorem == Spec => []ParkedIsRegistered
<1>1. Inv => ParkedIsRegistered
  BY DEF Inv
<1> QED BY <1>1, Invariance, PTL DEF Spec

(* The reactor never sleeps without watching every parked reader's device.   *)
THEOREM ReactorTheorem == Spec => []ReactorWatches
<1>1. Inv => ReactorWatches
  BY DEF Inv
<1> QED BY <1>1, Invariance, PTL DEF Spec
=============================================================================
