-------------------------- MODULE ReportQueueProofs --------------------------
(***************************************************************************)
(* TLAPS proofs about ReportQueue, for every set of readers and notifiers  *)
(* and every cap.                                                          *)
(***************************************************************************)
EXTENDS ReportQueue, TLAPS

USE QueueAssumption DEF QueueAssumption

-----------------------------------------------------------------------------
(* Lemmas about sequences *)

(* Taking the head of a queue leaves the rest, one place to the left. *)
LEMMA TailFacts ==
  ASSUME NEW S, NEW q \in Seq(S), q # <<>>
  PROVE  /\ Head(q) \in S
         /\ Head(q) = q[1]
         /\ Tail(q) \in Seq(S)
         /\ Len(Tail(q)) = Len(q) - 1
         /\ Len(q) \in Nat \ {0}
         /\ \A i \in 1 .. Len(Tail(q)) : Tail(q)[i] = q[i + 1]
OBVIOUS

\* The empty queue is the one of length 0.
LEMMA EmptyFacts ==
  ASSUME NEW S, NEW q \in Seq(S)
  PROVE  q = <<>> <=> Len(q) = 0
OBVIOUS

(* How many reports push drops from the queue q. *)
Dropped(q) == IF Len(q) >= MaxQueuedReports THEN 1 ELSE 0

(* Enqueue appends the report, and keeps all but the oldest of a full queue. *)
LEMMA EnqueueFacts ==
  ASSUME NEW S, NEW q \in Seq(S), NEW x \in S, Len(q) <= MaxQueuedReports
  PROVE  /\ Enqueue(q, x) \in Seq(S)
         /\ Len(Enqueue(q, x)) = Len(q) + 1 - Dropped(q)
         /\ Len(Enqueue(q, x)) <= MaxQueuedReports
         /\ Enqueue(q, x)[Len(Enqueue(q, x))] = x
<1>1. CASE Len(q) >= MaxQueuedReports
  <2>1. q # <<>>
    BY <1>1
  <2>2. Enqueue(q, x) = Append(Tail(q), x)
    BY <1>1 DEF Enqueue
  <2>. QED
    BY <1>1, <2>1, <2>2, TailFacts DEF Dropped
<1>2. CASE ~(Len(q) >= MaxQueuedReports)
  <2>1. Enqueue(q, x) = Append(q, x)
    BY <1>2 DEF Enqueue
  <2>. QED
    BY <1>2, <2>1 DEF Dropped
<1>. QED
  BY <1>1, <1>2

\* Enqueue moves the reports up by as many as it drops.
LEMMA EnqueueElement ==
  ASSUME NEW S, NEW q \in Seq(S), NEW x \in S, Len(q) <= MaxQueuedReports,
         NEW i \in 1 .. Len(Enqueue(q, x)) - 1
  PROVE  Enqueue(q, x)[i] = q[i + Dropped(q)]
<1>1. CASE Len(q) >= MaxQueuedReports
  <2>1. q # <<>>
    BY <1>1
  <2>2. Enqueue(q, x) = Append(Tail(q), x)
    BY <1>1 DEF Enqueue
  <2>. QED
    BY <1>1, <2>1, <2>2, TailFacts DEF Dropped
<1>2. CASE ~(Len(q) >= MaxQueuedReports)
  <2>1. Enqueue(q, x) = Append(q, x)
    BY <1>2 DEF Enqueue
  <2>. QED
    BY <1>2, <2>1 DEF Dropped
<1>. QED
  BY <1>1, <1>2

(* A task is registered once: Register adds it, and nobody else. *)
LEMMA RegisterFacts ==
  ASSUME NEW ws \in Seq(Readers), NEW r \in Readers
  PROVE  /\ Register(ws, r) \in Seq(Readers)
         /\ Range(Register(ws, r)) = Range(ws) \cup {r}
         /\ IsInjective(ws) => IsInjective(Register(ws, r))
<1>1. CASE r \in Range(ws)
  BY <1>1 DEF Register
<1>2. CASE r \notin Range(ws)
  <2>1. Register(ws, r) = Append(ws, r)
    BY <1>2 DEF Register
  <2>2. /\ Append(ws, r) \in Seq(Readers)
        /\ DOMAIN Append(ws, r) = 1 .. Len(ws) + 1
        /\ DOMAIN ws = 1 .. Len(ws)
        /\ Len(ws) \in Nat
        /\ Append(ws, r)[Len(ws) + 1] = r
        /\ \A i \in 1 .. Len(ws) : Append(ws, r)[i] = ws[i]
    OBVIOUS
  <2>3. Range(Append(ws, r)) = Range(ws) \cup {r}
    BY <2>2 DEF Range
  <2>4. IsInjective(ws) => IsInjective(Append(ws, r))
    BY <1>2, <2>2 DEF Range, IsInjective
  <2>. QED
    BY <2>1, <2>2, <2>3, <2>4
<1>. QED
  BY <1>1, <1>2

-----------------------------------------------------------------------------
(* Type correctness *)

\* The initial states are typed.
LEMMA TypeInit == Init => TypeOK
<1> SUFFICES ASSUME Init PROVE TypeOK
  OBVIOUS
<1> USE DEF Init
<1>1. /\ reports \in Seq(1 .. MaxReport)
      /\ Len(reports) <= MaxQueuedReports
      /\ wakers \in Seq(Readers)
  OBVIOUS
<1>2. /\ pc \in [Readers -> ReaderStates]
      /\ failure \in [Readers -> Failures]
      /\ token \in [Readers -> BOOLEAN]
  BY DEF ReaderStates, Failures
<1>3. /\ npc \in [Notifiers -> NotifierStates]
      /\ taken \in [Notifiers -> Seq(Readers)]
  BY DEF NotifierStates
<1>4. disconnected \in BOOLEAN /\ shutdown \in BOOLEAN
  OBVIOUS
<1>5. pushed \in 0 .. MaxReport /\ delivered \subseteq 1 .. MaxReport
  OBVIOUS
<1>. QED
  BY <1>1, <1>2, <1>3, <1>4, <1>5 DEF TypeOK

(* A notifier is in wake_all exactly while it holds wakers. *)
NotifierInv == \A n \in Notifiers : npc[n] = "wake" <=> taken[n] # <<>>

\* Types, and what notifiers hold, are kept by every step.
LEMMA TypeStep == TypeOK /\ NotifierInv /\ [Next]_vars => TypeOK' /\ NotifierInv'
<1> SUFFICES ASSUME TypeOK, NotifierInv, [Next]_vars
             PROVE  TypeOK' /\ NotifierInv'
  OBVIOUS
<1> USE DEF ReaderStates, Failures, NotifierStates
<1>1. ASSUME NEW n \in Notifiers, Push(n) PROVE TypeOK' /\ NotifierInv'
  <2>1. pushed + 1 \in 1 .. MaxReport
    BY <1>1 DEF TypeOK, NotifierInv, Push
  <2>2. reports' \in Seq(1 .. MaxReport) /\ Len(reports') <= MaxQueuedReports
    BY <1>1, <2>1, EnqueueFacts DEF TypeOK, Push
  <2>. QED
    BY <1>1, <2>1, <2>2 DEF TypeOK, NotifierInv, Push, TakeParked, readerVars
<1>2. ASSUME NEW n \in Notifiers, SetDisconnected(n) PROVE TypeOK' /\ NotifierInv'
  BY <1>2 DEF TypeOK, NotifierInv, SetDisconnected, StartWakeParked, readerVars
<1>3. ASSUME NEW n \in Notifiers, SetShutdown(n) PROVE TypeOK' /\ NotifierInv'
  BY <1>3 DEF TypeOK, NotifierInv, SetShutdown, StartWakeParked, readerVars
<1>4. ASSUME NEW n \in Notifiers, WakeParked(n) PROVE TypeOK' /\ NotifierInv'
  BY <1>4 DEF TypeOK, NotifierInv, WakeParked, StartWakeParked, queueVars, readerVars
<1>5. ASSUME NEW n \in Notifiers, TakeWakers(n) PROVE TypeOK' /\ NotifierInv'
  BY <1>5 DEF TypeOK, NotifierInv, TakeWakers, TakeParked, readerVars
<1>6. ASSUME NEW n \in Notifiers, Wake(n) PROVE TypeOK' /\ NotifierInv'
  <2>1. taken[n] \in Seq(Readers) /\ taken[n] # <<>>
    BY <1>6 DEF TypeOK, NotifierInv, Wake
  <2>2. Tail(taken[n]) \in Seq(Readers) /\ (Len(taken[n]) = 1 <=> Tail(taken[n]) = <<>>)
    <3>1. Tail(taken[n]) \in Seq(Readers) /\ Len(Tail(taken[n])) = Len(taken[n]) - 1
      BY <2>1, TailFacts
    <3>2. Len(taken[n]) \in Nat
      BY <2>1
    <3>3. Tail(taken[n]) = <<>> <=> Len(Tail(taken[n])) = 0
      BY <3>1, EmptyFacts, Zenon
    <3>. QED
      BY <3>1, <3>2, <3>3
  <2>. QED
    BY <1>6, <2>1, <2>2 DEF TypeOK, NotifierInv, Wake, queueVars
<1>7. ASSUME NEW r \in Readers, Read(r) PROVE TypeOK' /\ NotifierInv'
  BY <1>7 DEF TypeOK, NotifierInv, Read, queueVars, notifierVars
<1>8. ASSUME NEW r \in Readers, ReadIntoEmptyBuffer(r) PROVE TypeOK' /\ NotifierInv'
  BY <1>8 DEF TypeOK, NotifierInv, ReadIntoEmptyBuffer, vars
<1>9. ASSUME NEW r \in Readers, PollRead(r) PROVE TypeOK' /\ NotifierInv'
  <2>1. CASE reports # <<>>
    <3>1. /\ Head(reports) \in 1 .. MaxReport
          /\ Tail(reports) \in Seq(1 .. MaxReport)
          /\ Len(Tail(reports)) <= MaxQueuedReports
      BY <2>1, TailFacts DEF TypeOK
    <3>. QED
      BY <1>9, <2>1, <3>1 DEF TypeOK, NotifierInv, PollRead, GoneAndDrained, Return, notifierVars
  <2>2. CASE reports = <<>>
    <3>1. /\ pc' \in [Readers -> ReaderStates]
          /\ failure' \in [Readers -> Failures]
          /\ holder' \in Readers \cup {NoReader}
      BY <1>9, <2>2 DEF TypeOK, NotifierInv, PollRead, GoneAndDrained, Return
    <3>2. UNCHANGED <<reports, wakers, disconnected, shutdown, token, npc, taken,
                      pushed, delivered>>
      BY <1>9, <2>2 DEF TypeOK, NotifierInv, PollRead, notifierVars
    <3>. QED
      BY <3>1, <3>2 DEF TypeOK, NotifierInv
  <2>. QED
    BY <2>1, <2>2
<1>10. ASSUME NEW r \in Readers, PollPark(r) PROVE TypeOK' /\ NotifierInv'
  <2>1. pc' \in [Readers -> ReaderStates] /\ failure' \in [Readers -> Failures]
    BY <1>10 DEF TypeOK, PollPark, Return
  <2>2. wakers' \in Seq(Readers)
    BY <1>10, RegisterFacts DEF TypeOK, PollPark
  <2>3. /\ holder' = NoReader
        /\ UNCHANGED <<reports, disconnected, shutdown, token, npc, taken, pushed, delivered>>
    BY <1>10 DEF PollPark, notifierVars
  <2>. QED
    BY <2>1, <2>2, <2>3 DEF TypeOK, NotifierInv
<1>11. ASSUME NEW r \in Readers, Woken(r) PROVE TypeOK' /\ NotifierInv'
  BY <1>11 DEF TypeOK, NotifierInv, Woken, queueVars, notifierVars
<1>12. ASSUME NEW r \in Readers, SpuriousWake(r) PROVE TypeOK' /\ NotifierInv'
  BY <1>12 DEF TypeOK, NotifierInv, SpuriousWake, queueVars, notifierVars
<1>13. ASSUME NEW r \in Readers, Cancel(r) PROVE TypeOK' /\ NotifierInv'
  BY <1>13 DEF TypeOK, NotifierInv, Cancel, queueVars, notifierVars
<1>14. CASE UNCHANGED vars
  BY <1>14 DEF TypeOK, NotifierInv, vars
<1>. QED
  BY <1>1, <1>2, <1>3, <1>4, <1>5, <1>6, <1>7, <1>8, <1>9, <1>10, <1>11, <1>12,
     <1>13, <1>14 DEF Next, Notify

\* The queue is typed in every state.
LEMMA Types == Safety => [](TypeOK /\ NotifierInv)
<1>1. Init => TypeOK /\ NotifierInv
  BY TypeInit DEF Init, NotifierInv
<1>. QED
  BY <1>1, TypeStep, PTL DEF Safety

(* Every variable keeps its type in every reachable state: in particular the *)
(* queue of queue.rs never holds more than MAX_QUEUED_REPORTS reports.       *)
THEOREM TypeCorrect == Spec => []TypeOK
BY Types, PTL DEF Spec

-----------------------------------------------------------------------------
(* No lost wake-up *)

(* The mutex is held across a step exactly by the reader between its loads of *)
(* the two flags.                                                             *)
LockInv == \A r \in Readers : pc[r] = "empty" <=> holder = r

(* While it holds the mutex there is no report, and whoever has set           *)
(* `disconnected` since it looked has yet to take the wakers.                 *)
EmptyInv ==
  \A r \in Readers :
    pc[r] = "empty" => reports = <<>> /\ (disconnected => WakersAboutToBeTaken)

(* Likewise while any waker is registered, for both flags. *)
WakersInv ==
  wakers # <<>> =>
    /\ reports = <<>>
    /\ disconnected \/ shutdown => WakersAboutToBeTaken

(* A parked reader is registered, or its wake-up is on its way. *)
ParkedInv ==
  \A r \in Readers :
    pc[r] = "parked" /\ ~token[r] => r \in Range(wakers) \/ AboutToBeWoken(r)

(* NoLostWakeup is not inductive: a step of poll_read preserves it only       *)
(* because of what holds while the mutex is held.  IInv is.                   *)
IInv == LockInv /\ EmptyInv /\ WakersInv /\ ParkedInv

\* Nobody waits at first.
LEMMA WakeupInit == Init => IInv
BY DEF Init, IInv, LockInv, EmptyInv, WakersInv, ParkedInv

\* Nothing is in the range of the empty sequence.
LEMMA RangeEmpty == ASSUME NEW x, x \in Range(<<>>) PROVE FALSE
BY DEF Range

(* Leaving a critical section with the wakers: every registered reader is     *)
(* about to be woken, nobody is forgotten.                                    *)
LEMMA TakeParkedFacts ==
  ASSUME TypeOK, NotifierInv, ParkedInv, NEW n \in Notifiers, npc[n] # "wake",
         TakeParked(n), UNCHANGED <<pc, token>>
  PROVE  WakersInv' /\ ParkedInv'
<1>1. WakersInv'
  BY DEF TakeParked, WakersInv
<1>2. ASSUME NEW r \in Readers, AboutToBeWoken(r) PROVE AboutToBeWoken(r)'
  <2>1. PICK m \in Notifiers : npc[m] = "wake" /\ r \in Range(taken[m])
    BY <1>2 DEF AboutToBeWoken
  <2>2. m # n /\ npc'[m] = npc[m] /\ taken'[m] = taken[m]
    BY <2>1 DEF TakeParked, TypeOK
  <2>. QED
    BY <2>1, <2>2 DEF AboutToBeWoken
<1>3. ASSUME NEW r \in Readers, r \in Range(wakers) PROVE AboutToBeWoken(r)'
  <2>1. wakers # <<>>
    BY <1>3, RangeEmpty
  <2>2. npc'[n] = "wake" /\ taken'[n] = wakers
    BY <2>1 DEF TakeParked, TypeOK
  <2>. QED
    BY <1>3, <2>2 DEF AboutToBeWoken
<1>. QED
  BY <1>1, <1>2, <1>3 DEF ParkedInv

\* IInv is kept by every step: nobody parks over a report or a flag unseen.
LEMMA WakeupStep ==
  TypeOK /\ NotifierInv /\ IInv /\ [Next]_vars => IInv'
<1> SUFFICES ASSUME TypeOK, NotifierInv, IInv, [Next]_vars PROVE IInv'
  OBVIOUS
<1> USE DEF IInv
<1>1. ASSUME NEW n \in Notifiers, Push(n) PROVE IInv'
  <2>1. WakersInv' /\ ParkedInv'
    BY <1>1, TakeParkedFacts DEF Push, readerVars
  <2>2. \A r \in Readers : pc[r] # "empty"
    BY <1>1 DEF Push, LockInv
  <2>. QED
    BY <1>1, <2>1, <2>2 DEF Push, readerVars, LockInv, EmptyInv
<1>2. ASSUME NEW n \in Notifiers, StartWakeParked(n), UNCHANGED <<reports, wakers, readerVars>>
      PROVE  IInv'
  <2>1. WakersAboutToBeTaken'
    BY <1>2 DEF StartWakeParked, WakersAboutToBeTaken, TypeOK
  <2>2. ASSUME NEW r \in Readers, AboutToBeWoken(r) PROVE AboutToBeWoken(r)'
    BY <1>2, <2>2 DEF AboutToBeWoken, StartWakeParked, TypeOK
  <2>3. LockInv' /\ EmptyInv'
    BY <1>2, <2>1 DEF LockInv, EmptyInv, readerVars
  <2>4. WakersInv'
    BY <1>2, <2>1 DEF WakersInv
  <2>5. ParkedInv'
    BY <1>2, <2>2 DEF ParkedInv, readerVars
  <2>. QED
    BY <2>3, <2>4, <2>5
<1>3. ASSUME NEW n \in Notifiers, TakeWakers(n) PROVE IInv'
  <2>1. WakersInv' /\ ParkedInv'
    BY <1>3, TakeParkedFacts DEF TakeWakers, readerVars
  <2>2. \A r \in Readers : pc[r] # "empty"
    BY <1>3 DEF TakeWakers, LockInv
  <2>. QED
    BY <1>3, <2>1, <2>2 DEF TakeWakers, readerVars, LockInv, EmptyInv
<1>4. ASSUME NEW n \in Notifiers, Wake(n) PROVE IInv'
  <2>1. taken[n] \in Seq(Readers) /\ taken[n] # <<>>
    BY <1>4 DEF Wake, NotifierInv, TypeOK
  <2>2. WakersAboutToBeTaken => WakersAboutToBeTaken'
    BY <1>4 DEF Wake, WakersAboutToBeTaken, TypeOK
  <2>3. ASSUME NEW r \in Readers, AboutToBeWoken(r) PROVE token'[r] \/ AboutToBeWoken(r)'
    <3>1. PICK m \in Notifiers : npc[m] = "wake" /\ r \in Range(taken[m])
      BY <2>3 DEF AboutToBeWoken
    <3>2. CASE m # n
      <4>1. npc'[m] = npc[m] /\ taken'[m] = taken[m]
        BY <1>4, <3>2 DEF Wake, TypeOK
      <4>. QED
        BY <3>1, <4>1 DEF AboutToBeWoken
    <3>3. CASE m = n /\ r = Head(taken[n])
      BY <1>4, <3>3 DEF Wake, TypeOK
    <3>4. CASE m = n /\ r # Head(taken[n])
      <4>1. PICK i \in 1 .. Len(taken[n]) : taken[n][i] = r
        BY <2>1, <3>1, <3>4 DEF Range
      <4>2. i # 1 /\ i - 1 \in 1 .. Len(Tail(taken[n])) /\ Tail(taken[n])[i - 1] = r
        BY <2>1, <3>4, <4>1, TailFacts
      <4>3. r \in Range(Tail(taken[n]))
        BY <2>1, <4>2 DEF Range
      <4>4. Len(taken[n]) # 1
        BY <2>1, <4>1, <4>2
      <4>5. npc'[n] = "wake" /\ taken'[n] = Tail(taken[n])
        BY <1>4, <4>4 DEF Wake, TypeOK
      <4>. QED
        BY <4>3, <4>5 DEF AboutToBeWoken
    <3>. QED
      BY <3>2, <3>3, <3>4
  <2>4. \A r \in Readers : token[r] => token'[r]
    BY <1>4 DEF Wake, TypeOK
  <2>5. LockInv' /\ EmptyInv' /\ WakersInv'
    BY <1>4, <2>2 DEF Wake, queueVars, LockInv, EmptyInv, WakersInv
  <2>6. ParkedInv'
    BY <1>4, <2>3, <2>4 DEF Wake, queueVars, ParkedInv
  <2>. QED
    BY <2>5, <2>6
<1>5. ASSUME NEW r \in Readers, PollRead(r) PROVE IInv'
  <2>1. \A x \in Readers : pc[x] # "empty"
    BY <1>5 DEF PollRead, LockInv
  <2>2. /\ UNCHANGED <<wakers, token, shutdown, disconnected>>
        /\ AboutToBeWoken(r)' = AboutToBeWoken(r)
        /\ WakersAboutToBeTaken' = WakersAboutToBeTaken
    BY <1>5 DEF PollRead, notifierVars, AboutToBeWoken, WakersAboutToBeTaken
  <2>3. \A x \in Readers : AboutToBeWoken(x)' = AboutToBeWoken(x)
    BY <1>5 DEF PollRead, notifierVars, AboutToBeWoken
  <2>4. \A x \in Readers : pc'[x] = "parked" => pc[x] = "parked"
    BY <1>5 DEF PollRead, Return, TypeOK
  <2>5. ParkedInv'
    BY <2>2, <2>3, <2>4 DEF ParkedInv
  <2>6. CASE reports # <<>>
    <3>1. UNCHANGED holder /\ pc' = [pc EXCEPT ![r] = "idle"]
      BY <1>5, <2>6 DEF PollRead, GoneAndDrained, Return
    <3>2. wakers = <<>>
      BY <2>6 DEF WakersInv
    <3>. QED
      BY <1>5, <2>1, <2>2, <2>5, <3>1, <3>2 DEF PollRead, LockInv, EmptyInv, WakersInv, TypeOK
  <2>7. CASE reports = <<>>
    <3>1. UNCHANGED reports
      BY <1>5, <2>7 DEF PollRead
    <3>2. WakersInv'
      BY <2>2, <3>1 DEF WakersInv
    <3>3. \/ UNCHANGED holder /\ pc' = [pc EXCEPT ![r] = "idle"]
          \/ ~disconnected /\ holder' = r /\ pc' = [pc EXCEPT ![r] = "empty"]
      BY <1>5, <2>7 DEF PollRead, Return
    <3>4. LockInv'
      BY <1>5, <2>1, <3>3 DEF PollRead, LockInv, TypeOK
    <3>5. EmptyInv'
      BY <2>1, <2>2, <2>7, <3>1, <3>3 DEF EmptyInv, TypeOK
    <3>. QED
      BY <2>5, <3>2, <3>4, <3>5
  <2>. QED
    BY <2>6, <2>7
<1>6. ASSUME NEW r \in Readers, PollPark(r) PROVE IInv'
  <2>1. /\ UNCHANGED <<reports, disconnected, shutdown, token>>
        /\ WakersAboutToBeTaken' = WakersAboutToBeTaken
        /\ \A x \in Readers : AboutToBeWoken(x)' = AboutToBeWoken(x)
    BY <1>6 DEF PollPark, notifierVars, AboutToBeWoken, WakersAboutToBeTaken
  <2>2. reports = <<>> /\ (disconnected => WakersAboutToBeTaken)
    BY <1>6 DEF PollPark, EmptyInv
  <2>3. \A x \in Readers : pc[x] = "empty" => x = r
    BY <1>6 DEF PollPark, LockInv
  <2>4. holder' = NoReader /\ \A x \in Readers : pc'[x] # "empty"
    BY <1>6, <2>3 DEF PollPark, Return, TypeOK
  <2>5. LockInv' /\ EmptyInv'
    BY <2>4 DEF LockInv, EmptyInv
  <2>6. CASE shutdown
    <3>1. UNCHANGED wakers /\ pc' = [pc EXCEPT ![r] = "idle"]
      BY <1>6, <2>6 DEF PollPark, Return
    <3>. QED
      BY <2>1, <2>5, <3>1 DEF WakersInv, ParkedInv, TypeOK
  <2>7. CASE ~shutdown
    <3>1. wakers' = Register(wakers, r) /\ pc' = [pc EXCEPT ![r] = "parked"]
      BY <1>6, <2>7 DEF PollPark
    <3>2. Range(wakers') = Range(wakers) \cup {r}
      BY <3>1, RegisterFacts DEF TypeOK
    <3>3. WakersInv'
      BY <2>1, <2>2, <2>7 DEF WakersInv
    <3>4. ParkedInv'
      BY <2>1, <3>1, <3>2 DEF ParkedInv, TypeOK
    <3>. QED
      BY <2>5, <3>3, <3>4
  <2>. QED
    BY <2>6, <2>7
<1>7. ASSUME NEW r \in Readers, Read(r) PROVE IInv'
  BY <1>7 DEF Read, queueVars, notifierVars, LockInv, EmptyInv, WakersInv, ParkedInv,
     AboutToBeWoken, WakersAboutToBeTaken, TypeOK
<1>8. ASSUME NEW r \in Readers, Woken(r) PROVE IInv'
  BY <1>8 DEF Woken, queueVars, notifierVars, LockInv, EmptyInv, WakersInv, ParkedInv,
     AboutToBeWoken, WakersAboutToBeTaken, TypeOK
<1>9. ASSUME NEW r \in Readers, SpuriousWake(r) PROVE IInv'
  BY <1>9 DEF SpuriousWake, queueVars, notifierVars, LockInv, EmptyInv, WakersInv,
     ParkedInv, AboutToBeWoken, WakersAboutToBeTaken, TypeOK
<1>10. ASSUME NEW r \in Readers, Cancel(r) PROVE IInv'
  BY <1>10 DEF Cancel, queueVars, notifierVars, LockInv, EmptyInv, WakersInv, ParkedInv,
     AboutToBeWoken, WakersAboutToBeTaken, TypeOK
<1>11. CASE UNCHANGED vars
  BY <1>11 DEF vars, LockInv, EmptyInv, WakersInv, ParkedInv, AboutToBeWoken,
     WakersAboutToBeTaken
<1>. QED
  <2>1. ASSUME NEW n \in Notifiers, SetDisconnected(n) \/ SetShutdown(n) \/ WakeParked(n)
        PROVE  IInv'
    BY <1>2, <2>1 DEF SetDisconnected, SetShutdown, WakeParked, queueVars
  <2>. QED
    BY <1>1, <1>3, <1>4, <1>5, <1>6, <1>7, <1>8, <1>9, <1>10, <1>11, <2>1
    DEF Next, Notify, ReadIntoEmptyBuffer

\* IInv holds in every state.
LEMMA WakeupInv == Safety => []IInv
BY Types, WakeupInit, WakeupStep, PTL DEF Safety

(* A reader that parked on the queue is always woken for what it waits for:   *)
(* the claim of the comment at queue.rs:36, for any number of readers and     *)
(* notifying threads.                                                         *)
THEOREM NoLostWakeupTheorem == Spec => []NoLostWakeup
<1>1. IInv => NoLostWakeup
  <2> SUFFICES ASSUME IInv, NEW r \in Readers, pc[r] = "parked", ~token[r], ~AboutToBeWoken(r)
               PROVE  /\ r \in Range(wakers)
                      /\ reports = <<>>
                      /\ disconnected \/ shutdown => WakersAboutToBeTaken
    BY DEF NoLostWakeup
  <2>1. r \in Range(wakers)
    BY DEF IInv, ParkedInv
  <2>2. wakers # <<>>
    BY <2>1, RangeEmpty
  <2>. QED
    BY <2>1, <2>2 DEF IInv, WakersInv
<1>. QED
  BY <1>1, WakeupInv, PTL DEF Spec

-----------------------------------------------------------------------------
(* The reports: order, duplication and loss *)

(* Only these steps touch the reports, the history or the list of wakers. *)
LEMMA StepKinds ==
  ASSUME [Next]_vars
  PROVE  \/ \E n \in Notifiers : Push(n)
         \/ \E n \in Notifiers : TakeWakers(n)
         \/ \E r \in Readers : PollRead(r)
         \/ \E r \in Readers : PollPark(r)
         \/ UNCHANGED <<reports, wakers, pushed, delivered>>
BY DEF Next, Notify, SetDisconnected, SetShutdown, WakeParked, Wake, Read,
   ReadIntoEmptyBuffer, Woken, SpuriousWake, Cancel, queueVars, vars

(* PollRead either takes the oldest report or leaves queue and history alone. *)
LEMMA PollReadKinds ==
  ASSUME NEW r \in Readers, PollRead(r)
  PROVE  /\ UNCHANGED <<pushed, wakers>>
         /\ \/ /\ reports # <<>>
               /\ reports' = Tail(reports)
               /\ delivered' = delivered \cup {Head(reports)}
            \/ UNCHANGED <<reports, delivered>>
BY DEF PollRead

(* What a push does to the queue. *)
LEMMA PushFacts ==
  ASSUME TypeOK, NEW n \in Notifiers, Push(n)
  PROVE  /\ reports' \in Seq(1 .. MaxReport)
         /\ Len(reports') = Len(reports) + 1 - Dropped(reports)
         /\ reports'[Len(reports')] = pushed + 1
         /\ \A i \in 1 .. Len(reports') - 1 : reports'[i] = reports[i + Dropped(reports)]
<1> DEFINE S == 1 .. MaxReport
<1>1. /\ pushed + 1 \in S
      /\ reports \in Seq(S)
      /\ Len(reports) <= MaxQueuedReports
      /\ reports' = Enqueue(reports, pushed + 1)
  BY DEF Push, TypeOK
<1> HIDE DEF S
<1>2. reports' \in Seq(S)
  BY <1>1, EnqueueFacts
<1>3. Len(reports') = Len(reports) + 1 - Dropped(reports)
  BY <1>1, EnqueueFacts
<1>4. reports'[Len(reports')] = pushed + 1
  BY <1>1, EnqueueFacts
<1>5. ASSUME NEW i \in 1 .. Len(reports') - 1
      PROVE  reports'[i] = reports[i + Dropped(reports)]
  <2>1. i \in 1 .. Len(Enqueue(reports, pushed + 1)) - 1
    BY <1>1, <1>5
  <2>2. Enqueue(reports, pushed + 1)[i] = reports[i + Dropped(reports)]
    BY <1>1, <2>1, EnqueueElement
  <2>. QED
    BY <1>1, <2>2
<1>. QED
  BY <1>2, <1>3, <1>4, <1>5 DEF S

\* The queue holds the newest reports after every step.
LEMMA NewestStep == TypeOK /\ QueueIsNewest /\ [Next]_vars => QueueIsNewest'
<1> SUFFICES ASSUME TypeOK, QueueIsNewest, [Next]_vars PROVE QueueIsNewest'
  OBVIOUS
<1>0. /\ reports \in Seq(1 .. MaxReport) /\ Len(reports) \in Nat
      /\ pushed \in Nat /\ delivered \subseteq Nat
  BY DEF TypeOK
<1>1. ASSUME NEW n \in Notifiers, Push(n) PROVE QueueIsNewest'
  <2>0. /\ Dropped(reports) \in Int
        /\ Dropped(reports) \in {0, 1}
        /\ Dropped(reports) = 1 <=> Len(reports) >= MaxQueuedReports
        /\ Len(reports') = Len(reports) + 1 - Dropped(reports)
        /\ Len(reports) \in Int
        /\ Len(reports') \in Int
    BY <1>0, <1>1, PushFacts DEF Dropped
  <2>1. pushed' = pushed + 1 /\ delivered' = delivered
    BY <1>1 DEF Push
  <2>2. /\ reports' \in Seq(1 .. MaxReport)
        /\ Len(reports') = Len(reports) + 1 - Dropped(reports)
        /\ reports'[Len(reports')] = pushed + 1
        /\ \A i \in 1 .. Len(reports') - 1 : reports'[i] = reports[i + Dropped(reports)]
    BY <1>1, PushFacts
  <2>3. ASSUME NEW i \in 1 .. Len(reports')
        PROVE  reports'[i] = pushed' - Len(reports') + i
    <3>1. CASE i = Len(reports')
      BY <2>1, <2>2, <3>1, <1>0
    <3>2. CASE i # Len(reports')
      <4>1. i \in 1 .. Len(reports') - 1 /\ i + Dropped(reports) \in 1 .. Len(reports)
        BY <2>0, <2>3, <3>2
      <4>2. reports'[i] = pushed - Len(reports) + (i + Dropped(reports))
        BY <2>2, <4>1 DEF QueueIsNewest
      <4>. QED
        <5>1. pushed - Len(reports) + (i + Dropped(reports)) = pushed' - Len(reports') + i
          <6> DEFINE p == pushed  l == Len(reports)  d == Dropped(reports)
          <6>1. i \in Int /\ p \in Int /\ l \in Int /\ d \in Int
            BY <1>0, <2>0
          <6>2. p - l + (i + d) = (p + 1) - (l + 1 - d) + i
            <7> HIDE DEF p, l, d
            <7> QED
              BY <6>1
          <6>. QED
            BY <2>1, <2>2, <6>2
        <5>. QED
          BY <4>2, <5>1
    <3>. QED
      BY <3>1, <3>2
  <2>4. ASSUME NEW k \in delivered' PROVE k <= pushed' - Len(reports')
    <3>1. k \in Nat /\ k <= pushed - Len(reports)
      BY <2>1, <1>0 DEF QueueIsNewest
    <3>2. pushed - Len(reports) <= pushed' - Len(reports')
      BY <2>0, <2>1, <1>0
    <3>3. pushed - Len(reports) \in Int /\ pushed' - Len(reports') \in Int
      BY <2>0, <2>1, <1>0
    <3>. QED
      BY <3>1, <3>2, <3>3
  <2>. QED
    BY <2>3, <2>4 DEF QueueIsNewest
<1>2. ASSUME NEW r \in Readers, PollRead(r) PROVE QueueIsNewest'
  <2>1. CASE UNCHANGED <<reports, delivered>>
    BY <1>2, <2>1, PollReadKinds DEF QueueIsNewest
  <2>2. CASE /\ reports # <<>>
             /\ reports' = Tail(reports)
             /\ delivered' = delivered \cup {Head(reports)}
    <3>1. /\ pushed' = pushed
          /\ Len(reports') = Len(reports) - 1 /\ Len(reports) >= 1
          /\ Head(reports) = pushed - Len(reports) + 1
          /\ \A i \in 1 .. Len(reports') : reports'[i] = reports[i + 1]
      BY <1>2, <2>2, <1>0, PollReadKinds, TailFacts DEF QueueIsNewest
    <3>2. ASSUME NEW i \in 1 .. Len(reports')
          PROVE  reports'[i] = pushed' - Len(reports') + i
      <4>1. i + 1 \in 1 .. Len(reports)
        BY <3>1, <3>2, <1>0
      <4>. QED
        BY <3>1, <4>1, <1>0 DEF QueueIsNewest
    <3>3. \A k \in delivered' : k <= pushed' - Len(reports')
      BY <2>2, <3>1, <1>0 DEF QueueIsNewest
    <3>. QED
      BY <3>2, <3>3 DEF QueueIsNewest
  <2>. QED
    BY <1>2, <2>1, <2>2, PollReadKinds
<1>3. CASE UNCHANGED <<reports, pushed, delivered>>
  BY <1>3 DEF QueueIsNewest
<1>. QED
  BY <1>1, <1>2, <1>3, StepKinds DEF TakeWakers, PollPark

(* Reports leave the queue in the order they were pushed and none twice:      *)
(* what push and poll_read keep is always the newest run of reports.          *)
THEOREM QueueIsNewestTheorem == Spec => []QueueIsNewest
<1>1. Init => QueueIsNewest
  BY DEF Init, QueueIsNewest
<1>. QED
  BY <1>1, NewestStep, Types, PTL DEF Spec, Safety

\* A report is lost only when the queue is full, at every step.
LEMMA LossStep ==
  TypeOK /\ QueueIsNewest /\ LossOnlyAtCapacity /\ [Next]_vars => LossOnlyAtCapacity'
<1> SUFFICES ASSUME TypeOK, QueueIsNewest, LossOnlyAtCapacity, [Next]_vars,
                    NEW k \in 1 .. pushed'
             PROVE  k \in delivered' \/ k \in Range(reports') \/ k + MaxQueuedReports <= pushed'
  BY DEF LossOnlyAtCapacity
<1>0. /\ reports \in Seq(1 .. MaxReport) /\ Len(reports) \in Nat
      /\ DOMAIN reports = 1 .. Len(reports) /\ pushed \in Nat
  BY DEF TypeOK
<1>1. ASSUME NEW n \in Notifiers, Push(n)
      PROVE  k \in delivered' \/ k \in Range(reports') \/ k + MaxQueuedReports <= pushed'
  <2>0. /\ Dropped(reports) \in Int
        /\ Dropped(reports) \in {0, 1}
        /\ Dropped(reports) = 1 <=> Len(reports) >= MaxQueuedReports
        /\ Len(reports') = Len(reports) + 1 - Dropped(reports)
        /\ Len(reports) \in Int
        /\ Len(reports') \in Int
    BY <1>0, <1>1, PushFacts DEF Dropped
  <2>1. pushed' = pushed + 1 /\ delivered' = delivered
    BY <1>1 DEF Push
  <2>2. /\ reports' \in Seq(1 .. MaxReport)
        /\ Len(reports') = Len(reports) + 1 - Dropped(reports)
        /\ reports'[Len(reports')] = pushed + 1
        /\ \A i \in 1 .. Len(reports') - 1 : reports'[i] = reports[i + Dropped(reports)]
    BY <1>1, PushFacts
  <2>3. /\ DOMAIN reports' = 1 .. Len(reports') /\ Len(reports') \in 1 .. Len(reports) + 1
        /\ Len(reports) <= MaxQueuedReports
    BY <2>0, <2>2, <1>0 DEF TypeOK
  <2>4. CASE k = pushed + 1
    BY <2>2, <2>3, <2>4 DEF Range
  <2>5. CASE k \in Range(reports)
    <3>1. PICK i \in 1 .. Len(reports) : reports[i] = k
      BY <2>5, <1>0 DEF Range
    <3>2. CASE i - Dropped(reports) >= 1
      <4>1. i - Dropped(reports) \in 1 .. Len(reports') - 1
        BY <2>0, <3>1, <3>2
      <4>2. reports'[i - Dropped(reports)] = reports[i]
        <5>1. reports'[i - Dropped(reports)] = reports[(i - Dropped(reports)) + Dropped(reports)]
          BY <2>2, <4>1
        <5>2. (i - Dropped(reports)) + Dropped(reports) = i
          BY <2>0, <3>1, <1>0
        <5>. QED
          BY <5>1, <5>2
      <4>3. i - Dropped(reports) \in DOMAIN reports'
        BY <2>3, <4>1, <1>0
      <4>. QED
        BY <3>1, <4>2, <4>3 DEF Range
    <3>3. CASE ~(i - Dropped(reports) >= 1)
      <4>1. i = 1 /\ Len(reports) = MaxQueuedReports
        <5>1. Len(reports) <= MaxQueuedReports
          BY DEF TypeOK
        <5>. QED
          BY <2>0, <3>1, <3>3, <5>1
      <4>2. k = pushed - Len(reports) + 1
        BY <3>1, <4>1 DEF QueueIsNewest
      <4>. QED
        BY <2>1, <4>1, <4>2, <1>0
    <3>. QED
      BY <3>2, <3>3
  <2>6. k = pushed + 1 \/ k \in delivered \/ k \in Range(reports) \/ k + MaxQueuedReports <= pushed
    BY <2>1, <1>0 DEF LossOnlyAtCapacity
  <2>. QED
    BY <2>1, <2>4, <2>5, <2>6, <1>0
<1>2. ASSUME NEW r \in Readers, PollRead(r)
      PROVE  k \in delivered' \/ k \in Range(reports') \/ k + MaxQueuedReports <= pushed'
  <2>1. CASE UNCHANGED <<reports, delivered>>
    BY <1>2, <2>1, PollReadKinds DEF LossOnlyAtCapacity
  <2>2. CASE /\ reports # <<>>
             /\ reports' = Tail(reports)
             /\ delivered' = delivered \cup {Head(reports)}
    <3>1. /\ pushed' = pushed
          /\ reports' \in Seq(1 .. MaxReport)
          /\ Len(reports') = Len(reports) - 1
          /\ Head(reports) = reports[1]
          /\ \A i \in 1 .. Len(reports') : reports'[i] = reports[i + 1]
      BY <1>2, <2>2, <1>0, PollReadKinds, TailFacts
    <3>2. CASE k \in Range(reports)
      <4>1. PICK i \in 1 .. Len(reports) : reports[i] = k
        BY <3>2, <1>0 DEF Range
      <4>2. CASE i = 1
        BY <2>2, <3>1, <4>1, <4>2
      <4>3. CASE i # 1
        <5>1. i - 1 \in 1 .. Len(reports') /\ reports'[i - 1] = k
          <6>1. i - 1 \in 1 .. Len(reports')
            BY <3>1, <4>1, <4>3, <1>0
          <6>2. reports'[i - 1] = reports[(i - 1) + 1]
            BY <3>1, <6>1
          <6>3. (i - 1) + 1 = i
            BY <4>1
          <6>. QED
            BY <4>1, <6>1, <6>2, <6>3
        <5>2. DOMAIN reports' = 1 .. Len(reports')
          BY <3>1
        <5>. QED
          BY <5>1, <5>2 DEF Range
      <4>. QED
        BY <4>2, <4>3
    <3>. QED
      BY <2>2, <3>1, <3>2 DEF LossOnlyAtCapacity
  <2>. QED
    BY <1>2, <2>1, <2>2, PollReadKinds
<1>3. CASE UNCHANGED <<reports, pushed, delivered>>
  BY <1>3 DEF LossOnlyAtCapacity
<1>. QED
  BY <1>1, <1>2, <1>3, StepKinds DEF TakeWakers, PollPark

(* No report is lost but to MaxQueuedReports newer ones, whatever reads are   *)
(* cancelled, woken in vain or failed meanwhile.                              *)
THEOREM LossTheorem == Spec => []LossOnlyAtCapacity
<1>1. Init => LossOnlyAtCapacity
  BY DEF Init, LossOnlyAtCapacity
<1>. QED
  BY <1>1, LossStep, QueueIsNewestTheorem, Types, PTL DEF Spec, Safety

(* Re-polling never registers a task twice. *)
THEOREM OneWakerTheorem == Spec => []OneWakerPerTask
<1>1. Init => OneWakerPerTask
  BY DEF Init, OneWakerPerTask, IsInjective
<1>2. TypeOK /\ OneWakerPerTask /\ [Next]_vars => OneWakerPerTask'
  <2> SUFFICES ASSUME TypeOK, OneWakerPerTask, [Next]_vars PROVE OneWakerPerTask'
    OBVIOUS
  <2>1. CASE wakers' = <<>>
    BY <2>1 DEF OneWakerPerTask, IsInjective
  <2>2. CASE UNCHANGED wakers
    BY <2>2 DEF OneWakerPerTask
  <2>3. ASSUME NEW r \in Readers, wakers' = Register(wakers, r) PROVE OneWakerPerTask'
    BY <2>3, RegisterFacts DEF OneWakerPerTask, TypeOK
  <2>4. ASSUME NEW r \in Readers, PollPark(r) PROVE OneWakerPerTask'
    BY <2>2, <2>3, <2>4 DEF PollPark
  <2>. QED
    BY <2>1, <2>2, <2>4, StepKinds, PollReadKinds DEF Push, TakeWakers, TakeParked
<1>. QED
  BY <1>1, <1>2, Types, PTL DEF Spec, Safety

-----------------------------------------------------------------------------
(* Refinement *)

(* Every step of the queue is a step of the lossy FIFO stream or a stutter:   *)
(* locks, wakers and tokens change nothing a caller of read can observe.      *)
THEOREM ImplementsStreamSafety == Spec => Stream!Safety
<1>1. Init => Stream!Init
  BY DEF Init, Stream!Init
<1>2. TypeOK /\ IInv /\ [Next]_vars => [Stream!Next]_(Stream!vars)
  <2> SUFFICES ASSUME TypeOK, IInv, [Next]_vars
               PROVE  Stream!Next \/ UNCHANGED Stream!vars
    OBVIOUS
  <2> DEFINE waiting == {r \in Readers : pc[r] # "idle"}
  <2>1. ASSUME NEW n \in Notifiers, Push(n) PROVE Stream!Produce
    <3>1. Enqueue(reports, pushed + 1) =
            Append(IF Len(reports) < MaxQueuedReports THEN reports ELSE Tail(reports), pushed + 1)
      BY DEF Enqueue, TypeOK
    <3>. QED
      BY <2>1, <3>1 DEF Push, Stream!Produce, readerVars
  <2>2. ASSUME NEW n \in Notifiers, SetDisconnected(n) PROVE Stream!Unplug
    BY <2>2 DEF SetDisconnected, Stream!Unplug, readerVars
  <2>3. ASSUME NEW n \in Notifiers, SetShutdown(n) PROVE Stream!Stop
    BY <2>3 DEF SetShutdown, Stream!Stop, readerVars
  <2>4. ASSUME NEW n \in Notifiers, WakeParked(n) \/ TakeWakers(n) \/ Wake(n)
        PROVE  UNCHANGED Stream!vars
    BY <2>4 DEF WakeParked, TakeWakers, Wake, queueVars, readerVars, Stream!vars
  <2>5. ASSUME NEW r \in Readers, Read(r) PROVE Stream!Ask(r)
    <3>1. r \notin waiting /\ waiting' = waiting \cup {r}
      BY <2>5 DEF Read, TypeOK
    <3>. QED
      BY <2>5, <3>1 DEF Read, Stream!Ask, queueVars
  <2>6. ASSUME NEW r \in Readers, PollRead(r)
        PROVE  Stream!Answer(r) \/ UNCHANGED Stream!vars
    <3>1. ASSUME NEW how, Return(r, how)
          PROVE  /\ r \in waiting /\ waiting' = waiting \ {r}
                 /\ failure' = [failure EXCEPT ![r] = how]
      BY <2>6, <3>1 DEF PollRead, Return, TypeOK
    <3>2. CASE reports # <<>>
      BY <2>6, <3>1, <3>2 DEF PollRead, GoneAndDrained, Stream!Answer, Stream!Deliver, Stream!Finish
    <3>3. CASE GoneAndDrained
      BY <2>6, <3>1, <3>3 DEF PollRead, GoneAndDrained, Stream!Answer, Stream!FailDisconnected,
         Stream!Finish
    <3>4. CASE reports = <<>> /\ ~disconnected
      <4>1. pc' = [pc EXCEPT ![r] = "empty"] /\ pc[r] = "poll"
        BY <2>6, <3>4 DEF PollRead, GoneAndDrained
      <4>2. waiting' = waiting
        BY <4>1 DEF TypeOK
      <4>. QED
        BY <2>6, <3>4, <4>2 DEF PollRead, GoneAndDrained, Stream!vars
    <3>. QED
      BY <3>2, <3>3, <3>4 DEF GoneAndDrained, TypeOK
  <2>7. ASSUME NEW r \in Readers, PollPark(r)
        PROVE  Stream!FailStopped(r) \/ UNCHANGED Stream!vars
    <3>1. reports = <<>>
      BY <2>7 DEF PollPark, IInv, EmptyInv
    <3>2. CASE shutdown
      <4>1. /\ r \in waiting /\ waiting' = waiting \ {r}
            /\ failure' = [failure EXCEPT ![r] = "stopped"]
        BY <2>7, <3>2 DEF PollPark, Return, TypeOK
      <4>. QED
        BY <2>7, <3>1, <3>2, <4>1 DEF PollPark, Stream!FailStopped, Stream!Finish
    <3>3. CASE ~shutdown
      <4>1. waiting' = waiting
        BY <2>7, <3>3 DEF PollPark, TypeOK
      <4>. QED
        BY <2>7, <3>3, <4>1 DEF PollPark, Stream!vars
    <3>. QED
      BY <3>2, <3>3
  <2>8. ASSUME NEW r \in Readers, Woken(r) \/ SpuriousWake(r) PROVE UNCHANGED Stream!vars
    <3>1. waiting' = waiting
      BY <2>8 DEF Woken, SpuriousWake, TypeOK
    <3>. QED
      BY <2>8, <3>1 DEF Woken, SpuriousWake, queueVars, Stream!vars
  <2>9. ASSUME NEW r \in Readers, Cancel(r) PROVE Stream!Abandon(r)
    <3>1. r \in waiting /\ waiting' = waiting \ {r}
      BY <2>9 DEF Cancel, TypeOK
    <3>. QED
      BY <2>9, <3>1 DEF Cancel, Stream!Abandon, queueVars
  <2>10. CASE UNCHANGED vars
    BY <2>10 DEF vars, Stream!vars
  <2>11. ASSUME NEW r \in Readers, ReadIntoEmptyBuffer(r) PROVE UNCHANGED vars
    BY <2>11 DEF ReadIntoEmptyBuffer
  <2>. QED
    BY <2>1, <2>2, <2>3, <2>4, <2>5, <2>6, <2>7, <2>8, <2>9, <2>10, <2>11
    DEF Next, Notify, Stream!Next, Stream!Answer
<1>. QED
  BY <1>1, <1>2, Types, WakeupInv, PTL DEF Spec, Safety, Stream!Safety
=============================================================================
