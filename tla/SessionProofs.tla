----------------------------- MODULE SessionProofs -----------------------------
(***************************************************************************)
(* Proofs about WebSession, and with it Session and Discovery, for any     *)
(* devices, paths, tasks, buffers and bounds.                              *)
(*                                                                         *)
(* SessionInv ties each task's request to its call: the bytes the system   *)
(* holds are those of the call, the staging buffer among them because the  *)
(* lock is held, and the system has carried what it says it has.  WebInv   *)
(* says of the streams that the current one has every report the device    *)
(* has sent since it began: its last one is the device's last.             *)
(***************************************************************************)
EXTENDS WebSession, DiscoveryProofs, SequenceTheorems

Calls ==
  [op : C!Ops \cup {"none"}, data : Seq(Nat), sent : BOOLEAN, result : Results \cup {None}]

Places == {"idle", "check", "lock", "submit", "wait", "cancel", "reap", "reading"}

\* The places where the system has a request of the task.
Waiting == {"wait", "cancel", "reap"}

SessionTypes ==
  /\ call \in [Callers -> Calls]
  /\ pc \in [Callers -> Places]
  /\ req \in [Callers -> SystemRequests \cup {None}]
  /\ staging \in Seq(Nat) /\ Len(staging) = ReportLen
  /\ holder \in Callers \cup {None}
  /\ opened \in BOOLEAN
  /\ told \in BOOLEAN

\* HandedOver of backend b.
Bytes(b, op, data) ==
  CASE b = "hidraw" -> HidrawBytes(data)
    [] b = "nusb" -> NusbBytes(data)
    [] b = "macos" -> MacBytes(data)
    [] b = "web" -> WebBytes(data)
    [] b = "windows" -> IF op = "write" THEN data ELSE WinFeatureBytes(data)

\* What the system holds is the call's, and it has carried what it says it has.
RequestInv(c) ==
  /\ call[c].sent = (req[c].status = "done")
  /\ req[c].status = "disconnected" => Gone
  /\ req[c].staged = (backend = "windows" /\ call[c].op = "write" /\ Short(call[c].data))
  /\ req[c].staged => staging = Pad(call[c].data)
  /\ (Sends(call[c].op) /\ ~req[c].staged) =>
       req[c].bytes = Bytes(backend, call[c].op, call[c].data)

TaskInv(c) ==
  /\ (call[c].result = None /\ call[c].op # "none") = (pc[c] \notin {"idle", "reading"})
  /\ (req[c] # None) = (pc[c] \in Waiting)
  /\ (holder = c) = (Locks(c) /\ pc[c] \in {"submit"} \cup Waiting)
  /\ pc[c] \in {"check", "lock", "submit"} => ~call[c].sent
  /\ pc[c] \in {"lock", "submit"} \cup Waiting => call[c].data # <<>>
  /\ pc[c] = "lock" => Locks(c)
  /\ pc[c] \in Waiting => RequestInv(c)

SessionInv ==
  /\ SessionTypes
  /\ told => Gone
  /\ handle = None => \A c \in Callers : pc[c] = "idle"
  /\ (handle # None /\ backend # "web") => opened
  /\ wire # None => wire.kind \in {"Output", "Feature"}
  /\ \A c \in Callers : TaskInv(c)

StreamStates == [queue : Seq(Nat), wakers : SUBSET Callers, last : Nat, full : BOOLEAN]

WebTypes ==
  /\ promise \in {"none", "open", "close"}
  /\ promise # "none" => backend = "web"
  /\ streams \in Seq(StreamStates)
  /\ stream # None => stream = Len(streams) /\ stream \in DOMAIN streams
  /\ \A c \in Callers :
       reading[c] # None => reading[c] \in DOMAIN streams /\ pc[c] = "reading"
  /\ reading \in [Callers -> Nat \cup {None}]
  /\ awake \subseteq Callers
  /\ sent \in Nat

\* The latest report of a stream, read or not.
Latest(s) == IF s.queue = <<>> THEN s.last ELSE s.queue[Len(s.queue)]

WebInv ==
  /\ WebTypes
  /\ stream # None => Latest(streams[stream]) = sent
  /\ WebReadsInOrder

Inv == DiscoveryInv /\ SessionInv /\ WebInv

-----------------------------------------------------------------------------
(* Discovery within the session *)

\* What no step changes stays true.
LEMMA DiscoverySame ==
  ASSUME DiscoveryInv, UNCHANGED discovery
  PROVE  DiscoveryInv'
<1>1. /\ backend' = backend /\ at' = at /\ used' = used /\ device_list' = device_list
      /\ job' = job /\ handle' = handle
  BY DEF discovery, world
<1>2. WorldTypes' /\ CallInv' /\ MacInv'
  BY <1>1 DEF DiscoveryInv, WorldTypes, CallInv, MacInv, InProgress
<1>3. FoundInv' /\ MissInv' /\ PickInv'
  BY <1>1 DEF DiscoveryInv, FoundInv, MissInv, PickInv, MayHaveChanged, Found
<1>4. OpenIsHonest'
  BY <1>1 DEF DiscoveryInv, OpenIsHonest
<1> QED
  BY <1>2, <1>3, <1>4 DEF DiscoveryInv

\* The actions of tasks and the system that leave discovery alone.
LEMMA TaskFrames ==
  ASSUME NEW c \in Callers,
         System(c) \/ Check(c) \/ Lock(c) \/ Submit(c) \/ Again(c) \/ Return(c)
           \/ TimeOut(c) \/ CancelIoEx(c) \/ Reap(c)
  PROVE  UNCHANGED <<discovery, opened, told>>
BY DEF System, Carry, Refuse, Cancelled, Check, Lock, Submit, Again, Return, TimeOut,
       CancelIoEx, Reap

\* What the browser's own steps leave alone.
LEMMA WebFrames ==
  ASSUME OpenDevice \/ CloseDevice \/ Settle \/ InputReport
         \/ \E c \in Callers : Read(c) \/ Poll(c) \/ DropRead(c)
  PROVE  UNCHANGED <<discovery, call, req, staging, holder, told, wire>>
BY DEF OpenDevice, CloseDevice, Settle, InputReport, Read, Poll, DropRead, transfers

\* DiscoveryInv is kept by every step of a session.
LEMMA SessionKeepsDiscovery ==
  DiscoveryInv /\ [WebNext]_<<vars, web>> => DiscoveryInv'
<1> SUFFICES ASSUME DiscoveryInv, [WebNext]_<<vars, web>> PROVE DiscoveryInv'
  OBVIOUS
<1>1. CASE Discover
  BY <1>1, DiscoveryKnows DEF Discover
<1>2. CASE Told
  BY <1>2, DiscoverySame DEF Told
<1>3. ASSUME NEW c \in Callers, Begin(c) PROVE DiscoveryInv'
  BY <1>3, ForgetKnows DEF Begin
<1>4. ASSUME NEW c \in Callers, System(c) \/ Task(c) PROVE DiscoveryInv'
  BY <1>3, <1>4, TaskFrames, DiscoverySame DEF Task
<1>5. CASE OpenDevice \/ CloseDevice \/ Settle \/ InputReport
           \/ \E c \in Callers : Read(c) \/ Poll(c) \/ DropRead(c)
  BY <1>5, WebFrames, DiscoverySame
<1>6. CASE UNCHANGED <<vars, web>>
  BY <1>6, DiscoverySame DEF vars
<1> QED
  BY <1>1, <1>2, <1>4, <1>5, <1>6 DEF WebNext, Next

\* DiscoveryInv holds throughout a session.
LEMMA DiscoveryAlways ==
  WebSpec => []DiscoveryInv
<1>1. WebInit => DiscoveryInv
  BY InitKnows DEF WebInit, Init
<1> QED
  BY <1>1, SessionKeepsDiscovery, PTL DEF WebSpec

\* `open` gives no other device than was asked for, does not deny one that was
\* there throughout, and describes the device that it gives, whatever devices come
\* and go while it enumerates, picks a path, lists again on nusb, and opens; where
\* devices changed hands at the path, OpenIsHonest says what may be untrue on which
\* backend: HidBackend::open of src/backend/mod.rs and the open_path of each.
THEOREM OpenAlwaysHonest ==
  WebSpec => []OpenIsHonest
<1>1. DiscoveryInv => OpenIsHonest
  BY DEF DiscoveryInv
<1> QED
  BY <1>1, DiscoveryAlways, PTL

\* A handle, once there, keeps its mode, and a device that has gone does not come
\* back under it.
LEMMA HandleStays ==
  ASSUME DiscoveryInv, DiscoveryNext
  PROVE  /\ backend' = backend
         /\ handle # None => /\ handle' # None /\ handle'.mode = handle.mode
                             /\ handle.lost => handle'.lost
<1>0. /\ InProgress => handle = None
      /\ handle # None => handle \in Handles
  BY DEF DiscoveryInv, CallInv, WorldTypes
<1>1. ASSUME NEW p \in Paths, NEW d \in Devices, Plug(p, d)
      PROVE  backend' = backend /\ handle' = handle
  BY <1>1 DEF Plug
<1>2. ASSUME NEW p \in Paths, Unplug(p)
      PROVE  /\ backend' = backend
             /\ handle # None => handle' = [handle EXCEPT !.lost = TRUE]
  BY <1>2 DEF Unplug
<1>3. \A h \in Handles :
        /\ [h EXCEPT !.lost = TRUE] \in Handles
        /\ [h EXCEPT !.lost = TRUE].mode = h.mode /\ [h EXCEPT !.lost = TRUE].lost
  BY DEF Handles
<1>4. None \notin Handles
  BY DiscoveryAssumption DEF DiscoveryAssumption
<1>5. ASSUME NEW p \in Paths, OpenPath(p) \/ Grant(p)
      PROVE  backend' = backend /\ (handle # None => handle' = handle)
  BY <1>5 DEF OpenPath, Grant
<1>6. CASE Refresh \/ \E ask \in Requests : Open(ask)
  BY <1>6 DEF Refresh, Open, BeginScan
<1>7. CASE ListFails \/ Visit \/ EndRefresh \/ Find \/ ListNode \/ OpenNode
  BY <1>7 DEF ListFails, Visit, EndRefresh, Find, ListNode, OpenNode
<1>8. CASE Describe
  BY <1>0, <1>8 DEF Describe, InProgress
<1> QED
  BY <1>0, <1>1, <1>2, <1>3, <1>4, <1>5, <1>6, <1>7, <1>8 DEF DiscoveryNext

-----------------------------------------------------------------------------
(* Buffers *)

\* k zeros are a sequence of length k.
LEMMA ZeroFacts ==
  ASSUME NEW k \in Nat
  PROVE  C!Zeros(k) \in Seq(Nat) /\ Len(C!Zeros(k)) = k
BY DEF C!Zeros

\* A short report is padded to the length of the device's.
LEMMA PadFacts ==
  ASSUME NEW data \in Seq(Nat), Short(data)
  PROVE  Pad(data) \in Seq(Nat) /\ Len(Pad(data)) = ReportLen
<1>1. ReportLen \in Nat
  BY SessionAssumption DEF SessionAssumption
<1>2. ReportLen - Len(data) \in Nat
  BY <1>1 DEF Short
<1>3. /\ C!Zeros(ReportLen - Len(data)) \in Seq(Nat)
      /\ Len(C!Zeros(ReportLen - Len(data))) = ReportLen - Len(data)
  BY <1>2, ZeroFacts
<1> QED
  BY <1>1, <1>3 DEF Pad

\* What a backend hands over is a sequence of bytes.
LEMMA BytesTyped ==
  ASSUME NEW b \in {"hidraw", "nusb", "macos", "windows", "web"}, NEW op,
         NEW data \in Seq(Nat), data # <<>>
  PROVE  Bytes(b, op, data) \in Seq(Nat)
<1>1. Tail(data) \in Seq(Nat) /\ PayloadAfterReportId(data) \in Seq(Nat)
  BY DEF PayloadAfterReportId
<1>2. WinFeatureBytes(data) \in Seq(Nat)
  BY PadFacts DEF WinFeatureBytes
<1> QED
  BY <1>1, <1>2 DEF Bytes, HidrawBytes, NusbBytes, MacBytes, WebBytes

\* HandedOver is Bytes of the session's backend.
LEMMA HandedBytes ==
  ASSUME NEW op, NEW data
  PROVE  HandedOver(op, data) = Bytes(backend, op, data)
BY DEF HandedOver, Bytes

\* What a getting call owes its caller: the report ID, then the report, as far as
\* both reach.
Full(data, body) == <<data[1]>> \o body

Faithful(result, data, body) ==
  /\ result \in Results /\ result.tag = "ok"
  /\ Len(result.buf) = Len(data) /\ result.n <= Len(data)
  /\ result.n >= Len(Full(data, body)) \/ result.n = Len(data)
  /\ \A i \in 1..result.n :
       i <= Len(Full(data, body)) => result.buf[i] = Full(data, body)[i]

\* The ID and the body, as a sequence.
LEMMA FullFacts ==
  ASSUME NEW data \in Seq(Nat), data # <<>>, NEW body \in Seq(Nat)
  PROVE  /\ Full(data, body) \in Seq(Nat) /\ Len(Full(data, body)) = Len(body) + 1
         /\ Full(data, body)[1] = data[1] /\ data[1] \in Nat
         /\ \A i \in 2..(Len(body) + 1) : Full(data, body)[i] = body[i - 1]
         /\ Tail(Full(data, body)) = body
         /\ <<data[1]>> \o body = Full(data, body)
<1> DEFINE id == <<data[1]>>
           full == id \o body
<1>1. full = Full(data, body)
  BY DEF Full
<1>2. data[1] \in Nat
  OBVIOUS
<1>3. id \in Seq(Nat) /\ Len(id) = 1 /\ id[1] = data[1]
  BY <1>2
<1>4. Len(body) \in Nat
  OBVIOUS
<1> HIDE DEF id
<1>5. /\ full \in Seq(Nat) /\ Len(full) = Len(id) + Len(body)
      /\ \A i \in 1..(Len(id) + Len(body)) :
           full[i] = IF i <= Len(id) THEN id[i] ELSE body[i - Len(id)]
  BY <1>3, ConcatProperties
<1> HIDE DEF full
<1>6. Len(full) = Len(body) + 1 /\ full[1] = data[1] /\ full # <<>>
  BY <1>3, <1>4, <1>5
<1>7. ASSUME NEW i \in 2..(Len(body) + 1) PROVE full[i] = body[i - 1]
  <2>1. i \in 1..(Len(id) + Len(body)) /\ ~(i <= Len(id)) /\ i - Len(id) = i - 1
    BY <1>3, <1>4
  <2> QED
    BY <1>5, <2>1
<1>8. Tail(full) = body
  <2>1. /\ Tail(full) \in Seq(Nat) /\ Len(Tail(full)) = Len(full) - 1
        /\ \A i \in 1..Len(Tail(full)) : Tail(full)[i] = full[i + 1]
    BY <1>5, <1>6, HeadTailProperties
  <2>2. \A i \in 1..Len(body) : i + 1 \in 2..(Len(body) + 1) /\ (i + 1) - 1 = i
    BY <1>4
  <2>3. Len(Tail(full)) = Len(body)
    BY <1>4, <1>6, <2>1
  <2>4. \A i \in 1..Len(body) : Tail(full)[i] = body[i]
    BY <1>7, <2>1, <2>2, <2>3
  <2> QED
    BY <2>1, <2>3, <2>4, SeqEqual
<1> QED
  BY <1>1, <1>2, <1>5, <1>6, <1>7, <1>8 DEF id, full

\* Buffers as functions.
LEMMA BufferFacts ==
  ASSUME NEW b \in Seq(Nat)
  PROVE  b \in [1..Len(b) -> Nat] /\ Len(b) \in Nat
OBVIOUS

\* Functions as buffers.
LEMMA FunctionFacts ==
  ASSUME NEW L \in Nat, NEW b \in [1..L -> Nat]
  PROVE  b \in Seq(Nat) /\ Len(b) = L
OBVIOUS

\* Filled keeps the length and puts the first n bytes in place.
LEMMA FilledBytes ==
  ASSUME NEW data \in Seq(Nat), NEW report \in Seq(Nat), NEW n \in Nat, n <= Len(data)
  PROVE  /\ Filled(data, report, n) \in [1..Len(data) -> Nat]
         /\ \A i \in 1..n : i <= Len(report) => Filled(data, report, n)[i] = report[i]
BY DEF Filled

\* A buffer filled as far as both reach is what the caller was promised.
LEMMA FilledFacts ==
  ASSUME NEW data \in Seq(Nat), data # <<>>, NEW body \in Seq(Nat), NEW n \in Nat,
         n <= Len(data), n >= Len(Full(data, body)) \/ n = Len(data)
  PROVE  Faithful(Result("ok", n, Filled(data, Full(data, body), n)), data, body)
<1> DEFINE full == Full(data, body)
           buf == Filled(data, full, n)
<1>1. full \in Seq(Nat)
  BY FullFacts
<1> HIDE DEF full
<1>2. /\ data \in [1..Len(data) -> Nat] /\ Len(data) \in Nat
      /\ full \in [1..Len(full) -> Nat] /\ Len(full) \in Nat
  BY <1>1, BufferFacts
<1>3. /\ buf \in [1..Len(data) -> Nat]
      /\ \A i \in 1..n : i <= Len(full) => buf[i] = full[i]
  BY <1>1, FilledBytes
<1> HIDE DEF buf
<1>4. buf \in Seq(Nat) /\ Len(buf) = Len(data)
  BY <1>2, <1>3, FunctionFacts
<1>5. Result("ok", n, buf) \in Results
      /\ Result("ok", n, buf).tag = "ok" /\ Result("ok", n, buf).n = n
      /\ Result("ok", n, buf).buf = buf
  BY <1>4 DEF Result, Results
<1> QED
  BY <1>3, <1>4, <1>5 DEF Faithful, full, buf

IsBuffer(b, L) == L \in Nat /\ b \in [1..L -> Nat] /\ Len(b) = L

\* ReadAt puts the answer at the offset, as far as there is room.
HasRead(result, offset, data, L, answer, M) ==
  /\ result.tag = "ok" /\ result = Result("ok", result.n, result.buf)
  /\ result.n \in Nat /\ result.n <= L
  /\ result.n = M + offset \/ (result.n = L /\ L <= M + offset)
  /\ result.buf \in [1..L -> Nat]
  /\ \A i \in 1..result.n :
       result.buf[i] = IF offset < i THEN answer[i - offset] ELSE data[i]

\* ReadAt does what HasRead says.
LEMMA ReadBytes ==
  ASSUME NEW L, NEW M, NEW data, IsBuffer(data, L), NEW answer, IsBuffer(answer, M),
         NEW offset \in {0, 1}, offset <= L
  PROVE  HasRead(ReadAt(offset, data, answer), offset, data, L, answer, M)
<1>0. /\ L \in Nat /\ M \in Nat /\ Len(data) = L /\ Len(answer) = M
      /\ data \in [1..L -> Nat] /\ answer \in [1..M -> Nat]
  BY DEF IsBuffer
<1> DEFINE len == Least(M, L - offset)
           buf == [i \in 1..L |->
                     IF offset < i /\ i <= len + offset THEN answer[i - offset] ELSE data[i]]
<1>1. /\ len \in Nat /\ len <= M /\ len + offset <= L
      /\ len = M \/ (len + offset = L /\ L <= M + offset)
  BY <1>0 DEF Least
<1>2. ReadAt(offset, data, answer) = Result("ok", len + offset, buf)
  BY <1>0 DEF ReadAt
<1> HIDE DEF len
<1>3. ASSUME NEW i \in 1..L
      PROVE  (IF offset < i /\ i <= len + offset THEN answer[i - offset] ELSE data[i]) \in Nat
  <2>1. CASE offset < i /\ i <= len + offset
    BY <1>0, <1>1, <2>1
  <2>2. CASE ~(offset < i /\ i <= len + offset)
    BY <1>0, <2>2
  <2> QED
    BY <2>1, <2>2
<1>4. buf \in [1..L -> Nat]
  BY <1>3
<1>5. \A i \in 1..(len + offset) :
        buf[i] = IF offset < i THEN answer[i - offset] ELSE data[i]
  BY <1>0, <1>1
<1> HIDE DEF buf
<1> QED
  BY <1>0, <1>1, <1>2, <1>4, <1>5 DEF HasRead, Result

\* Read at offset 1 without its 0, or at offset 0 with its ID, a report is in place.
LEMMA ReadAtFacts ==
  ASSUME NEW data \in Seq(Nat), data # <<>>, NEW body \in Seq(Nat)
  PROVE  Faithful(ReadAt(Offset(data), data, PayloadAfterReportId(Full(data, body))),
                  data, body)
<1> DEFINE full == Full(data, body)
           offset == Offset(data)
           answer == PayloadAfterReportId(full)
           result == ReadAt(offset, data, answer)
<1>1. /\ full \in Seq(Nat) /\ Len(full) = Len(body) + 1 /\ full[1] = data[1]
      /\ \A i \in 2..(Len(body) + 1) : full[i] = body[i - 1]
      /\ Tail(full) = body
  BY FullFacts
<1> HIDE DEF full
<1>2. /\ data \in [1..Len(data) -> Nat] /\ Len(data) \in Nat /\ Len(data) >= 1
      /\ body \in [1..Len(body) -> Nat] /\ Len(body) \in Nat
      /\ full \in [1..Len(full) -> Nat] /\ Len(full) \in Nat
  BY <1>1, BufferFacts
<1>3. \/ offset = 1 /\ answer = body
      \/ offset = 0 /\ answer = full
  BY <1>1 DEF Offset, PayloadAfterReportId
<1> HIDE DEF offset, answer
<1>4. answer \in [1..Len(answer) -> Nat] /\ Len(answer) \in Nat /\ offset \in {0, 1}
      /\ offset <= Len(data)
  BY <1>2, <1>3
<1>5. /\ result.tag = "ok" /\ result = Result("ok", result.n, result.buf)
      /\ result.n \in Nat /\ result.n <= Len(data)
      /\ result.n = Len(answer) + offset
         \/ (result.n = Len(data) /\ Len(data) <= Len(answer) + offset)
      /\ result.buf \in [1..Len(data) -> Nat]
      /\ \A i \in 1..result.n :
           result.buf[i] = IF offset < i THEN answer[i - offset] ELSE data[i]
  <2>1. IsBuffer(data, Len(data)) /\ IsBuffer(answer, Len(answer))
    BY <1>2, <1>4 DEF IsBuffer
  <2>2. HasRead(result, offset, data, Len(data), answer, Len(answer))
    BY <1>4, <2>1, ReadBytes
  <2> HIDE DEF result
  <2> QED
    BY <2>2 DEF HasRead
<1> HIDE DEF result
<1>6. Len(full) = Len(answer) + offset
  BY <1>1, <1>2, <1>3
<1>7. ASSUME NEW i \in 1..result.n, i <= Len(full) PROVE result.buf[i] = full[i]
  <2>1. CASE offset = 0 /\ answer = full
    BY <1>5, <1>7, <2>1
  <2>2. CASE offset = 1 /\ answer = body /\ i = 1
    BY <1>1, <1>5, <1>7, <2>2
  <2>3. CASE offset = 1 /\ answer = body /\ i > 1
    <3>1. i \in 2..(Len(body) + 1)
      BY <1>1, <1>2, <1>5, <1>7, <2>3
    <3>2. full[i] = body[i - 1]
      BY <1>1, <3>1
    <3> QED
      BY <1>5, <2>3, <3>2
  <2> QED
    BY <1>3, <1>5, <2>1, <2>2, <2>3
<1>8. result.buf \in Seq(Nat) /\ Len(result.buf) = Len(data)
  BY <1>2, <1>5, FunctionFacts
<1>9. result \in Results
  BY <1>5, <1>8 DEF Result, Results
<1> QED
  BY <1>2, <1>4, <1>5, <1>6, <1>7, <1>8, <1>9 DEF Faithful, full, offset, answer, result

\* The shorter of a report and a buffer.
LEMMA LeastFacts ==
  ASSUME NEW a \in Nat, NEW b \in Nat
  PROVE  Least(a, b) \in Nat /\ Least(a, b) <= b /\ Least(a, b) <= a
         /\ (Least(a, b) = a \/ Least(a, b) = b)
BY DEF Least

\* Each backend's way to fill the caller's buffer keeps hidapi's convention.
LEMMA HidrawFaithful ==
  ASSUME NEW data \in Seq(Nat), data # <<>>, NEW body \in Seq(Nat)
  PROVE  Faithful(HidrawGot(data, body), data, body)
<1> DEFINE n == Least(Len(Full(data, body)), Len(data))
<1>1. Len(Full(data, body)) \in Nat /\ Len(data) \in Nat
  BY FullFacts
<1>2. n \in Nat /\ n <= Len(data) /\ (n >= Len(Full(data, body)) \/ n = Len(data))
  BY <1>1, LeastFacts
<1>3. HidrawGot(data, body) = Result("ok", n, Filled(data, Full(data, body), n))
  BY DEF HidrawGot, Full
<1> HIDE DEF n
<1> QED
  BY <1>2, <1>3, FilledFacts

\* get_report of nusb and macOS keeps the convention.
LEMMA NusbMacFaithful ==
  ASSUME NEW data \in Seq(Nat), data # <<>>, NEW body \in Seq(Nat)
  PROVE  /\ Faithful(NusbGot(data, body), data, body)
         /\ Faithful(MacGot(data, body), data, body)
BY ReadAtFacts DEF NusbGot, MacGot, Full

\* Windows' count of what it read, put right, is what was read.
LEMMA ReportLenFacts ==
  ASSUME NEW firstByte, NEW least \in Nat, NEW len \in Nat, least <= len
  PROVE  GetReportLen(firstByte, least - (IF firstByte = 0 THEN 1 ELSE 0), len) = least
BY DEF GetReportLen, Least

\* Both ways of Windows to get a report keep the convention.
LEMMA WinFaithful ==
  ASSUME NEW data \in Seq(Nat), data # <<>>, NEW body \in Seq(Nat)
  PROVE  /\ Faithful(WinGot(data, body), data, body)
         /\ Faithful(WinFallbackGot(data, body), data, body)
<1> DEFINE full == Full(data, body)
           least == Least(Len(full), Len(data))
           n == GetReportLen(data[1], least - Offset(data), Len(data))
<1>1. Len(full) \in Nat /\ Len(data) \in Nat
  BY FullFacts
<1>2. least \in Nat /\ least <= Len(data) /\ (least >= Len(full) \/ least = Len(data))
  BY <1>1, LeastFacts
<1>3. /\ WinGot(data, body) = Result("ok", n, Filled(data, full, n))
      /\ WinFallbackGot(data, body) = Result("ok", Len(data), Filled(data, full, Len(data)))
  BY DEF WinGot, WinFallbackGot, Full
<1> HIDE DEF least, full
<1>4. n = least
  BY <1>1, <1>2, ReportLenFacts DEF Offset
<1>5. Faithful(Result("ok", least, Filled(data, full, least)), data, body)
  BY <1>1, <1>2, FilledFacts DEF full
<1>6. Faithful(Result("ok", Len(data), Filled(data, full, Len(data))), data, body)
  BY <1>1, FilledFacts DEF full
<1> QED
  BY <1>3, <1>4, <1>5, <1>6

\* The browser's report with its 0 put back keeps the convention.
LEMMA WebFaithful ==
  ASSUME NEW data \in Seq(Nat), data # <<>>, NEW body \in Seq(Nat)
  PROVE  Faithful(WebGot(data, body), data, body)
<1> DEFINE n == Least(Len(Full(data, body)), Len(data))
<1>0. Tail(Full(data, body)) = body /\ Full(data, body)[1] = data[1]
  BY FullFacts
<1>1. Len(Full(data, body)) \in Nat /\ Len(data) \in Nat
  BY FullFacts
<1>2. n \in Nat /\ n <= Len(data) /\ (n >= Len(Full(data, body)) \/ n = Len(data))
  BY <1>1, LeastFacts
<1>3. WebReport(data[1], body) = Full(data, body)
  <2>1. CASE data[1] = 0
    BY <1>0, <2>1 DEF WebReport, PayloadAfterReportId, Full
  <2>2. CASE data[1] # 0
    BY <1>0, <2>2 DEF WebReport, PayloadAfterReportId, Full
  <2> QED
    BY <2>1, <2>2
<1>4. WebGot(data, body) = Result("ok", n, Filled(data, Full(data, body), n))
  BY <1>3 DEF WebGot
<1> HIDE DEF n
<1> QED
  BY <1>2, <1>4, FilledFacts

-----------------------------------------------------------------------------
(* What a task and the system know of a call *)

\* A task that does nothing keeps what it knows, as long as nobody takes its
\* lock or the buffer it has staged.
LEMMA OthersKnow ==
  ASSUME SessionInv, NEW d \in Callers, backend' = backend,
         call'[d] = call[d], pc'[d] = pc[d], req'[d] = req[d],
         (holder' = d) = (holder = d),
         handle # None => handle'.mode = handle.mode,
         Gone => Gone',
         (pc[d] \in Waiting /\ req[d].staged) => staging' = staging
  PROVE  TaskInv(d)'
<1>1. TaskInv(d) /\ (handle = None => pc[d] = "idle")
  BY DEF SessionInv
<1>2. CASE handle = None
  BY <1>1, <1>2 DEF TaskInv, Waiting
<1>3. CASE handle # None
  <2>1. Locks(d)' = Locks(d)
    BY <1>3 DEF Locks
  <2>2. pc[d] \in Waiting => RequestInv(d)'
    BY <1>1 DEF TaskInv, RequestInv
  <2> QED
    BY <1>1, <2>1, <2>2 DEF TaskInv
<1> QED
  BY <1>2, <1>3

\* Before the first call nothing is under way.
LEMMA InitSession ==
  Init => SessionInv
<1> SUFFICES ASSUME Init PROVE SessionInv
  OBVIOUS
<1> USE DEF Init, TransfersInit, DiscoveryInit
<1>1. C!NoCall \in Calls /\ C!NoCall.op = "none" /\ C!NoCall.sent = FALSE
  BY DEF C!NoCall, Calls
<1>2. staging \in Seq(Nat) /\ Len(staging) = ReportLen
  BY ZeroFacts, SessionAssumption DEF SessionAssumption
<1>3. SessionTypes
  BY <1>1, <1>2 DEF SessionTypes, Places
<1>4. ASSUME NEW c \in Callers PROVE TaskInv(c)
  BY <1>1, SessionAssumption DEF TaskInv, Waiting, SessionAssumption
<1> QED
  BY <1>3, <1>4 DEF SessionInv

\* Discovery does not touch a call, and a handle that is made is open.
LEMMA DiscoverKnows ==
  ASSUME DiscoveryInv, SessionInv, Discover
  PROVE  SessionInv'
<1>1. /\ UNCHANGED <<call, pc, req, staging, holder, told, wire>>
      /\ DiscoveryNext
      /\ opened' \in {opened, TRUE, FALSE}
      /\ (opened' = opened) \/ (handle = None /\ handle' # None)
      /\ (handle = None /\ handle' # None /\ backend # "web") => opened' = TRUE
  BY DEF Discover
<1>2. /\ backend' = backend
      /\ handle # None => /\ handle' # None /\ handle'.mode = handle.mode
                          /\ handle.lost => handle'.lost
  BY <1>1, HandleStays
<1>3. SessionTypes'
  BY <1>1 DEF SessionInv, SessionTypes
<1>4. Gone => Gone'
  BY <1>2 DEF Gone
<1>5. ASSUME NEW c \in Callers PROVE TaskInv(c)'
  BY <1>1, <1>2, <1>4, OthersKnow
<1>6. told' => Gone'
  BY <1>1, <1>4 DEF SessionInv
<1>7. handle' = None => \A c \in Callers : pc'[c] = "idle"
  BY <1>1, <1>2 DEF SessionInv
<1>8. (handle' # None /\ backend' # "web") => opened'
  BY <1>1, <1>2 DEF SessionInv
<1>9. wire' # None => wire'.kind \in {"Output", "Feature"}
  BY <1>1 DEF SessionInv
<1> QED
  BY <1>3, <1>5, <1>6, <1>7, <1>8, <1>9 DEF SessionInv

\* The removal callback runs for a device that is gone.
LEMMA ToldKnows ==
  ASSUME SessionInv, Told
  PROVE  SessionInv'
<1>1. /\ UNCHANGED <<discovery, opened, call, pc, req, staging, holder, wire>>
      /\ Gone /\ told' = TRUE
  BY DEF Told
<1>2. backend' = backend /\ handle' = handle
  BY <1>1 DEF discovery, world
<1>3. Gone' = Gone
  BY <1>2 DEF Gone
<1>4. SessionTypes'
  BY <1>1 DEF SessionInv, SessionTypes
<1>5. ASSUME NEW c \in Callers PROVE TaskInv(c)'
  BY <1>1, <1>2, <1>3, OthersKnow
<1> QED
  BY <1>1, <1>2, <1>3, <1>4, <1>5 DEF SessionInv

\* A step of task c, or of the system for it, that leaves the device where it is:
\* it is enough to look at c.
LEMMA TaskKnows ==
  ASSUME SessionInv, NEW c \in Callers, handle # None,
         backend' = backend, handle' = handle, opened' = opened, told' = told,
         SessionTypes', TaskInv(c)',
         wire' = wire \/ wire'.kind \in {"Output", "Feature"},
         \A d \in Callers \ {c} :
           /\ call'[d] = call[d] /\ pc'[d] = pc[d] /\ req'[d] = req[d]
           /\ (holder' = d) = (holder = d),
         staging' = staging \/ holder = c
  PROVE  SessionInv'
<1>1. Gone' = Gone
  BY DEF Gone
<1>2. ASSUME NEW d \in Callers \ {c} PROVE TaskInv(d)'
  <2>1. (pc[d] \in Waiting /\ req[d].staged) => holder = d
    BY DEF SessionInv, TaskInv, RequestInv, Locks
  <2>2. (pc[d] \in Waiting /\ req[d].staged) => staging' = staging
    BY <2>1
  <2> QED
    BY <1>1, <2>2, OthersKnow
<1>3. \A d \in Callers : TaskInv(d)'
  BY <1>2
<1> QED
  BY <1>1, <1>3 DEF SessionInv

\* Where a task may be says that there is a device; what it calls with is typed.
LEMMA TaskFacts ==
  ASSUME DiscoveryInv, SessionInv, NEW c \in Callers, pc[c] # "idle" \/ req[c] # None
  PROVE  /\ handle # None /\ pc[c] \in Places /\ TaskInv(c)
         /\ backend \in {"hidraw", "nusb", "macos", "windows", "web"}
         /\ call[c] \in Calls /\ call[c].data \in Seq(Nat)
         /\ pc[c] \in Waiting => req[c] \in SystemRequests /\ req[c] # None
<1>1. TaskInv(c) /\ SessionTypes /\ (handle = None => pc[c] = "idle")
  BY DEF SessionInv
<1>2. handle # None
  BY <1>1 DEF TaskInv, Waiting
<1>3. backend \in {"hidraw", "nusb", "macos", "windows", "web"}
  BY DiscoveryAssumption DEF DiscoveryInv, WorldTypes, DiscoveryAssumption
<1>4. call[c] \in Calls /\ pc[c] \in Places
  BY <1>1 DEF SessionTypes
<1>5. call[c].data \in Seq(Nat)
  BY <1>4 DEF Calls
<1>6. pc[c] \in Waiting => req[c] \in SystemRequests /\ req[c] # None
  BY <1>1 DEF SessionTypes, TaskInv
<1> QED
  BY <1>1, <1>2, <1>3, <1>4, <1>5, <1>6

\* A getting call gives its caller the report that it asked for.
LEMMA GotFaithful ==
  ASSUME DiscoveryInv, SessionInv, NEW c \in Callers, pc[c] \in Waiting,
         call[c].op \in {"get_feature", "get_input"}
  PROVE  Faithful(Got(c), call[c].data, Answer[C!Kind(call[c].op)])
<1> DEFINE data == call[c].data
           body == Answer[C!Kind(call[c].op)]
<1>1. /\ backend \in {"hidraw", "nusb", "macos", "windows", "web"}
      /\ data \in Seq(Nat) /\ data # <<>>
  BY TaskFacts DEF TaskInv, Waiting
<1>2. C!Kind(call[c].op) \in {"Feature", "Input"}
  BY DEF C!Kind
<1>3. body \in Seq(Nat)
  BY <1>2, SessionAssumption DEF SessionAssumption
<1>4. Got(c) \in {HidrawGot(data, body), NusbGot(data, body), MacGot(data, body),
                  WinGot(data, body), WinFallbackGot(data, body), WebGot(data, body)}
  BY <1>1 DEF Got
<1> HIDE DEF data, body
<1>5. /\ Faithful(HidrawGot(data, body), data, body)
      /\ Faithful(NusbGot(data, body), data, body)
      /\ Faithful(MacGot(data, body), data, body)
      /\ Faithful(WinGot(data, body), data, body)
      /\ Faithful(WinFallbackGot(data, body), data, body)
      /\ Faithful(WebGot(data, body), data, body)
  BY <1>1, <1>3, HidrawFaithful, NusbMacFaithful, WinFaithful, WebFaithful
<1>6. Faithful(Got(c), data, body)
  BY <1>4, <1>5
<1> QED
  BY <1>6 DEF data, body

-----------------------------------------------------------------------------
(* The steps of a call *)

\* A call begins with nothing sent.
LEMMA BeginKnows ==
  ASSUME DiscoveryInv, SessionInv, NEW c \in Callers, Begin(c)
  PROVE  SessionInv'
<1>1. /\ handle # None /\ pc[c] = "idle" /\ pc' = [pc EXCEPT ![c] = "check"]
      /\ UNCHANGED <<backend, handle, opened, req, staging, holder, told, wire>>
  BY DEF Begin
<1>2. SessionTypes /\ TaskInv(c)
  BY DEF SessionInv
<1>3. PICK op \in C!Ops, data \in Seq(Nat) :
        call' = [call EXCEPT ![c] = [op |-> op, data |-> data, sent |-> FALSE, result |-> None]]
  <2>1. \A b \in Bodies, id \in {0, 1} : <<id>> \o b \in Seq(Nat)
    BY SessionAssumption DEF SessionAssumption
  <2>2. /\ <<>> \in Seq(Nat)
        /\ \A b \in Bodies : <<IF handle.device.numbered THEN 1 ELSE 0>> \o b \in Seq(Nat)
    BY <2>1
  <2>3. OpsOf \subseteq C!Ops
    BY DEF OpsOf
  <2> QED
    BY <2>2, <2>3 DEF Begin
<1> DEFINE new == [op |-> op, data |-> data, sent |-> FALSE, result |-> None]
<1>4. new \in Calls /\ new.op = op /\ new.op # "none" /\ new.data = data /\ ~new.sent
      /\ new.result = None
  BY <1>3 DEF Calls, C!Ops
<1> HIDE DEF new
<1>5. /\ call' \in [Callers -> Calls] /\ call'[c] = new
      /\ pc' \in [Callers -> Places] /\ pc'[c] = "check"
      /\ \A d \in Callers \ {c} : call'[d] = call[d] /\ pc'[d] = pc[d]
  BY <1>1, <1>2, <1>3, <1>4 DEF SessionTypes, Places, new
<1>6. SessionTypes'
  BY <1>1, <1>2, <1>5 DEF SessionTypes
<1>7. TaskInv(c)'
  BY <1>1, <1>2, <1>4, <1>5 DEF TaskInv, Waiting
<1> QED
  BY <1>1, <1>5, <1>6, <1>7, TaskKnows

\* The world as a step of a task finds it and leaves it.
LEMMA TaskWorld ==
  ASSUME UNCHANGED <<discovery, opened, told>>
  PROVE  backend' = backend /\ handle' = handle /\ opened' = opened /\ told' = told
BY DEF discovery, world

\* A call that ends has a result, and its task is idle.
LEMMA EndsFacts ==
  ASSUME SessionTypes, NEW c \in Callers, NEW result \in Results, Ends(c, result)
  PROVE  /\ call' \in [Callers -> Calls] /\ pc' \in [Callers -> Places]
         /\ call'[c].result = result /\ call'[c].result # None
         /\ call'[c].op = call[c].op /\ call'[c].data = call[c].data
         /\ call'[c].sent = call[c].sent
         /\ pc'[c] = "idle"
         /\ \A d \in Callers \ {c} : call'[d] = call[d] /\ pc'[d] = pc[d]
<1>1. call[c] \in Calls /\ result # None
  BY SessionAssumption DEF SessionTypes, SessionAssumption
<1> DEFINE new == [call[c] EXCEPT !.result = result]
<1>2. /\ new \in Calls /\ new.result = result /\ new.op = call[c].op
      /\ new.data = call[c].data /\ new.sent = call[c].sent
  BY <1>1 DEF Calls
<1>3. call' = [call EXCEPT ![c] = new] /\ pc' = [pc EXCEPT ![c] = "idle"]
  BY DEF Ends
<1> HIDE DEF new
<1>4. /\ call' \in [Callers -> Calls] /\ call'[c] = new
      /\ pc' \in [Callers -> Places] /\ pc'[c] = "idle"
      /\ \A d \in Callers \ {c} : call'[d] = call[d] /\ pc'[d] = pc[d]
  BY <1>2, <1>3 DEF SessionTypes, Places
<1> QED
  BY <1>1, <1>2, <1>4

\* Errors are results.
LEMMA ErrorTyped ==
  ASSUME NEW tag \in {"invalid", "disconnected", "error"}
  PROVE  /\ Error(tag) \in Results
         /\ Error(tag) = [tag |-> tag, n |-> 0, buf |-> <<>>]
BY DEF Error, Result, Results

\* A refused call ends; another goes on, with a buffer that has an ID.
LEMMA CheckKnows ==
  ASSUME DiscoveryInv, SessionInv, NEW c \in Callers, Check(c)
  PROVE  SessionInv'
<1>1. /\ pc[c] = "check" /\ UNCHANGED <<req, staging, holder, wire>>
      /\ backend' = backend /\ handle' = handle /\ opened' = opened /\ told' = told
  BY TaskFrames, TaskWorld DEF Check
<1>2. SessionTypes /\ TaskInv(c) /\ handle # None
  BY <1>1, TaskFacts DEF SessionInv
<1>3. ASSUME NEW tag \in {"invalid", "disconnected"}, Ends(c, Error(tag)) PROVE SessionInv'
  <2>1. /\ call' \in [Callers -> Calls] /\ pc' \in [Callers -> Places]
        /\ call'[c].result # None /\ pc'[c] = "idle"
        /\ call'[c].op = call[c].op
        /\ \A d \in Callers \ {c} : call'[d] = call[d] /\ pc'[d] = pc[d]
    BY <1>2, <1>3, ErrorTyped, EndsFacts
  <2>2. SessionTypes'
    BY <1>1, <1>2, <2>1 DEF SessionTypes
  <2>3. TaskInv(c)'
    BY <1>1, <1>2, <2>1 DEF TaskInv, Waiting
  <2> QED
    BY <1>1, <1>2, <2>1, <2>2, <2>3, TaskKnows
<1>4. CASE /\ pc' = [pc EXCEPT ![c] = IF Locks(c) THEN "lock" ELSE "submit"]
           /\ call' = call /\ call[c].data # <<>>
  <2>1. /\ pc' \in [Callers -> Places]
        /\ pc'[c] = IF Locks(c) THEN "lock" ELSE "submit"
        /\ \A d \in Callers \ {c} : pc'[d] = pc[d]
    BY <1>2, <1>4 DEF SessionTypes, Places
  <2>2. SessionTypes'
    BY <1>1, <1>2, <1>4, <2>1 DEF SessionTypes
  <2>3. Locks(c)' = Locks(c)
    BY <1>1, <1>4 DEF Locks
  <2>4. TaskInv(c)'
    BY <1>1, <1>2, <1>4, <2>1, <2>3 DEF TaskInv, Waiting
  <2> QED
    BY <1>1, <1>2, <1>4, <2>1, <2>2, <2>4, TaskKnows
<1> QED
  BY <1>3, <1>4 DEF Check

\* The lock is taken by one.
LEMMA LockKnows ==
  ASSUME DiscoveryInv, SessionInv, NEW c \in Callers, Lock(c)
  PROVE  SessionInv'
<1>1. /\ pc[c] = "lock" /\ holder = None /\ holder' = c
      /\ pc' = [pc EXCEPT ![c] = "submit"] /\ UNCHANGED <<call, req, staging, wire>>
      /\ backend' = backend /\ handle' = handle /\ opened' = opened /\ told' = told
  BY TaskFrames, TaskWorld DEF Lock
<1>2. SessionTypes /\ TaskInv(c) /\ handle # None
  BY <1>1, TaskFacts DEF SessionInv
<1>3. /\ pc' \in [Callers -> Places] /\ pc'[c] = "submit"
      /\ \A d \in Callers \ {c} : pc'[d] = pc[d] /\ d # None
  BY <1>1, <1>2, SessionAssumption DEF SessionTypes, Places, SessionAssumption
<1>4. SessionTypes'
  BY <1>1, <1>2, <1>3 DEF SessionTypes
<1>5. Locks(c)' = Locks(c)
  BY <1>1 DEF Locks
<1>6. TaskInv(c)'
  BY <1>1, <1>2, <1>3, <1>5 DEF TaskInv, Waiting
<1> QED
  BY <1>1, <1>2, <1>3, <1>4, <1>6, TaskKnows

\* The request is the call's; its bytes are staged only under the lock.
LEMMA SubmitKnows ==
  ASSUME DiscoveryInv, SessionInv, NEW c \in Callers, Submit(c)
  PROVE  SessionInv'
<1> DEFINE op == call[c].op
           data == call[c].data
           staged == backend = "windows" /\ op = "write" /\ Short(data)
           r == [staged |-> staged, fallback |-> FALSE, cancel |-> FALSE, status |-> "pending",
                 bytes |-> IF Sends(op) /\ ~staged THEN HandedOver(op, data) ELSE <<>>]
<1>1. /\ pc[c] = "submit" /\ staging' = (IF staged THEN Pad(data) ELSE staging)
      /\ req' = [req EXCEPT ![c] = r] /\ pc' = [pc EXCEPT ![c] = "wait"]
      /\ UNCHANGED <<call, holder, wire>>
  BY DEF Submit
<1>2. backend' = backend /\ handle' = handle /\ opened' = opened /\ told' = told
  BY TaskFrames, TaskWorld
<1>3. /\ SessionTypes /\ TaskInv(c) /\ handle # None /\ data \in Seq(Nat)
      /\ backend \in {"hidraw", "nusb", "macos", "windows", "web"}
  BY <1>1, TaskFacts DEF SessionInv
<1>4. data # <<>> /\ call[c].sent = FALSE
  BY <1>1, <1>3 DEF TaskInv, SessionTypes, Calls
<1>5. staged \in BOOLEAN /\ HandedOver(op, data) = Bytes(backend, op, data)
      /\ HandedOver(op, data) \in Seq(Nat)
  BY <1>3, <1>4, HandedBytes, BytesTyped
<1>6. staged => holder = c /\ Pad(data) \in Seq(Nat) /\ Len(Pad(data)) = ReportLen
  BY <1>1, <1>3, PadFacts DEF TaskInv, Locks
<1>7. staged = (backend = "windows" /\ op = "write" /\ Short(data))
  OBVIOUS
<1> HIDE DEF staged
<1>8. /\ r \in SystemRequests /\ r.status = "pending" /\ r.staged = staged
      /\ (Sends(op) /\ ~staged) => r.bytes = Bytes(backend, op, data)
  BY <1>5 DEF SystemRequests
<1> HIDE DEF r
<1>9. r # None
  BY <1>8, SessionAssumption DEF SessionAssumption
<1>10. /\ req' \in [Callers -> SystemRequests \cup {None}] /\ req'[c] = r
       /\ pc' \in [Callers -> Places] /\ pc'[c] = "wait"
       /\ \A d \in Callers \ {c} : pc'[d] = pc[d] /\ req'[d] = req[d]
  BY <1>1, <1>3, <1>8 DEF SessionTypes, Places
<1>11. SessionTypes'
  BY <1>1, <1>2, <1>3, <1>6, <1>10 DEF SessionTypes
<1>12. Locks(c)' = Locks(c)
  BY <1>1, <1>2 DEF Locks
<1>13. RequestInv(c)'
  <2>1. /\ call'[c].sent = (req'[c].status = "done")
        /\ req'[c].status # "disconnected"
    BY <1>1, <1>4, <1>8, <1>10
  <2>2. /\ req'[c].staged = staged
        /\ req'[c].staged => staging' = Pad(data)
    BY <1>1, <1>8, <1>10
  <2>3. (Sends(op) /\ ~req'[c].staged) => req'[c].bytes = Bytes(backend, op, data)
    BY <1>8, <1>10
  <2> QED
    BY <1>1, <1>2, <1>7, <2>1, <2>2, <2>3 DEF RequestInv
<1>14. TaskInv(c)'
  BY <1>1, <1>3, <1>4, <1>9, <1>10, <1>12, <1>13 DEF TaskInv, Waiting
<1> QED
  BY <1>1, <1>2, <1>3, <1>6, <1>10, <1>11, <1>14, TaskKnows

\* The system does something with a request, or its task does while it waits.
LEMMA RequestKnows ==
  ASSUME DiscoveryInv, SessionInv, NEW c \in Callers, pc[c] \in Waiting,
         UNCHANGED <<discovery, opened, told, staging, holder>>,
         req' \in [Callers -> SystemRequests \cup {None}], req'[c] # None,
         req'[c].staged = req[c].staged, req'[c].bytes = req[c].bytes,
         req'[c].status = "disconnected" => Gone,
         pc' \in [Callers -> Places], pc'[c] \in Waiting,
         call' \in [Callers -> Calls],
         call'[c].op = call[c].op, call'[c].data = call[c].data,
         call'[c].result = call[c].result,
         call'[c].sent = (req'[c].status = "done"),
         \A d \in Callers \ {c} :
           pc'[d] = pc[d] /\ req'[d] = req[d] /\ call'[d] = call[d],
         wire' = wire \/ wire'.kind \in {"Output", "Feature"}
  PROVE  SessionInv'
<1>1. backend' = backend /\ handle' = handle /\ opened' = opened /\ told' = told
  BY TaskWorld
<1>2. SessionTypes /\ TaskInv(c) /\ handle # None
  BY TaskFacts DEF SessionInv, Waiting
<1>3. SessionTypes'
  BY <1>1, <1>2 DEF SessionTypes
<1>4. Locks(c)' = Locks(c)
  BY <1>1 DEF Locks
<1>5. Gone' = Gone
  BY <1>1 DEF Gone
<1>6. RequestInv(c)'
  BY <1>1, <1>2, <1>5 DEF RequestInv, TaskInv
<1>7. TaskInv(c)'
  <2>1. /\ pc'[c] \notin {"idle", "reading", "check", "lock", "submit"}
        /\ pc[c] \notin {"idle", "reading", "check", "lock", "submit"}
    BY DEF Waiting
  <2>2. call[c].data # <<>> /\ (holder = c <=> Locks(c))
        /\ call[c].result = None /\ call[c].op # "none"
    BY <1>2, <2>1 DEF TaskInv
  <2>3. (holder' = c) = (Locks(c)' /\ pc'[c] \in {"submit"} \cup Waiting)
    BY <1>4, <2>1, <2>2
  <2> QED
    BY <1>6, <2>1, <2>2, <2>3 DEF TaskInv
<1> QED
  BY <1>1, <1>2, <1>3, <1>7, TaskKnows

Statuses == {"pending", "again", "done", "failed", "disconnected", "cancelled"}

\* What changes in a request when the system is done with it or starts again.
LEMMA StatusFacts ==
  ASSUME SessionTypes, NEW c \in Callers, req[c] # None, NEW status \in Statuses,
         NEW fallback \in BOOLEAN,
         req' = [req EXCEPT ![c] = [req[c] EXCEPT !.status = status, !.fallback = fallback]]
  PROVE  /\ req' \in [Callers -> SystemRequests \cup {None}] /\ req'[c] # None
         /\ req'[c].staged = req[c].staged /\ req'[c].bytes = req[c].bytes
         /\ req'[c].status = status
         /\ \A d \in Callers \ {c} : req'[d] = req[d]
<1> DEFINE r == [req[c] EXCEPT !.status = status, !.fallback = fallback]
<1>1. req[c] \in SystemRequests
  BY DEF SessionTypes
<1>2. /\ r \in SystemRequests /\ r.staged = req[c].staged /\ r.bytes = req[c].bytes
      /\ r.status = status
  BY <1>1 DEF SystemRequests, Statuses
<1>3. r # None
  BY <1>2, SessionAssumption DEF SessionAssumption
<1> HIDE DEF r
<1>4. req' = [req EXCEPT ![c] = r]
  BY DEF r
<1>5. /\ req' \in [Callers -> SystemRequests \cup {None}] /\ req'[c] = r
      /\ \A d \in Callers \ {c} : req'[d] = req[d]
  BY <1>2, <1>4 DEF SessionTypes
<1> QED
  BY <1>2, <1>3, <1>5

\* The system settles a request for the task, which waits.
LEMMA PendingFacts ==
  ASSUME DiscoveryInv, SessionInv, NEW c \in Callers, Pending(c)
  PROVE  /\ pc[c] \in Waiting /\ req[c] # None /\ req[c].status = "pending"
         /\ req[c] \in SystemRequests /\ call[c].sent = FALSE /\ SessionTypes
         /\ call[c].data # <<>>
<1>1. req[c] # None /\ req[c].status = "pending" /\ SessionTypes /\ TaskInv(c)
  BY DEF Pending, SessionInv
<1>2. pc[c] \in Waiting /\ req[c] \in SystemRequests
  BY <1>1 DEF TaskInv, SessionTypes
<1> QED
  BY <1>1, <1>2 DEF TaskInv, RequestInv

\* A request that is carried is done, and its call sent.
LEMMA CarryKnows ==
  ASSUME DiscoveryInv, SessionInv, NEW c \in Callers, Carry(c)
  PROVE  SessionInv'
<1>1. /\ Pending(c) /\ req' = [req EXCEPT ![c].status = "done"]
      /\ call' = [call EXCEPT ![c].sent = TRUE]
      /\ wire' = IF Sends(call[c].op)
                 THEN [kind |-> C!Kind(call[c].op), report |-> OnWire(c)] ELSE wire
      /\ UNCHANGED <<discovery, opened, pc, staging, holder, told>>
  BY DEF Carry
<1>2. /\ pc[c] \in Waiting /\ req[c] # None /\ req[c] \in SystemRequests /\ SessionTypes
      /\ call[c] \in Calls
  BY <1>1, PendingFacts DEF SessionTypes
<1>3. req' = [req EXCEPT ![c] = [req[c] EXCEPT !.status = "done", !.fallback = req[c].fallback]]
      /\ req[c].fallback \in BOOLEAN
  BY <1>1, <1>2 DEF SystemRequests
<1>4. /\ req' \in [Callers -> SystemRequests \cup {None}] /\ req'[c] # None
      /\ req'[c].staged = req[c].staged /\ req'[c].bytes = req[c].bytes
      /\ req'[c].status = "done"
      /\ \A d \in Callers \ {c} : req'[d] = req[d]
  BY <1>2, <1>3, StatusFacts DEF Statuses
<1> DEFINE k == [call[c] EXCEPT !.sent = TRUE]
<1>5. /\ k \in Calls /\ k.op = call[c].op /\ k.data = call[c].data
      /\ k.result = call[c].result /\ k.sent = TRUE
  BY <1>2 DEF Calls
<1>6. call' = [call EXCEPT ![c] = k]
  BY <1>1
<1> HIDE DEF k
<1>7. /\ call' \in [Callers -> Calls] /\ call'[c] = k
      /\ \A d \in Callers \ {c} : call'[d] = call[d]
  BY <1>2, <1>5, <1>6 DEF SessionTypes
<1>8. wire' = wire \/ wire'.kind \in {"Output", "Feature"}
  BY <1>1 DEF Sends, C!Kind
<1>9. pc' \in [Callers -> Places] /\ pc' = pc
  BY <1>1, <1>2 DEF SessionTypes
<1> QED
  BY <1>1, <1>2, <1>4, <1>5, <1>7, <1>8, <1>9, RequestKnows

\* A refusal is one the system may give.
LEMMA RefusalFacts ==
  ASSUME DiscoveryInv, NEW c, NEW status \in Refusals(c)
  PROVE  /\ status \in {"failed", "again", "disconnected"}
         /\ status = "disconnected" => Gone
BY DEF Refusals, HidrawRefusals, NusbRefusals, WinRefusals, WinLacks

\* Nothing is sent, and nothing else of the call changes.
LEMMA UnsentKnows ==
  ASSUME DiscoveryInv, SessionInv, NEW c \in Callers, pc[c] \in Waiting, call[c].sent = FALSE,
         NEW status \in Statuses \ {"done"}, status = "disconnected" => Gone,
         NEW fallback \in BOOLEAN,
         req' = [req EXCEPT ![c] = [req[c] EXCEPT !.status = status, !.fallback = fallback]],
         UNCHANGED <<discovery, opened, call, pc, staging, holder, told, wire>>
  PROVE  SessionInv'
<1>1. SessionTypes /\ req[c] # None
  BY DEF SessionInv, TaskInv
<1>2. /\ req' \in [Callers -> SystemRequests \cup {None}] /\ req'[c] # None
      /\ req'[c].staged = req[c].staged /\ req'[c].bytes = req[c].bytes
      /\ req'[c].status = status
      /\ \A d \in Callers \ {c} : req'[d] = req[d]
  BY <1>1, StatusFacts
<1>3. call' \in [Callers -> Calls] /\ pc' \in [Callers -> Places]
  BY <1>1 DEF SessionTypes
<1> QED
  BY <1>2, <1>3, RequestKnows

\* A status is written, and the rest of the request stays.
LEMMA SettledRequest ==
  ASSUME SessionTypes, NEW c \in Callers, req[c] # None, NEW status,
         req' = [req EXCEPT ![c].status = status]
  PROVE  /\ req[c].fallback \in BOOLEAN
         /\ req' = [req EXCEPT ![c] =
              [req[c] EXCEPT !.status = status, !.fallback = req[c].fallback]]
<1>1. req[c] \in SystemRequests
  BY DEF SessionTypes
<1> QED
  BY <1>1 DEF SystemRequests

\* A refused request has sent nothing.
LEMMA RefuseKnows ==
  ASSUME DiscoveryInv, SessionInv, NEW c \in Callers, Refuse(c)
  PROVE  SessionInv'
<1>1. PICK status \in Refusals(c) : req' = [req EXCEPT ![c].status = status]
  BY DEF Refuse
<1>2. /\ pc[c] \in Waiting /\ req[c] # None /\ SessionTypes /\ call[c].sent = FALSE
      /\ UNCHANGED <<discovery, opened, call, pc, staging, holder, told, wire>>
  BY PendingFacts DEF Refuse
<1>3. status \in Statuses \ {"done"} /\ (status = "disconnected" => Gone)
  BY RefusalFacts DEF Statuses
<1>4. /\ req[c].fallback \in BOOLEAN
      /\ req' = [req EXCEPT ![c] =
           [req[c] EXCEPT !.status = status, !.fallback = req[c].fallback]]
  BY <1>1, <1>2, SettledRequest
<1> QED
  BY <1>2, <1>3, <1>4, UnsentKnows

\* A cancelled request has sent nothing.
LEMMA CancelledKnows ==
  ASSUME DiscoveryInv, SessionInv, NEW c \in Callers, Cancelled(c)
  PROVE  SessionInv'
<1>1. /\ pc[c] \in Waiting /\ req[c] # None /\ SessionTypes /\ call[c].sent = FALSE
      /\ req' = [req EXCEPT ![c].status = "cancelled"]
      /\ UNCHANGED <<discovery, opened, call, pc, staging, holder, told, wire>>
  BY PendingFacts DEF Cancelled
<1>2. /\ req[c].fallback \in BOOLEAN
      /\ req' = [req EXCEPT ![c] =
           [req[c] EXCEPT !.status = "cancelled", !.fallback = req[c].fallback]]
  BY <1>1, SettledRequest
<1>3. "cancelled" \in Statuses \ {"done"} /\ "cancelled" # "disconnected"
  BY DEF Statuses
<1> DEFINE status == "cancelled"
<1>4. /\ status \in Statuses \ {"done"} /\ (status = "disconnected" => Gone)
      /\ req' = [req EXCEPT ![c] =
           [req[c] EXCEPT !.status = status, !.fallback = req[c].fallback]]
  BY <1>2, <1>3
<1> DEFINE fallback == req[c].fallback
<1>5. fallback \in BOOLEAN
      /\ req' = [req EXCEPT ![c] = [req[c] EXCEPT !.status = status, !.fallback = fallback]]
  BY <1>2, <1>4
<1>6. /\ pc[c] \in Waiting /\ call[c].sent = FALSE
      /\ UNCHANGED <<discovery, opened, call, pc, staging, holder, told, wire>>
  BY <1>1
<1>7. status \in Statuses \ {"done"} /\ (status = "disconnected" => Gone)
  BY <1>4
<1> HIDE DEF status, fallback
<1> QED
  BY <1>5, <1>6, <1>7, UnsentKnows

\* A request that starts again has sent nothing so far.
LEMMA AgainKnows ==
  ASSUME DiscoveryInv, SessionInv, NEW c \in Callers, Again(c)
  PROVE  SessionInv'
<1>1. /\ pc[c] = "wait" /\ req[c].status = "again"
      /\ req' = [req EXCEPT ![c].status = "pending", ![c].fallback = TRUE]
      /\ UNCHANGED <<discovery, opened, call, pc, staging, holder, told, wire>>
  BY DEF Again
<1>2. pc[c] \in Waiting /\ SessionTypes /\ TaskInv(c)
  BY <1>1 DEF SessionInv, Waiting
<1>3. req[c] \in SystemRequests /\ RequestInv(c)
  BY <1>2 DEF TaskInv, SessionTypes
<1>4. call[c].sent = FALSE
  BY <1>1, <1>3 DEF RequestInv
<1>5. req' = [req EXCEPT ![c] = [req[c] EXCEPT !.status = "pending", !.fallback = TRUE]]
  BY <1>1, <1>2, <1>3 DEF SessionTypes, SystemRequests
<1>6. "pending" \in Statuses \ {"done"}
  BY DEF Statuses
<1> QED
  BY <1>1, <1>2, <1>4, <1>5, <1>6, UnsentKnows

\* A timed-out write goes on to cancel, its request still the system's.
LEMMA TimeOutKnows ==
  ASSUME DiscoveryInv, SessionInv, NEW c \in Callers, TimeOut(c)
  PROVE  SessionInv'
<1>1. /\ pc[c] \in Waiting /\ req[c] # None /\ req[c].status = "pending" /\ SessionTypes
      /\ call[c].sent = FALSE
      /\ pc' = [pc EXCEPT ![c] = "cancel"]
      /\ UNCHANGED <<discovery, opened, call, req, staging, holder, told, wire>>
  BY PendingFacts DEF TimeOut
<1>2. /\ pc' \in [Callers -> Places] /\ pc'[c] \in Waiting
      /\ \A d \in Callers \ {c} : pc'[d] = pc[d]
  BY <1>1 DEF SessionTypes, Places, Waiting
<1>3. /\ call' \in [Callers -> Calls] /\ req' \in [Callers -> SystemRequests \cup {None}]
  BY <1>1 DEF SessionTypes
<1> QED
  BY <1>1, <1>2, <1>3, RequestKnows

\* Asking for the end of a request does not end it.
LEMMA CancelIoExKnows ==
  ASSUME DiscoveryInv, SessionInv, NEW c \in Callers, CancelIoEx(c)
  PROVE  SessionInv'
<1>1. /\ pc[c] \in Waiting /\ req' = [req EXCEPT ![c].cancel = TRUE]
      /\ pc' = [pc EXCEPT ![c] = "reap"]
      /\ UNCHANGED <<discovery, opened, call, staging, holder, told, wire>>
  BY DEF CancelIoEx, Waiting
<1>2. SessionTypes /\ RequestInv(c) /\ req[c] # None /\ req[c] \in SystemRequests
  BY <1>1 DEF SessionInv, TaskInv, SessionTypes
<1> DEFINE r == [req[c] EXCEPT !.cancel = TRUE]
<1>3. /\ r \in SystemRequests /\ r.staged = req[c].staged /\ r.bytes = req[c].bytes
      /\ r.status = req[c].status
  BY <1>2 DEF SystemRequests
<1>4. r # None
  BY <1>3, SessionAssumption DEF SessionAssumption
<1>5. req' = [req EXCEPT ![c] = r]
  BY <1>1
<1> HIDE DEF r
<1>6. /\ req' \in [Callers -> SystemRequests \cup {None}] /\ req'[c] = r
      /\ \A d \in Callers \ {c} : req'[d] = req[d]
  BY <1>2, <1>3, <1>5 DEF SessionTypes
<1>7. /\ pc' \in [Callers -> Places] /\ pc'[c] \in Waiting
      /\ \A d \in Callers \ {c} : pc'[d] = pc[d]
  BY <1>1, <1>2 DEF SessionTypes, Places, Waiting
<1>8. call' \in [Callers -> Calls]
  BY <1>1, <1>2 DEF SessionTypes
<1>9. call'[c].sent = (req'[c].status = "done") /\ (req'[c].status = "disconnected" => Gone)
  BY <1>1, <1>2, <1>3, <1>6 DEF RequestInv
<1> QED
  BY <1>1, <1>3, <1>4, <1>6, <1>7, <1>8, <1>9, RequestKnows

\* What a call may return, as the system has left its request.
LEMMA OutcomeFacts ==
  ASSUME DiscoveryInv, SessionInv, NEW c \in Callers, pc[c] \in Waiting
  PROVE  /\ Outcome(c) \in Results
         /\ req[c].status # "done" =>
              \/ Outcome(c) = Error("error")
              \/ Outcome(c) = Error("disconnected") /\ req[c].status = "disconnected"
         /\ req[c].status = "done" =>
              CASE call[c].op = "write" ->
                     Outcome(c) = [tag |-> "ok", n |-> Len(call[c].data), buf |-> <<>>]
                [] call[c].op = "send_feature" ->
                     Outcome(c) = [tag |-> "ok", n |-> 0, buf |-> <<>>]
                [] OTHER -> Faithful(Outcome(c), call[c].data, Answer[C!Kind(call[c].op)])
<1>1. SessionTypes /\ TaskInv(c)
  BY DEF SessionInv
<1>2. call[c].op \in C!Ops /\ call[c].data \in Seq(Nat)
  BY <1>1 DEF SessionTypes, Calls, TaskInv, Waiting
<1>3. CASE req[c].status = "done" /\ call[c].op = "write"
  <2>1. Outcome(c) = [tag |-> "ok", n |-> Len(call[c].data), buf |-> <<>>]
    BY <1>3 DEF Outcome, Result
  <2>2. Outcome(c) \in Results
    BY <1>2, <2>1 DEF Results
  <2> QED
    BY <1>3, <2>1, <2>2
<1>4. CASE req[c].status = "done" /\ call[c].op = "send_feature"
  <2>1. Outcome(c) = [tag |-> "ok", n |-> 0, buf |-> <<>>]
    BY <1>4 DEF Outcome, Result
  <2>2. Outcome(c) \in Results
    BY <2>1 DEF Results
  <2> QED
    BY <1>4, <2>1, <2>2
<1>5. CASE req[c].status = "done" /\ call[c].op \notin {"write", "send_feature"}
  <2>1. call[c].op \in {"get_feature", "get_input"}
    BY <1>2, <1>5 DEF C!Ops
  <2>2. Outcome(c) = Got(c)
    BY <1>5 DEF Outcome
  <2>3. Faithful(Outcome(c), call[c].data, Answer[C!Kind(call[c].op)])
    BY <2>1, <2>2, GotFaithful
  <2>4. Outcome(c) \in Results
    BY <2>3 DEF Faithful
  <2> QED
    BY <1>5, <2>3, <2>4
<1>6. CASE req[c].status # "done"
  <2>1. \/ Outcome(c) = Error("error")
        \/ Outcome(c) = Error("disconnected") /\ req[c].status = "disconnected"
    BY <1>6 DEF Outcome
  <2> QED
    BY <1>6, <2>1, ErrorTyped
<1> QED
  BY <1>3, <1>4, <1>5, <1>6

\* A call that returns gives its request and its lock back.
LEMMA ReturnsKnow ==
  ASSUME DiscoveryInv, SessionInv, NEW c \in Callers, pc[c] \in Waiting,
         NEW result \in Results, Ends(c, result),
         req' = [req EXCEPT ![c] = None], holder' = Unlocked(c),
         UNCHANGED <<discovery, opened, staging, told, wire>>
  PROVE  SessionInv'
<1>1. backend' = backend /\ handle' = handle /\ opened' = opened /\ told' = told
  BY TaskWorld
<1>2. SessionTypes /\ TaskInv(c) /\ handle # None
  BY TaskFacts DEF SessionInv, Waiting
<1>3. /\ call' \in [Callers -> Calls] /\ pc' \in [Callers -> Places]
      /\ call'[c].result # None /\ pc'[c] = "idle"
      /\ \A d \in Callers \ {c} : call'[d] = call[d] /\ pc'[d] = pc[d]
  BY <1>2, EndsFacts
<1>4. /\ req' \in [Callers -> SystemRequests \cup {None}] /\ req'[c] = None
      /\ \A d \in Callers \ {c} : req'[d] = req[d]
  BY <1>2 DEF SessionTypes
<1>5. /\ holder' \in Callers \cup {None} /\ holder' # c
      /\ \A d \in Callers \ {c} : (holder' = d) = (holder = d)
  BY <1>2, SessionAssumption DEF Unlocked, SessionTypes, SessionAssumption
<1>6. SessionTypes'
  BY <1>1, <1>2, <1>3, <1>4, <1>5 DEF SessionTypes
<1>7. TaskInv(c)'
  BY <1>3, <1>4, <1>5 DEF TaskInv, Waiting
<1> QED
  BY <1>1, <1>2, <1>3, <1>4, <1>5, <1>6, <1>7, TaskKnows

\* A call returns what has become of its request.
LEMMA ReturnKnows ==
  ASSUME DiscoveryInv, SessionInv, NEW c \in Callers, Return(c)
  PROVE  SessionInv'
<1>1. /\ pc[c] \in Waiting /\ Ends(c, Outcome(c)) /\ req' = [req EXCEPT ![c] = None]
      /\ holder' = Unlocked(c) /\ UNCHANGED <<discovery, opened, staging, told, wire>>
  BY DEF Return, Waiting
<1>2. Outcome(c) \in Results
  BY <1>1, OutcomeFacts
<1> QED
  BY <1>1, <1>2, ReturnsKnow

\* A cancelled write returns once its request has ended.
LEMMA ReapKnows ==
  ASSUME DiscoveryInv, SessionInv, NEW c \in Callers, Reap(c)
  PROVE  SessionInv'
<1>1. /\ pc[c] \in Waiting /\ Ends(c, Error("error")) /\ req' = [req EXCEPT ![c] = None]
      /\ holder' = Unlocked(c) /\ UNCHANGED <<discovery, opened, staging, told, wire>>
  BY DEF Reap, Waiting
<1>2. Error("error") \in Results
  BY ErrorTyped
<1> QED
  BY <1>1, <1>2, ReturnsKnow

\* The browser's side: a read comes and goes, the device opens and closes, and
\* no call notices.
LEMMA WebKnows ==
  ASSUME SessionInv, UNCHANGED <<discovery, call, req, staging, holder, told, wire>>,
         opened' \in BOOLEAN, opened' = opened \/ backend = "web",
         pc' \in [Callers -> Places],
         \A c \in Callers :
           pc'[c] = pc[c]
             \/ (handle # None /\ {pc[c], pc'[c]} \subseteq {"idle", "reading"})
  PROVE  SessionInv'
<1>1. backend' = backend /\ handle' = handle
  BY DEF discovery, world
<1>2. Gone' = Gone
  BY <1>1 DEF Gone
<1>3. SessionTypes'
  BY DEF SessionInv, SessionTypes
<1>4. ASSUME NEW c \in Callers PROVE TaskInv(c)'
  <2>1. CASE pc'[c] = pc[c]
    BY <1>1, <1>2, <2>1, OthersKnow
  <2>2. CASE {pc[c], pc'[c]} \subseteq {"idle", "reading"}
    <3>1. TaskInv(c)
      BY DEF SessionInv
    <3> QED
      BY <2>2, <3>1 DEF TaskInv, Waiting
  <2> QED
    BY <2>1, <2>2
<1>5. handle' = None => \A c \in Callers : pc'[c] = "idle"
  BY <1>1 DEF SessionInv
<1>6. (handle' # None /\ backend' # "web") => opened'
  BY <1>1 DEF SessionInv
<1> QED
  BY <1>1, <1>2, <1>3, <1>4, <1>5, <1>6 DEF SessionInv

\* A step of a backend keeps what tasks and system know.
LEMMA NextKnows ==
  ASSUME DiscoveryInv, SessionInv, Next
  PROVE  SessionInv'
<1>1. ASSUME NEW c \in Callers, System(c) PROVE SessionInv'
  BY <1>1, CarryKnows, RefuseKnows, CancelledKnows DEF System
<1>2. ASSUME NEW c \in Callers, Task(c) PROVE SessionInv'
  BY <1>2, BeginKnows, CheckKnows, LockKnows, SubmitKnows, AgainKnows, ReturnKnows,
     TimeOutKnows, CancelIoExKnows, ReapKnows DEF Task
<1> QED
  BY <1>1, <1>2, DiscoverKnows, ToldKnows DEF Next

\* So does a step of the browser.
LEMMA SessionKnows ==
  ASSUME DiscoveryInv, SessionInv, WebTypes, [WebNext]_<<vars, web>>
  PROVE  SessionInv'
<1>0. SessionTypes /\ (handle = None => \A c \in Callers : pc[c] = "idle")
  BY DEF SessionInv
<1>1. CASE Next
  BY <1>1, NextKnows
<1>2. CASE OpenDevice \/ CloseDevice \/ InputReport
  <2>1. UNCHANGED <<discovery, opened, call, pc, req, staging, holder, told, wire>>
    BY <1>2 DEF OpenDevice, CloseDevice, InputReport, transfers
  <2> QED
    BY <1>0, <2>1, WebKnows DEF SessionTypes
<1>3. CASE Settle
  <2>1. /\ UNCHANGED <<discovery, call, pc, req, staging, holder, told, wire>>
        /\ opened' \in {opened, TRUE, FALSE} /\ promise # "none"
    BY <1>3 DEF Settle
  <2>2. backend = "web" /\ opened' \in BOOLEAN
    BY <1>0, <2>1 DEF WebTypes, SessionTypes
  <2> QED
    BY <1>0, <2>1, <2>2, WebKnows DEF SessionTypes
<1>4. ASSUME NEW c \in Callers, Read(c) \/ Poll(c) \/ DropRead(c) PROVE SessionInv'
  <2>1. /\ UNCHANGED <<discovery, opened, call, req, staging, holder, told, wire>>
        /\ \/ pc' = pc
           \/ pc[c] \in {"idle", "reading"}
              /\ \E p \in {"idle", "reading"} : pc' = [pc EXCEPT ![c] = p]
    BY <1>4 DEF Read, Poll, DropRead
  <2>2. pc[c] = "idle" => handle # None \/ pc' = pc
    BY <1>4 DEF Read, Poll, DropRead, Browser
  <2>3. pc[c] = "reading" => handle # None
    BY <1>0
  <2>4. pc' \in [Callers -> Places]
    BY <1>0, <2>1 DEF SessionTypes, Places
  <2>5. \A d \in Callers :
          pc'[d] = pc[d]
            \/ (handle # None /\ {pc[d], pc'[d]} \subseteq {"idle", "reading"})
    BY <1>0, <2>1, <2>2, <2>3 DEF SessionTypes
  <2> QED
    BY <1>0, <2>1, <2>4, <2>5, WebKnows DEF SessionTypes
<1>5. CASE UNCHANGED <<vars, web>>
  <2>1. UNCHANGED <<discovery, opened, call, pc, req, staging, holder, told, wire>>
    BY <1>5 DEF vars, transfers
  <2> QED
    BY <1>0, <2>1, WebKnows DEF SessionTypes
<1> QED
  BY <1>1, <1>2, <1>3, <1>4, <1>5 DEF WebNext

-----------------------------------------------------------------------------
(* The streams of the browser *)

\* What a stream says of its own reports, and what it owes those that wait.
Ordered(s) ==
  /\ Len(s.queue) <= QueueCapacity
  /\ \A i \in DOMAIN s.queue :
       IF i = 1 THEN s.queue[1] > s.last /\ (s.queue[1] = s.last + 1 \/ s.full)
       ELSE s.queue[i] = s.queue[i - 1] + 1

Owed(n) ==
  \A c \in Callers : Waits(c, n) =>
    /\ streams[n].queue # <<>> => c \in awake
    /\ (c \notin awake /\ stream = n) => c \in streams[n].wakers

\* WebReadsInOrder, stream by stream.
LEMMA OrderParts ==
  WebReadsInOrder <=> \A n \in DOMAIN streams : Ordered(streams[n]) /\ Owed(n)
BY DEF WebReadsInOrder, Ordered, Owed

\* A queue of L reports, each the next of the one before.
Consecutive(q, L, last, full) ==
  /\ L \in Nat /\ L <= QueueCapacity
  /\ q \in [1..L -> Nat]
  /\ \A i \in 1..(L - 1) : q[i + 1] = q[i] + 1
  /\ L > 0 => q[1] > last /\ (q[1] = last + 1 \/ full)

\* Ordered says that the queue is Consecutive.
LEMMA OrderedFacts ==
  ASSUME NEW s, s.queue \in Seq(Nat)
  PROVE  Ordered(s) <=> Consecutive(s.queue, Len(s.queue), s.last, s.full)
<1> DEFINE q == s.queue
           L == Len(q)
<1>1. q \in [1..L -> Nat] /\ L \in Nat /\ DOMAIN q = 1..L
  BY BufferFacts
<1>2. ASSUME Ordered(s) PROVE Consecutive(q, L, s.last, s.full)
  <2>1. /\ L <= QueueCapacity
        /\ \A i \in 1..L :
             IF i = 1 THEN q[1] > s.last /\ (q[1] = s.last + 1 \/ s.full)
             ELSE q[i] = q[i - 1] + 1
    BY <1>1, <1>2 DEF Ordered
  <2> HIDE DEF q, L
  <2>2. ASSUME NEW i \in 1..(L - 1) PROVE q[i + 1] = q[i] + 1
    <3>1. i + 1 \in 1..L /\ i + 1 # 1 /\ (i + 1) - 1 = i
      BY <1>1
    <3> QED
      BY <2>1, <3>1
  <2>3. L > 0 => q[1] > s.last /\ (q[1] = s.last + 1 \/ s.full)
    BY <1>1, <2>1
  <2> QED
    BY <1>1, <2>1, <2>2, <2>3 DEF Consecutive
<1>3. ASSUME Consecutive(q, L, s.last, s.full) PROVE Ordered(s)
  <2>1. ASSUME NEW i \in 1..L, i # 1 PROVE q[i] = q[i - 1] + 1
    <3> HIDE DEF q, L
    <3>1. i - 1 \in 1..(L - 1) /\ (i - 1) + 1 = i
      BY <1>1, <2>1
    <3> QED
      BY <1>3, <3>1 DEF Consecutive
  <2>2. ASSUME NEW i \in 1..L, i = 1
        PROVE  q[1] > s.last /\ (q[1] = s.last + 1 \/ s.full)
    BY <1>1, <1>3, <2>2 DEF Consecutive
  <2>3. L <= QueueCapacity
    BY <1>3 DEF Consecutive
  <2> QED
    BY <1>1, <2>1, <2>2, <2>3 DEF Ordered
<1> QED
  BY <1>2, <1>3

\* The queue with one more report at its end and, if it was full, the first gone.
Queued(q, report) == Append(IF Len(q) >= QueueCapacity THEN Tail(q) ELSE q, report)

\* One more report leaves the queue consecutive.
LEMMA QueuePushed ==
  ASSUME NEW q \in Seq(Nat), NEW last \in Nat, NEW full \in BOOLEAN, NEW report \in Nat,
         Consecutive(q, Len(q), last, full),
         report = (IF q = <<>> THEN last ELSE q[Len(q)]) + 1
  PROVE  /\ Queued(q, report) \in Seq(Nat) /\ Queued(q, report) # <<>>
         /\ Queued(q, report)[Len(Queued(q, report))] = report
         /\ Consecutive(Queued(q, report), Len(Queued(q, report)), last,
                        full \/ Len(q) >= QueueCapacity)
<1> DEFINE new == Queued(q, report)
           at_limit == Len(q) >= QueueCapacity
<1>0. /\ QueueCapacity \in Nat /\ QueueCapacity > 0 /\ Len(q) \in Nat
      /\ new = Append(IF at_limit THEN Tail(q) ELSE q, report)
  BY WebAssumption DEF WebAssumption, Queued
<1>4. \A x, y, z : (x \in Nat /\ y \in Nat /\ y > x /\ z = y + 1) => z > x
  OBVIOUS
<1> HIDE DEF new
<1>1. CASE q = <<>>
  <2>1. /\ new = <<report>> /\ report = last + 1
        /\ new \in Seq(Nat) /\ Len(new) = 1 /\ new[1] = report
    BY <1>0, <1>1
  <2>2. new \in [1..1 -> Nat]
    BY <2>1, BufferFacts
  <2>3. Consecutive(new, 1, last, full \/ at_limit)
    <3>1. 1 <= QueueCapacity
      BY <1>0
    <3>2. \A i \in 1..(1 - 1) : new[i + 1] = new[i] + 1
      OBVIOUS
    <3>3. new[1] > last /\ new[1] = last + 1
      BY <2>1
    <3> HIDE DEF at_limit
    <3> QED
      BY <2>2, <3>1, <3>2, <3>3 DEF Consecutive
  <2> QED
    BY <2>1, <2>3 DEF new
<1>2. CASE q # <<>> /\ ~at_limit
  <2>1. /\ new \in Seq(Nat) /\ new # <<>> /\ Len(new) = Len(q) + 1 /\ new[Len(new)] = report
        /\ \A i \in 1..Len(q) : new[i] = q[i]
        /\ Len(q) > 0 /\ report = q[Len(q)] + 1
    <3>1. new = Append(q, report) /\ Len(q) > 0 /\ report = q[Len(q)] + 1
      BY <1>0, <1>2
    <3>2. /\ new \in Seq(Nat) /\ new # <<>> /\ Len(new) = Len(q) + 1
          /\ \A i \in 1..Len(q) : new[i] = q[i]
          /\ new[Len(q) + 1] = report
      BY <3>1, AppendProperties
    <3> QED
      BY <3>1, <3>2
  <2>2. new \in [1..Len(new) -> Nat]
    BY <2>1, BufferFacts
  <2>3. ASSUME NEW i \in 1..(Len(new) - 1) PROVE new[i + 1] = new[i] + 1
    <3>1. CASE i = Len(q)
      BY <1>0, <2>1, <3>1
    <3>2. CASE i < Len(q)
      <4>1. i \in 1..(Len(q) - 1) /\ i \in 1..Len(q) /\ i + 1 \in 1..Len(q)
        BY <1>0, <2>1, <3>2
      <4>2. new[i] = q[i] /\ new[i + 1] = q[i + 1]
        BY <2>1, <4>1
      <4> QED
        BY <4>1, <4>2 DEF Consecutive
    <3>3. i = Len(q) \/ i < Len(q)
      <4>1. i \in 1..Len(q)
        BY <1>0, <2>1
      <4> QED
        BY <1>0, <4>1
    <3> QED
      BY <3>1, <3>2, <3>3
  <2>4. new[1] = q[1]
    BY <1>0, <2>1
  <2>5. Len(new) <= QueueCapacity
    BY <1>0, <1>2, <2>1
  <2>6. q[1] > last /\ (q[1] = last + 1 \/ full)
    BY <2>1 DEF Consecutive
  <2>7. Consecutive(new, Len(new), last, full \/ at_limit)
    <3>1. Len(new) \in Nat
      BY <1>0, <2>1
    <3> HIDE DEF at_limit
    <3>2. new[1] > last /\ (new[1] = last + 1 \/ (full \/ at_limit))
      BY <2>4, <2>6
    <3> QED
      BY <2>2, <2>3, <2>5, <3>1, <3>2 DEF Consecutive
  <2> QED
    BY <2>1, <2>7 DEF new
<1>3. CASE q # <<>> /\ at_limit
  <2>1. /\ new \in Seq(Nat) /\ new # <<>> /\ Len(new) = Len(q) /\ new[Len(new)] = report
        /\ \A i \in 1..(Len(q) - 1) : new[i] = q[i + 1]
        /\ Len(q) > 0 /\ report = q[Len(q)] + 1
    <3> DEFINE t == Tail(q)
    <3>1. new = Append(t, report) /\ Len(q) > 0 /\ report = q[Len(q)] + 1
      BY <1>0, <1>3
    <3>2. /\ t \in Seq(Nat) /\ Len(t) = Len(q) - 1 /\ Len(t) \in Nat
          /\ \A i \in 1..Len(t) : t[i] = q[i + 1]
      BY <1>0, <1>3, HeadTailProperties
    <3> HIDE DEF t
    <3>3. /\ new \in Seq(Nat) /\ new # <<>> /\ Len(new) = Len(t) + 1
          /\ \A i \in 1..Len(t) : new[i] = t[i]
          /\ new[Len(t) + 1] = report
      BY <3>1, <3>2, AppendProperties
    <3>4. Len(new) = Len(q)
      BY <1>0, <3>2, <3>3
    <3> QED
      BY <3>1, <3>2, <3>3, <3>4
  <2>2. new \in [1..Len(new) -> Nat]
    BY <2>1, BufferFacts
  <2>3. /\ \A i \in 1..(Len(q) - 1) : q[i + 1] = q[i] + 1
        /\ q[1] > last /\ Len(q) <= QueueCapacity
    BY <1>0, <2>1 DEF Consecutive
  <2>4. ASSUME NEW i \in 1..(Len(new) - 1) PROVE new[i + 1] = new[i] + 1
    <3>1. new[i] = q[i + 1]
      BY <1>0, <2>1
    <3>2. CASE i + 1 = Len(new)
      BY <2>1, <3>1, <3>2
    <3>3. CASE i + 1 < Len(new)
      <4>1. i + 1 \in 1..(Len(q) - 1)
        BY <1>0, <2>1, <3>3
      <4> QED
        BY <2>1, <2>3, <3>1, <4>1
    <3>4. i + 1 = Len(new) \/ i + 1 < Len(new)
      BY <1>0, <2>1
    <3> QED
      BY <3>2, <3>3, <3>4
  <2>5. new[1] > last
    <3>0. q[1] \in Nat
      BY <1>0, <2>1
    <3>1. CASE Len(q) = 1
      <4>1. new[1] = q[1] + 1
        BY <2>1, <3>1
      <4> QED
        BY <2>3, <3>0, <4>1
    <3>2. CASE Len(q) > 1
      <4>1. 1 \in 1..(Len(q) - 1)
        BY <1>0, <3>2
      <4>2. new[1] = q[2] /\ q[2] = q[1] + 1
        BY <2>1, <2>3, <4>1
      <4> QED
        BY <1>4, <2>3, <3>0, <4>2
    <3>3. Len(q) = 1 \/ Len(q) > 1
      BY <2>1
    <3> QED
      BY <3>1, <3>2, <3>3
  <2>6. Consecutive(new, Len(new), last, full \/ at_limit)
    BY <1>0, <1>3, <2>1, <2>2, <2>3, <2>4, <2>5 DEF Consecutive
  <2> QED
    BY <2>1, <2>6 DEF new
<1> QED
  BY <1>1, <1>2, <1>3

\* A report read leaves the queue consecutive, after that report.
LEMMA QueuePopped ==
  ASSUME NEW q \in Seq(Nat), q # <<>>, NEW last, NEW full,
         Consecutive(q, Len(q), last, full)
  PROVE  /\ Tail(q) \in Seq(Nat) /\ Head(q) \in Nat
         /\ Consecutive(Tail(q), Len(Tail(q)), Head(q), full)
         /\ q[Len(q)] = IF Tail(q) = <<>> THEN Head(q) ELSE Tail(q)[Len(Tail(q))]
<1>1. /\ Len(q) \in Nat /\ Len(q) > 0 /\ Head(q) = q[1] /\ q[1] \in Nat
      /\ Tail(q) \in Seq(Nat) /\ Len(Tail(q)) = Len(q) - 1
      /\ \A i \in 1..(Len(q) - 1) : Tail(q)[i] = q[i + 1]
  OBVIOUS
<1>0. (Tail(q) = <<>>) <=> (Len(q) = 1)
  <2> DEFINE t == Tail(q)
  <2>1. \A r \in Seq(Nat) : (r = <<>>) <=> (Len(r) = 0)
    OBVIOUS
  <2>2. t \in Seq(Nat) /\ Len(t) = Len(q) - 1
    BY <1>1
  <2> HIDE DEF t
  <2>3. (t = <<>>) <=> (Len(t) = 0)
    BY <2>1, <2>2
  <2>4. (t = <<>>) <=> (Len(q) = 1)
    BY <1>1, <2>2, <2>3
  <2> QED
    BY <2>4 DEF t
<1>2. Tail(q) \in [1..(Len(q) - 1) -> Nat]
  BY <1>1, BufferFacts
<1>3. /\ \A i \in 1..(Len(q) - 1) : q[i + 1] = q[i] + 1
      /\ Len(q) <= QueueCapacity
  BY DEF Consecutive
<1>4. ASSUME NEW i \in 1..(Len(q) - 2) PROVE Tail(q)[i + 1] = Tail(q)[i] + 1
  <2>1. i \in 1..(Len(q) - 1) /\ i + 1 \in 1..(Len(q) - 1)
    BY <1>1
  <2> QED
    BY <1>1, <1>3, <2>1
<1>5. Len(q) > 1 => Tail(q)[1] = q[1] + 1
  <2> SUFFICES ASSUME Len(q) > 1 PROVE Tail(q)[1] = q[1] + 1
    OBVIOUS
  <2>1. 1 \in 1..(Len(q) - 1)
    BY <1>1
  <2> QED
    BY <1>1, <1>3, <2>1
<1>6. Len(q) > 1 => Tail(q)[Len(q) - 1] = q[Len(q)]
  <2> SUFFICES ASSUME Len(q) > 1 PROVE Tail(q)[Len(q) - 1] = q[Len(q)]
    OBVIOUS
  <2>1. Len(q) - 1 \in 1..(Len(q) - 1) /\ (Len(q) - 1) + 1 = Len(q)
    BY <1>1
  <2> QED
    BY <1>1, <2>1
<1>7. \A x, y : (x \in Nat /\ y = x + 1) => y > x
  OBVIOUS
<1>8. QueueCapacity \in Nat
  BY WebAssumption DEF WebAssumption
<1>9. Consecutive(Tail(q), Len(q) - 1, q[1], full)
  BY <1>1, <1>2, <1>3, <1>4, <1>5, <1>7, <1>8 DEF Consecutive
<1> QED
  BY <1>0, <1>1, <1>6, <1>9

\* The latest report comes to the end of the queue.
LEMMA PushedFacts ==
  ASSUME NEW s \in StreamStates, NEW report \in Nat, Ordered(s), report = Latest(s) + 1
  PROVE  /\ Pushed(s, report) \in StreamStates
         /\ Ordered(Pushed(s, report))
         /\ Latest(Pushed(s, report)) = report
<1> DEFINE at_limit == Len(s.queue) >= QueueCapacity
           new == Queued(s.queue, report)
           r == Pushed(s, report)
<1>1. /\ s.queue \in Seq(Nat) /\ s.last \in Nat /\ s.full \in BOOLEAN
      /\ s.wakers \in SUBSET Callers
  BY DEF StreamStates
<1>2. Consecutive(s.queue, Len(s.queue), s.last, s.full)
  BY <1>1, OrderedFacts
<1>3. report = (IF s.queue = <<>> THEN s.last ELSE s.queue[Len(s.queue)]) + 1
  BY DEF Latest
<1>4. r = [s EXCEPT !.queue = new, !.wakers = {}, !.full = s.full \/ at_limit]
  BY DEF Pushed, Queued
<1>5. /\ new \in Seq(Nat) /\ new # <<>> /\ new[Len(new)] = report
      /\ Consecutive(new, Len(new), s.last, s.full \/ at_limit)
  BY <1>1, <1>2, <1>3, QueuePushed
<1>6. (s.full \/ at_limit) \in BOOLEAN
  OBVIOUS
<1> HIDE DEF at_limit, new
<1>7. /\ r.queue = new /\ r.last = s.last /\ r.full = (s.full \/ at_limit)
      /\ r \in StreamStates
  BY <1>1, <1>4, <1>5, <1>6 DEF StreamStates
<1> HIDE DEF r
<1>8. Ordered(r)
  BY <1>5, <1>7, OrderedFacts
<1>9. Latest(r) = report
  BY <1>5, <1>7 DEF Latest
<1> QED
  BY <1>7, <1>8, <1>9 DEF r

\* The oldest report leaves, and is the last one read.
LEMMA PoppedFacts ==
  ASSUME NEW s \in StreamStates, Ordered(s), s.queue # <<>>
  PROVE  /\ Popped(s) \in StreamStates
         /\ Ordered(Popped(s))
         /\ Latest(Popped(s)) = Latest(s)
         /\ Popped(s).wakers = s.wakers
<1>1. s.queue \in Seq(Nat) /\ s.last \in Nat /\ s.full \in BOOLEAN
  BY DEF StreamStates
<1>2. Consecutive(s.queue, Len(s.queue), s.last, s.full)
  BY <1>1, OrderedFacts
<1>3. /\ Tail(s.queue) \in Seq(Nat) /\ Head(s.queue) \in Nat
      /\ Consecutive(Tail(s.queue), Len(Tail(s.queue)), Head(s.queue), s.full)
      /\ s.queue[Len(s.queue)] =
           IF Tail(s.queue) = <<>> THEN Head(s.queue)
           ELSE Tail(s.queue)[Len(Tail(s.queue))]
  BY <1>1, <1>2, QueuePopped
<1> DEFINE r == Popped(s)
<1>4. /\ r.queue = Tail(s.queue) /\ r.last = Head(s.queue) /\ r.wakers = s.wakers
      /\ r.full = s.full /\ r \in StreamStates
  BY <1>3 DEF Popped, StreamStates
<1> HIDE DEF r
<1>5. Ordered(r)
  BY <1>3, <1>4, OrderedFacts
<1>6. Latest(r) = Latest(s)
  BY <1>3, <1>4 DEF Latest
<1> QED
  BY <1>4, <1>5, <1>6 DEF r

\* A waker more changes no report.
LEMMA ParkedFacts ==
  ASSUME NEW s \in StreamStates, NEW c \in Callers, Ordered(s)
  PROVE  /\ Parked(s, c) \in StreamStates
         /\ Ordered(Parked(s, c))
         /\ Latest(Parked(s, c)) = Latest(s)
         /\ Parked(s, c).queue = s.queue
         /\ Parked(s, c).wakers = s.wakers \cup {c}
BY DEF Parked, StreamStates, Ordered, Latest

\* A stream starts with the reports to come.
LEMMA FreshFacts ==
  ASSUME sent \in Nat
  PROVE  Fresh \in StreamStates /\ Ordered(Fresh) /\ Latest(Fresh) = sent
         /\ Fresh.queue = <<>>
BY WebAssumption DEF Fresh, StreamStates, Ordered, Latest, WebAssumption

\* The calls of a backend do not touch its reads.
LEMMA NextReads ==
  ASSUME DiscoveryInv, SessionInv, Next
  PROVE  /\ backend' = backend
         /\ \A c \in Callers : (pc'[c] = "reading") <=> (pc[c] = "reading")
<1>0. pc \in [Callers -> Places]
  BY DEF SessionInv, SessionTypes
<1>1. CASE Discover
  BY <1>1, HandleStays DEF Discover
<1>2. CASE Told
  BY <1>2, TaskWorld DEF Told, discovery, world
<1>3. ASSUME NEW c \in Callers, System(c) \/ Task(c)
      PROVE  /\ backend' = backend
             /\ \A d \in Callers : (pc'[d] = "reading") <=> (pc[d] = "reading")
  <2>1. backend' = backend
    BY <1>3, TaskFrames, TaskWorld DEF Task, Begin
  <2>2. pc' = pc \/ (pc[c] # "reading" /\ \E p \in Places \ {"reading"} : pc' = [pc EXCEPT ![c] = p])
    <3>1. CASE System(c)
      BY <3>1 DEF System, Carry, Refuse, Cancelled
    <3>2. CASE Begin(c) \/ Lock(c) \/ Submit(c)
      BY <3>2 DEF Begin, Lock, Submit, Places
    <3>3. CASE Check(c)
      BY <3>3 DEF Check, Ends, Places
    <3>4. CASE Again(c) \/ Return(c)
      BY <3>4 DEF Again, Return, Ends, Places
    <3>5. CASE TimeOut(c) \/ CancelIoEx(c) \/ Reap(c)
      BY <3>5 DEF TimeOut, CancelIoEx, Reap, Ends, Places
    <3> QED
      BY <1>3, <3>1, <3>2, <3>3, <3>4, <3>5 DEF Task
  <2> QED
    BY <1>0, <2>1, <2>2
<1> QED
  BY <1>1, <1>2, <1>3 DEF Next

\* A step that leaves the streams alone, and gives nobody a read that waits.
LEMMA StreamsStay ==
  ASSUME WebInv, UNCHANGED <<streams, sent>>,
         stream' = stream \/ stream' = None,
         reading' \in [Callers -> Nat \cup {None}],
         awake' \subseteq Callers,
         promise' \in {"none", "open", "close"}, promise' # "none" => backend' = "web",
         \A c \in Callers :
           reading'[c] # None =>
             /\ pc'[c] = "reading" /\ pc[c] = "reading" /\ reading'[c] = reading[c]
             /\ c \in awake => c \in awake'
  PROVE  WebInv'
<1>0. WebTypes /\ \A n \in DOMAIN streams : Ordered(streams[n]) /\ Owed(n)
  BY OrderParts DEF WebInv
<1>1. WebTypes'
  BY <1>0 DEF WebTypes
<1>2. ASSUME NEW n \in DOMAIN streams PROVE Owed(n)'
  <2>1. None \notin Nat /\ n \in Nat
    BY <1>0, WebAssumption DEF WebAssumption, WebTypes
  <2> QED
    BY <1>0, <2>1 DEF Owed, Waits
<1>3. ASSUME NEW n \in DOMAIN streams PROVE Ordered(streams'[n])
  BY <1>0
<1>4. WebReadsInOrder'
  BY <1>2, <1>3 DEF WebReadsInOrder, Ordered, Owed
<1>5. stream' # None => Latest(streams'[stream']) = sent'
  BY DEF WebInv
<1> QED
  BY <1>1, <1>4, <1>5 DEF WebInv

\* A read begins before it has a stream, and ends with its share given up.
LEMMA ReadKnows ==
  ASSUME SessionInv, WebInv, NEW c \in Callers, Read(c) \/ DropRead(c)
  PROVE  WebInv'
<1>0. WebTypes /\ SessionTypes
  BY DEF WebInv, SessionInv
<1>1. backend' = backend /\ UNCHANGED <<promise, stream, streams, sent>>
  BY DEF Read, DropRead, discovery, world
<1>2. CASE Read(c)
  <2>1. /\ reading' = reading /\ awake' = awake \cup {c} /\ pc[c] = "idle"
        /\ pc' = [pc EXCEPT ![c] = "reading"]
    BY <1>2 DEF Read
  <2>2. \A d \in Callers :
          reading'[d] # None =>
            /\ pc'[d] = "reading" /\ pc[d] = "reading" /\ reading'[d] = reading[d]
            /\ d \in awake => d \in awake'
    BY <1>0, <2>1 DEF WebTypes, SessionTypes
  <2> QED
    BY <1>0, <1>1, <2>1, <2>2, StreamsStay DEF WebTypes
<1>3. CASE DropRead(c)
  <2>1. /\ reading' = [reading EXCEPT ![c] = None] /\ awake' = awake \ {c}
        /\ pc' = [pc EXCEPT ![c] = "idle"]
    BY <1>3 DEF DropRead
  <2>2. reading' \in [Callers -> Nat \cup {None}]
    BY <1>0, <2>1 DEF WebTypes
  <2>3. \A d \in Callers :
          reading'[d] # None =>
            /\ pc'[d] = "reading" /\ pc[d] = "reading" /\ reading'[d] = reading[d]
            /\ d \in awake => d \in awake'
    BY <1>0, <2>1 DEF WebTypes, SessionTypes
  <2> QED
    BY <1>0, <1>1, <2>1, <2>2, <2>3, StreamsStay DEF WebTypes
<1> QED
  BY <1>2, <1>3

\* Opening, closing and their promises change no stream.
LEMMA DeviceKnows ==
  ASSUME WebInv, OpenDevice \/ CloseDevice \/ Settle
  PROVE  WebInv'
<1>0. WebTypes
  BY DEF WebInv
<1>1. /\ UNCHANGED <<pc, streams, reading, awake, sent>> /\ backend' = backend
      /\ stream' = stream \/ stream' = None
      /\ promise' \in {"none", "open", "close"} /\ (promise' # "none" => backend = "web")
  BY DEF OpenDevice, CloseDevice, Settle, Browser, discovery, world
<1> QED
  BY <1>0, <1>1, StreamsStay DEF WebTypes

\* A step of a backend changes no stream.
LEMMA OthersRead ==
  ASSUME DiscoveryInv, SessionInv, WebInv, Next, UNCHANGED web
  PROVE  WebInv'
<1>0. WebTypes
  BY DEF WebInv
<1>1. /\ backend' = backend
      /\ \A c \in Callers : (pc'[c] = "reading") <=> (pc[c] = "reading")
  BY NextReads
<1>2. UNCHANGED <<promise, stream, streams, reading, awake, sent>>
  BY DEF web
<1> QED
  BY <1>0, <1>1, <1>2, StreamsStay DEF WebTypes

\* A report comes to the stream that listens, and wakes those that wait there.
LEMMA InputReportKnows ==
  ASSUME SessionInv, WebInv, InputReport
  PROVE  WebInv'
<1>0. WebTypes /\ \A n \in DOMAIN streams : Ordered(streams[n]) /\ Owed(n)
  BY OrderParts DEF WebInv
<1>1. /\ stream # None /\ sent' = sent + 1
      /\ streams' = [streams EXCEPT ![stream] = Pushed(streams[stream], sent + 1)]
      /\ awake' = awake \cup {c \in streams[stream].wakers : pc[c] = "reading"}
      /\ UNCHANGED <<pc, promise, stream, reading>> /\ backend' = backend
  BY DEF InputReport, transfers, discovery, world
<1>2. /\ stream \in DOMAIN streams /\ streams[stream] \in StreamStates /\ sent \in Nat
      /\ Ordered(streams[stream]) /\ sent + 1 = Latest(streams[stream]) + 1
      /\ streams \in Seq(StreamStates) /\ stream = Len(streams)
  BY <1>0, <1>1 DEF WebTypes, WebInv
<1> DEFINE s == Pushed(streams[stream], sent + 1)
<1>3. s \in StreamStates /\ Ordered(s) /\ Latest(s) = sent + 1
  BY <1>2, PushedFacts
<1> HIDE DEF s
<1>4. /\ streams' \in Seq(StreamStates) /\ DOMAIN streams' = DOMAIN streams
      /\ Len(streams') = Len(streams)
      /\ streams'[stream] = s
      /\ \A n \in DOMAIN streams : n # stream => streams'[n] = streams[n]
  BY <1>1, <1>2, <1>3 DEF s
<1>5. streams[stream].wakers \subseteq Callers
  BY <1>2 DEF StreamStates
<1>6. WebTypes'
  <2>1. awake' \subseteq Callers /\ sent' \in Nat
    BY <1>0, <1>1, <1>2, <1>5 DEF WebTypes
  <2> QED
    BY <1>0, <1>1, <1>2, <1>4, <2>1 DEF WebTypes
<1>7. ASSUME NEW n \in DOMAIN streams PROVE Owed(n)'
  <2>1. CASE n # stream
    BY <1>0, <1>1, <1>4, <2>1 DEF Owed, Waits
  <2>2. CASE n = stream
    <3>1. ASSUME NEW c \in Callers, Waits(c, n) PROVE c \in awake'
      BY <1>0, <1>1, <2>2, <3>1 DEF Owed, Waits
    <3> QED
      BY <1>1, <3>1 DEF Owed, Waits
  <2> QED
    BY <2>1, <2>2
<1>8. ASSUME NEW n \in DOMAIN streams PROVE Ordered(streams'[n])
  BY <1>0, <1>3, <1>4
<1>9. WebReadsInOrder'
  BY <1>4, <1>7, <1>8 DEF WebReadsInOrder, Ordered, Owed
<1> QED
  BY <1>1, <1>3, <1>4, <1>6, <1>9 DEF WebInv

\* The streams as a poll finds them, the one it starts included.
Now(c) == IF reading[c] = None THEN Started ELSE streams

Current(c) == IF reading[c] = None /\ stream = None THEN Len(streams) + 1 ELSE stream

\* A poll finds its stream, or starts one where none is current.
LEMMA NowFacts ==
  ASSUME WebInv, NEW c \in Callers
  PROVE  /\ Now(c) \in Seq(StreamStates)
         /\ Shared(c) \in DOMAIN Now(c) /\ Shared(c) \in Nat
         /\ DOMAIN streams \subseteq DOMAIN Now(c)
         /\ \A n \in DOMAIN streams : Now(c)[n] = streams[n]
         /\ \A n \in DOMAIN Now(c) : Ordered(Now(c)[n])
         /\ Current(c) # None =>
              /\ Current(c) = Len(Now(c)) /\ Current(c) \in DOMAIN Now(c)
              /\ Latest(Now(c)[Current(c)]) = sent
         /\ \A n \in DOMAIN streams : Current(c) = n => stream = n
<1>0. WebTypes /\ \A n \in DOMAIN streams : Ordered(streams[n])
  BY OrderParts DEF WebInv
<1>1. /\ streams \in Seq(StreamStates) /\ sent \in Nat /\ Len(streams) \in Nat
      /\ stream # None => /\ stream = Len(streams) /\ stream \in DOMAIN streams
                          /\ Latest(streams[stream]) = sent
      /\ reading[c] # None => reading[c] \in DOMAIN streams
      /\ DOMAIN streams = 1..Len(streams)
  BY <1>0 DEF WebTypes, WebInv
<1>2. CASE reading[c] = None /\ stream = None
  <2>1. /\ Now(c) = Append(streams, Fresh)
        /\ Shared(c) = Len(streams) + 1 /\ Current(c) = Len(streams) + 1
    BY <1>2 DEF Now, Started, Shared, Current
  <2>2. Fresh \in StreamStates /\ Ordered(Fresh) /\ Latest(Fresh) = sent
    BY <1>1, FreshFacts
  <2>3. /\ Now(c) \in Seq(StreamStates) /\ Len(Now(c)) = Len(streams) + 1
        /\ DOMAIN Now(c) = 1..(Len(streams) + 1)
        /\ Now(c)[Len(streams) + 1] = Fresh
        /\ \A n \in 1..Len(streams) : Now(c)[n] = streams[n]
    BY <1>1, <2>1, <2>2
  <2>4. \A n \in DOMAIN Now(c) : n \in DOMAIN streams \/ n = Len(streams) + 1
    BY <1>1, <2>3
  <2> QED
    BY <1>0, <1>1, <2>1, <2>2, <2>3, <2>4
<1>3. CASE ~(reading[c] = None /\ stream = None)
  <2>1. /\ Now(c) = streams /\ Current(c) = stream
        /\ Shared(c) = IF reading[c] # None THEN reading[c] ELSE stream
    BY <1>3 DEF Now, Started, Shared, Current
  <2>2. Shared(c) \in DOMAIN streams /\ Shared(c) \in Nat
    BY <1>1, <1>3, <2>1
  <2> QED
    BY <1>0, <1>1, <2>1, <2>2
<1> QED
  BY <1>2, <1>3

\* A poll reads the oldest report, or parks where the next one will find it.
LEMMA PollKnows ==
  ASSUME SessionInv, WebInv, NEW c \in Callers, Poll(c)
  PROVE  WebInv'
<1> DEFINE now == Now(c)
           n == Shared(c)
<1>0. /\ WebTypes /\ SessionTypes
      /\ \A m \in DOMAIN streams : Ordered(streams[m]) /\ Owed(m)
  BY OrderParts DEF WebInv, SessionInv
<1>1. /\ now \in Seq(StreamStates)
      /\ n \in DOMAIN now /\ n \in Nat
      /\ DOMAIN streams \subseteq DOMAIN now
      /\ \A m \in DOMAIN streams : now[m] = streams[m]
      /\ \A m \in DOMAIN now : Ordered(now[m])
      /\ Current(c) # None =>
           /\ Current(c) = Len(now) /\ Current(c) \in DOMAIN now
           /\ Latest(now[Current(c)]) = sent
      /\ \A m \in DOMAIN streams : Current(c) = m => stream = m
  BY NowFacts
<1>2. /\ c \in awake /\ awake' = awake \ {c} /\ stream' = Current(c)
      /\ backend' = backend /\ UNCHANGED <<promise, sent>>
      /\ pc[c] = "reading"
  BY DEF Poll, Current, discovery, world
<1>3. IF now[n].queue = <<>>
      THEN /\ streams' = [now EXCEPT ![n] = Parked(now[n], c)]
           /\ reading' = [reading EXCEPT ![c] = n]
           /\ pc' = pc
      ELSE /\ streams' = [now EXCEPT ![n] = Popped(now[n])]
           /\ reading' = [reading EXCEPT ![c] = None]
           /\ pc' = [pc EXCEPT ![c] = "idle"]
  BY DEF Poll, Now
<1> HIDE DEF now, n
<1>4. now[n] \in StreamStates /\ Ordered(now[n]) /\ None \notin Nat
  BY <1>1, WebAssumption DEF WebAssumption
<1> DEFINE s == streams'[n]
<1>5. /\ streams' \in Seq(StreamStates) /\ DOMAIN streams' = DOMAIN now
      /\ Len(streams') = Len(now)
      /\ Ordered(s) /\ Latest(s) = Latest(now[n]) /\ now[n].wakers \subseteq s.wakers
      /\ \A m \in DOMAIN now : m # n => streams'[m] = now[m]
      /\ now[n].queue = <<>> => s.queue = <<>> /\ c \in s.wakers
  <2>1. CASE now[n].queue = <<>>
    <3>1. Parked(now[n], c) \in StreamStates
      BY <1>4, ParkedFacts
    <3>2. /\ streams' \in Seq(StreamStates) /\ DOMAIN streams' = DOMAIN now
          /\ Len(streams') = Len(now) /\ s = Parked(now[n], c)
          /\ \A m \in DOMAIN now : m # n => streams'[m] = now[m]
      BY <1>1, <1>3, <2>1, <3>1
    <3> QED
      BY <1>4, <2>1, <3>2, ParkedFacts
  <2>2. CASE now[n].queue # <<>>
    <3>1. Popped(now[n]) \in StreamStates
      BY <1>4, <2>2, PoppedFacts
    <3>2. /\ streams' \in Seq(StreamStates) /\ DOMAIN streams' = DOMAIN now
          /\ Len(streams') = Len(now) /\ s = Popped(now[n])
          /\ \A m \in DOMAIN now : m # n => streams'[m] = now[m]
      BY <1>1, <1>3, <2>2, <3>1
    <3> QED
      BY <1>4, <2>2, <3>2, PoppedFacts
  <2> QED
    BY <2>1, <2>2
<1> HIDE DEF s
<1>6. /\ reading' \in [Callers -> Nat \cup {None}]
      /\ \A d \in Callers \ {c} : reading'[d] = reading[d] /\ pc'[d] = pc[d]
      /\ now[n].queue = <<>> => reading'[c] = n /\ pc'[c] = "reading"
      /\ now[n].queue # <<>> => reading'[c] = None /\ pc'[c] = "idle"
  BY <1>0, <1>1, <1>2, <1>3 DEF WebTypes, SessionTypes
<1>7. WebTypes'
  <2>1. ASSUME NEW d \in Callers, reading'[d] # None
        PROVE  reading'[d] \in DOMAIN streams' /\ pc'[d] = "reading"
    <3>1. CASE d = c
      BY <1>1, <1>5, <1>6, <2>1, <3>1
    <3>2. CASE d # c
      <4>1. reading'[d] = reading[d] /\ pc'[d] = pc[d]
        BY <1>6, <3>2
      <4>2. reading[d] \in DOMAIN streams /\ pc[d] = "reading"
        BY <1>0, <2>1, <4>1 DEF WebTypes
      <4> QED
        BY <1>1, <1>5, <4>1, <4>2
    <3> QED
      BY <3>1, <3>2
  <2>2. stream' # None => stream' = Len(streams') /\ stream' \in DOMAIN streams'
    BY <1>1, <1>2, <1>5
  <2> QED
    BY <1>0, <1>2, <1>5, <1>6, <2>1, <2>2 DEF WebTypes
<1>8. ASSUME NEW m \in DOMAIN streams', NEW d \in Callers, Waits(d, m)'
      PROVE  /\ streams'[m].queue # <<>> => d \in awake'
             /\ (d \notin awake' /\ stream' = m) => d \in streams'[m].wakers
  <2>0. pc'[d] = "reading" /\ reading'[d] = m /\ m \in Nat
    BY <1>5, <1>8 DEF Waits
  <2>1. CASE d = c
    <3>1. now[n].queue = <<>> /\ m = n
      BY <1>4, <1>6, <2>0, <2>1
    <3> QED
      BY <1>5, <2>1, <3>1 DEF s
  <2>2. CASE d # c
    <3>1. Waits(d, m) /\ m \in DOMAIN streams
      BY <1>0, <1>4, <1>6, <2>0, <2>2 DEF Waits, WebTypes
    <3>2. /\ streams[m].queue # <<>> => d \in awake
          /\ (d \notin awake /\ stream = m) => d \in streams[m].wakers
      BY <1>0, <3>1 DEF Owed
    <3>3. /\ now[m] = streams[m] /\ (stream' = m => stream = m)
          /\ d \in awake => d \in awake'
      BY <1>1, <1>2, <2>2, <3>1
    <3>4. streams'[m].queue # <<>> => now[m].queue # <<>>
      BY <1>1, <1>5, <3>1 DEF s
    <3>5. now[m].wakers \subseteq streams'[m].wakers
      BY <1>1, <1>5, <3>1 DEF s
    <3> QED
      BY <3>2, <3>3, <3>4, <3>5
  <2> QED
    BY <2>1, <2>2
<1>9. WebReadsInOrder'
  <2>1. \A m \in DOMAIN streams' : Ordered(streams'[m])
    BY <1>1, <1>5 DEF s
  <2> QED
    BY <1>8, <2>1 DEF WebReadsInOrder, Ordered
<1>10. stream' # None => Latest(streams'[stream']) = sent'
  BY <1>1, <1>2, <1>5 DEF s
<1> QED
  BY <1>7, <1>9, <1>10 DEF WebInv

-----------------------------------------------------------------------------
(* The session *)

\* Inv holds at first.
LEMMA InitWeb ==
  WebInit => Inv
<1> SUFFICES ASSUME WebInit PROVE Inv
  OBVIOUS
<1>1. DiscoveryInv /\ SessionInv
  BY InitKnows, InitSession DEF WebInit, Init
<1>2. WebInv
  BY DEF WebInit, WebInv, WebTypes, WebReadsInOrder
<1> QED
  BY <1>1, <1>2 DEF Inv

\* Inv is inductive.
LEMMA InvKept ==
  Inv /\ [WebNext]_<<vars, web>> => Inv'
<1> SUFFICES ASSUME Inv, [WebNext]_<<vars, web>> PROVE Inv'
  OBVIOUS
<1>0. DiscoveryInv /\ SessionInv /\ WebInv /\ WebTypes
  BY DEF Inv, WebInv
<1>1. DiscoveryInv' /\ SessionInv'
  BY <1>0, SessionKeepsDiscovery, SessionKnows
<1>2. CASE UNCHANGED <<vars, web>>
  <2>1. UNCHANGED <<pc, promise, stream, streams, reading, awake, sent>> /\ backend' = backend
    BY <1>2 DEF vars, web, transfers, discovery, world
  <2> QED
    BY <1>0, <1>1, <2>1, StreamsStay DEF WebTypes, Inv
<1>3. CASE WebNext
  <2>1. WebInv'
    BY <1>0, <1>3, OthersRead, DeviceKnows, InputReportKnows, ReadKnows, PollKnows
       DEF WebNext
  <2> QED
    BY <1>1, <2>1 DEF Inv
<1> QED
  BY <1>2, <1>3

\* Inv holds in every state.
LEMMA InvAlways ==
  WebSpec => []Inv
BY InitWeb, InvKept, PTL DEF WebSpec

\* Every task is somewhere in its call, with the request, the lock and the buffers
\* of that place, on every backend and however long the device stays: WinDevice::write,
\* NusbDevice::write, MacDevice::write, HidrawDevice::write and HidDevice of the web.
THEOREM TypeCorrect ==
  WebSpec => []TypeOK
<1>1. Inv => TypeOK
  <2> SUFFICES ASSUME Inv PROVE TypeOK
    OBVIOUS
  <2>1. SessionInv /\ WebTypes
    BY DEF Inv, WebInv
  <2>2. ASSUME NEW c \in Callers
        PROVE  /\ pc[c] \in {"idle", "check", "lock", "submit", "wait", "cancel", "reap", "reading"}
               /\ (req[c] # None) = (pc[c] \in {"wait", "cancel", "reap"})
               /\ (call[c].result = None /\ call[c].op # "none")
                    = (pc[c] \notin {"idle", "reading"})
               /\ (holder = c) = (Locks(c) /\ pc[c] \in {"submit", "wait", "cancel", "reap"})
               /\ reading[c] # None => reading[c] \in DOMAIN streams /\ pc[c] = "reading"
    BY <2>1 DEF SessionInv, SessionTypes, Places, TaskInv, Waiting, WebTypes
  <2> QED
    BY <2>1, <2>2 DEF TypeOK, SessionInv, SessionTypes, WebTypes
<1> QED
  BY <1>1, InvAlways, PTL

\* Reads of the browser get a stream's reports in order and lose none that the
\* queue had room for, and no reader sleeps on a report: InputReportStream and
\* ReadFuture::poll of src/backend/webhid.rs.
THEOREM WebReadsAlwaysInOrder ==
  WebSpec => []WebReadsInOrder
<1>1. Inv => WebReadsInOrder
  BY DEF Inv, WebInv
<1> QED
  BY <1>1, InvAlways, PTL

-----------------------------------------------------------------------------
(* The contract *)

\* Zeros at the end do not matter to the first byte.
LEMMA TailOfPadded ==
  ASSUME NEW data \in Seq(Nat), data # <<>>, NEW k \in Nat
  PROVE  /\ data \o C!Zeros(k) \in Seq(Nat)
         /\ (data \o C!Zeros(k))[1] = data[1]
         /\ Tail(data \o C!Zeros(k)) = Tail(data) \o C!Zeros(k)
<1> DEFINE z == C!Zeros(k)
           padded == data \o z
           tail == Tail(data)
<1>1. z \in Seq(Nat) /\ Len(z) = k
  BY ZeroFacts
<1> HIDE DEF z
<1>2. /\ padded \in Seq(Nat) /\ Len(padded) = Len(data) + k
      /\ \A i \in 1..(Len(data) + k) :
           padded[i] = IF i <= Len(data) THEN data[i] ELSE z[i - Len(data)]
  BY <1>1, ConcatProperties
<1>3. /\ tail \in Seq(Nat) /\ Len(tail) = Len(data) - 1 /\ Len(data) \in Nat /\ Len(data) > 0
      /\ \A i \in 1..(Len(data) - 1) : tail[i] = data[i + 1]
  OBVIOUS
<1>4. padded # <<>>
  BY <1>2, <1>3
<1> HIDE DEF padded
<1>5. /\ Tail(padded) \in Seq(Nat) /\ Len(Tail(padded)) = Len(data) + k - 1
      /\ \A i \in 1..(Len(data) + k - 1) : Tail(padded)[i] = padded[i + 1]
  BY <1>2, <1>4, HeadTailProperties
<1> HIDE DEF tail
<1>6. /\ tail \o z \in Seq(Nat) /\ Len(tail \o z) = Len(data) - 1 + k
      /\ \A i \in 1..(Len(data) - 1 + k) :
           (tail \o z)[i] = IF i <= Len(data) - 1 THEN tail[i] ELSE z[i - (Len(data) - 1)]
  <2>1. /\ tail \o z \in Seq(Nat) /\ Len(tail \o z) = Len(tail) + Len(z)
        /\ \A i \in 1..(Len(tail) + Len(z)) :
             (tail \o z)[i] = IF i <= Len(tail) THEN tail[i] ELSE z[i - Len(tail)]
    BY <1>1, <1>3, ConcatProperties
  <2>2. Len(tail) = Len(data) - 1 /\ Len(z) = k
    BY <1>1, <1>3
  <2> QED
    BY <2>1, <2>2
<1>7. ASSUME NEW i \in 1..(Len(data) + k - 1) PROVE Tail(padded)[i] = (tail \o z)[i]
  <2>1. /\ i + 1 \in 1..(Len(data) + k) /\ i \in 1..(Len(data) - 1 + k)
        /\ (i + 1) - Len(data) = i - (Len(data) - 1)
    BY <1>3
  <2>2. Tail(padded)[i] = IF i + 1 <= Len(data) THEN data[i + 1] ELSE z[i - (Len(data) - 1)]
    BY <1>2, <1>5, <2>1
  <2>3. (tail \o z)[i] = IF i <= Len(data) - 1 THEN tail[i] ELSE z[i - (Len(data) - 1)]
    BY <1>6, <2>1
  <2>4. i <= Len(data) - 1 => tail[i] = data[i + 1]
    BY <1>3
  <2>5. i + 1 <= Len(data) <=> i <= Len(data) - 1
    BY <1>3
  <2> QED
    BY <2>2, <2>3, <2>4, <2>5
<1>8. Tail(padded) = tail \o z
  <2>1. Len(Tail(padded)) = Len(tail \o z)
    BY <1>3, <1>5, <1>6
  <2>2. \A i \in 1..Len(Tail(padded)) : Tail(padded)[i] = (tail \o z)[i]
    BY <1>5, <1>7
  <2> QED
    BY <1>5, <1>6, <2>1, <2>2, SeqEqual
<1>9. padded[1] = data[1]
  BY <1>2, <1>3
<1> QED
  BY <1>2, <1>8, <1>9 DEF padded, tail, z

\* Layers below take the 0 in place of a report ID off what a backend hands over:
\* the report is what the contract says, with as many zeros as were put on.
LEMMA PayloadFacts ==
  ASSUME NEW data \in Seq(Nat), data # <<>>
  PROVE  /\ PayloadAfterReportId(data) = C!Report(data)
         /\ C!Report(data) = C!Report(data) \o C!Zeros(0)
         /\ \A k \in Nat :
              PayloadAfterReportId(data \o C!Zeros(k)) = C!Report(data) \o C!Zeros(k)
         /\ <<data[1]>> \o Tail(data) = data
<1>1. PayloadAfterReportId(data) = C!Report(data)
  BY DEF PayloadAfterReportId, C!Report
<1>2. C!Report(data) \in Seq(Nat)
  BY DEF C!Report
<1>3. C!Zeros(0) = <<>>
  <2>1. C!Zeros(0) \in Seq(Nat) /\ Len(C!Zeros(0)) = 0
    BY ZeroFacts
  <2> QED
    BY <2>1, EmptySeq
<1>4. C!Report(data) \o <<>> = C!Report(data)
  BY <1>2, ConcatEmptySeq
<1>5. ASSUME NEW k \in Nat
      PROVE  PayloadAfterReportId(data \o C!Zeros(k)) = C!Report(data) \o C!Zeros(k)
  BY TailOfPadded DEF PayloadAfterReportId, C!Report
<1>6. <<data[1]>> \o Tail(data) = data
  OBVIOUS
<1> QED
  BY <1>1, <1>3, <1>4, <1>5, <1>6

\* The report of a call, with some zeros after it.
Carries(report, data) ==
  \E k \in 0..ReportLen : report = C!Report(data) \o C!Zeros(k)

\* A report padded or not, its 0 taken off, is the report of the call.
LEMMA PadCarries ==
  ASSUME NEW data \in Seq(Nat), data # <<>>
  PROVE  /\ Carries(PayloadAfterReportId(data), data)
         /\ Short(data) => Carries(PayloadAfterReportId(Pad(data)), data)
<1>1. ReportLen \in Nat /\ Len(data) \in Nat
  BY SessionAssumption DEF SessionAssumption
<1>2. Carries(PayloadAfterReportId(data), data)
  <2>1. 0 \in 0..ReportLen
    BY <1>1
  <2>2. PayloadAfterReportId(data) = C!Report(data) \o C!Zeros(0)
    BY PayloadFacts
  <2> QED
    BY <2>1, <2>2 DEF Carries
<1>3. ASSUME Short(data) PROVE Carries(PayloadAfterReportId(Pad(data)), data)
  <2>1. ReportLen - Len(data) \in 0..ReportLen
    BY <1>1, <1>3 DEF Short
  <2>2. ReportLen - Len(data) \in Nat
    BY <2>1
  <2>3. PayloadAfterReportId(Pad(data)) = C!Report(data) \o C!Zeros(ReportLen - Len(data))
    BY <2>2, PayloadFacts DEF Pad
  <2> QED
    BY <2>1, <2>3 DEF Carries
<1> QED
  BY <1>2, <1>3

\* Whatever layout the backend uses, the device gets the report of the call.
LEMMA WireFacts ==
  ASSUME DiscoveryInv, SessionInv, NEW c \in Callers, pc[c] \in Waiting, Sends(call[c].op)
  PROVE  Carries(OnWire(c), call[c].data)
<1> DEFINE data == call[c].data
           bytes == IF req[c].staged THEN staging ELSE req[c].bytes
<1>1. /\ backend \in {"hidraw", "nusb", "macos", "windows", "web"}
      /\ data \in Seq(Nat) /\ data # <<>> /\ RequestInv(c)
      /\ req[c].staged \in BOOLEAN
  BY TaskFacts DEF TaskInv, Waiting, SystemRequests
<1>2. /\ req[c].staged => Short(data) /\ bytes = Pad(data) /\ backend = "windows"
      /\ ~req[c].staged => bytes = Bytes(backend, call[c].op, data)
  BY <1>1 DEF RequestInv
<1>3. OnWire(c) = CASE backend \in {"hidraw", "windows"} -> PayloadAfterReportId(bytes)
                    [] backend \in {"nusb", "macos"} -> bytes
                    [] backend = "web" ->
                         IF data[1] = 0 THEN bytes ELSE <<data[1]>> \o bytes
  BY DEF OnWire
<1> HIDE DEF bytes, data
<1>4. /\ Carries(PayloadAfterReportId(data), data)
      /\ Short(data) => Carries(PayloadAfterReportId(Pad(data)), data)
  BY <1>1, PadCarries
<1>5. CASE backend = "hidraw"
  BY <1>2, <1>3, <1>4, <1>5 DEF Bytes, HidrawBytes, data
<1>6. CASE backend \in {"nusb", "macos"}
  BY <1>1, <1>2, <1>3, <1>4, <1>6 DEF Bytes, NusbBytes, MacBytes, data
<1>7. CASE backend = "windows"
  <2>1. bytes = data \/ (Short(data) /\ bytes = Pad(data))
    BY <1>2, <1>7 DEF Bytes, WinFeatureBytes
  <2>2. OnWire(c) = PayloadAfterReportId(bytes)
    BY <1>3, <1>7
  <2> QED
    BY <1>4, <2>1, <2>2 DEF data
<1>8. CASE backend = "web"
  <2>1. bytes = Tail(data)
    BY <1>1, <1>2, <1>8 DEF Bytes, WebBytes
  <2>2. <<data[1]>> \o Tail(data) = data
    BY <1>1, PayloadFacts
  <2>3. OnWire(c) = PayloadAfterReportId(data)
    BY <1>3, <1>8, <2>1, <2>2 DEF PayloadAfterReportId
  <2> QED
    BY <1>4, <2>3 DEF data
<1> QED
  BY <1>1, <1>5, <1>6, <1>7, <1>8

\* What the system carries arrives, as the contract says.
LEMMA CarryArrives ==
  ASSUME DiscoveryInv, SessionInv, NEW c \in Callers, Carry(c)
  PROVE  C!Arrive(c)
<1>1. /\ Pending(c) /\ ~Gone
      /\ call' = [call EXCEPT ![c].sent = TRUE]
      /\ wire' = IF Sends(call[c].op)
                 THEN [kind |-> C!Kind(call[c].op), report |-> OnWire(c)] ELSE wire
      /\ UNCHANGED <<discovery, opened, told>>
  BY DEF Carry
<1>2. pc[c] \in Waiting /\ call[c].sent = FALSE /\ call[c].data # <<>>
  BY <1>1, PendingFacts
<1>3. C!Open(c)
  BY <1>2 DEF SessionInv, TaskInv, Waiting, C!Open
<1>4. UNCHANGED Gone
  BY <1>1, TaskWorld DEF Gone
<1>5. CASE Sends(call[c].op)
  <2>1. PICK k \in 0..ReportLen : OnWire(c) = C!Report(call[c].data) \o C!Zeros(k)
    BY <1>2, <1>5, WireFacts DEF Carries
  <2>2. wire' = [kind |-> C!Kind(call[c].op),
                 report |-> C!Report(call[c].data) \o C!Zeros(k)]
    BY <1>1, <1>5, <2>1
  <2> QED
    BY <1>1, <1>2, <1>3, <1>4, <1>5, <2>2 DEF C!Arrive, Sends
<1>6. CASE ~Sends(call[c].op)
  <2>1. wire' = wire
    BY <1>1, <1>6
  <2> QED
    BY <1>1, <1>2, <1>3, <1>4, <1>6, <2>1 DEF C!Arrive, Sends
<1> QED
  BY <1>5, <1>6

\* A call begins for the contract too.
LEMMA BeginBegins ==
  ASSUME SessionInv, NEW c \in Callers, Begin(c)
  PROVE  C!Begin(c)
<1>1. ~C!Open(c)
  BY DEF Begin, SessionInv, TaskInv, C!Open
<1>2. UNCHANGED <<wire, Gone>>
  BY DEF Begin, Gone
<1>3. OpsOf \subseteq C!Ops
  BY DEF OpsOf
<1> DEFINE id == IF handle.device.numbered THEN 1 ELSE 0
<1>4. PICK op \in OpsOf, data \in {<<>>} \cup {<<id>> \o b : b \in Bodies} :
        call' = [call EXCEPT ![c] = [op |-> op, data |-> data, sent |-> FALSE,
                                     result |-> None]]
  BY DEF Begin
<1>5. data \in Buffers
  <2>1. id \in {0, 1}
    OBVIOUS
  <2> HIDE DEF id
  <2>2. CASE data = <<>>
    BY <2>2 DEF Buffers
  <2>3. CASE data # <<>>
    <3>1. PICK b \in Bodies : data = <<id>> \o b
      BY <1>4, <2>3
    <3>2. <<id>> \o b \in {<<i>> \o x : i \in {0, 1}, x \in Bodies}
      BY <2>1
    <3> QED
      BY <3>1, <3>2 DEF Buffers
  <2> QED
    BY <2>2, <2>3
<1>6. \E o \in C!Ops, d \in Buffers :
        call' = [call EXCEPT ![c] = [op |-> o, data |-> d, sent |-> FALSE, result |-> None]]
  BY <1>3, <1>4, <1>5
<1> QED
  BY <1>1, <1>2, <1>6 DEF C!Begin

\* A result of a call on its way that the contract allows.
LEMMA EndReturns ==
  ASSUME DiscoveryInv, SessionInv, NEW c \in Callers, pc[c] \in {"check"} \cup Waiting,
         NEW result \in Results, Ends(c, result),
         result \in C!Error(c) \/ (call[c].sent /\ C!Success(c, result)),
         UNCHANGED <<wire, discovery, opened, told>>
  PROVE  C!Return(c)
<1>1. call'[c].result = result /\ result # None
  BY EndsFacts DEF SessionInv
<1>2. C!Open(c)
  BY DEF SessionInv, TaskInv, Waiting, C!Open
<1>3. UNCHANGED <<wire, Gone>>
  BY TaskWorld DEF Gone
<1> QED
  BY <1>1, <1>2, <1>3 DEF C!Return, Ends

\* Faithful is what the contract calls a success.
LEMMA SuccessFacts ==
  ASSUME DiscoveryInv, SessionInv, NEW c \in Callers, pc[c] \in Waiting,
         req[c].status = "done"
  PROVE  C!Success(c, Outcome(c))
<1> DEFINE data == call[c].data
           body == Answer[C!Kind(call[c].op)]
<1>1. CASE call[c].op = "write"
  BY <1>1, OutcomeFacts DEF C!Success
<1>2. CASE call[c].op = "send_feature"
  BY <1>2, OutcomeFacts DEF C!Success
<1>3. CASE call[c].op \notin {"write", "send_feature"}
  <2>1. Faithful(Outcome(c), data, body)
    BY <1>3, OutcomeFacts
  <2>2. C!Holds(Outcome(c).buf, call[c].op, data, Outcome(c).n)
    BY <2>1 DEF Faithful, Full, C!Holds
  <2>3. Outcome(c).tag = "ok"
    BY <2>1 DEF Faithful
  <2> QED
    BY <1>3, <2>2, <2>3 DEF C!Success
<1> QED
  BY <1>1, <1>2, <1>3

\* A call returns only what the contract allows.
LEMMA ReturnReturns ==
  ASSUME DiscoveryInv, SessionInv, NEW c \in Callers, Return(c) \/ Reap(c)
  PROVE  C!Return(c)
<1>1. /\ pc[c] \in Waiting /\ UNCHANGED <<wire, discovery, opened, told>>
      /\ Ends(c, Outcome(c)) \/ Ends(c, Error("error"))
  BY DEF Return, Reap, Waiting
<1>2. RequestInv(c) /\ call[c].data # <<>>
  BY <1>1 DEF SessionInv, TaskInv
<1>3. Error("error") \in Results /\ Error("error") \in C!Error(c)
  BY <1>2, ErrorTyped DEF C!Error
<1>4. req[c].status = "disconnected" => Error("disconnected") \in C!Error(c)
  BY <1>2, ErrorTyped DEF C!Error, RequestInv
<1>5. CASE Ends(c, Outcome(c)) /\ req[c].status = "done"
  <2>1. Outcome(c) \in Results /\ call[c].sent /\ C!Success(c, Outcome(c))
    BY <1>1, <1>2, <1>5, OutcomeFacts, SuccessFacts DEF RequestInv
  <2> QED
    BY <1>1, <1>5, <2>1, EndReturns
<1>6. CASE Ends(c, Outcome(c)) /\ req[c].status # "done"
  <2>1. Outcome(c) \in Results /\ Outcome(c) \in C!Error(c)
    BY <1>1, <1>3, <1>4, <1>6, OutcomeFacts
  <2> QED
    BY <1>1, <1>6, <2>1, EndReturns
<1>7. CASE Ends(c, Error("error"))
  BY <1>1, <1>3, <1>7, EndReturns
<1> QED
  BY <1>1, <1>5, <1>6, <1>7

\* An early return is one the contract allows.
LEMMA CheckReturns ==
  ASSUME DiscoveryInv, SessionInv, NEW c \in Callers, Check(c)
  PROVE  C!Return(c) \/ UNCHANGED <<call, wire, Gone>>
<1>1. pc[c] = "check" /\ UNCHANGED <<wire, discovery, opened, told>> /\ (told => Gone)
  BY DEF Check, SessionInv
<1>2. CASE Ends(c, Error("invalid")) /\ call[c].data = <<>>
  <2>1. Error("invalid") \in Results /\ Error("invalid") \in C!Error(c)
    BY <1>2, ErrorTyped DEF C!Error
  <2> QED
    BY <1>1, <1>2, <2>1, EndReturns
<1>3. CASE Ends(c, Error("disconnected")) /\ call[c].data # <<>> /\ told
  <2>1. Error("disconnected") \in Results /\ Error("disconnected") \in C!Error(c)
    BY <1>1, <1>3, ErrorTyped DEF C!Error
  <2> QED
    BY <1>1, <1>3, <2>1, EndReturns
<1>4. CASE UNCHANGED call
  BY <1>1, <1>4, TaskWorld DEF Gone
<1> QED
  BY <1>2, <1>3, <1>4 DEF Check

\* The other steps are none of the contract's, but for a device that goes.
LEMMA StuttersElsewhere ==
  ASSUME UNCHANGED <<discovery, call, wire>>
  PROVE  UNCHANGED <<call, wire, Gone>>
BY DEF Gone, discovery, world

\* Of discovery, the contract sees a device that goes.
LEMMA DiscoverUnplugs ==
  ASSUME DiscoveryInv, Discover
  PROVE  C!Unplug \/ UNCHANGED <<call, wire, Gone>>
<1>1. /\ UNCHANGED <<call, wire>>
      /\ Gone => Gone'
  BY HandleStays DEF Discover, Gone
<1>2. Gone \in BOOLEAN /\ Gone' \in BOOLEAN
  BY DEF Gone
<1> QED
  BY <1>1, <1>2 DEF C!Unplug

\* A step of the session is a step of the contract, or none.
LEMMA StepImplements ==
  ASSUME DiscoveryInv, SessionInv, [WebNext]_<<vars, web>>
  PROVE  [C!Next]_(C!vars)
<1>1. CASE Discover
  BY <1>1, DiscoverUnplugs DEF C!Next, C!vars
<1>2. CASE Told
  BY <1>2, StuttersElsewhere DEF Told, C!vars
<1>3. ASSUME NEW c \in Callers, System(c) PROVE [C!Next]_(C!vars)
  <2>1. CASE Carry(c)
    BY <2>1, CarryArrives DEF C!Next
  <2>2. CASE Refuse(c) \/ Cancelled(c)
    BY <2>2, StuttersElsewhere DEF Refuse, Cancelled, C!vars
  <2> QED
    BY <1>3, <2>1, <2>2 DEF System
<1>4. ASSUME NEW c \in Callers, Task(c) PROVE [C!Next]_(C!vars)
  <2>1. CASE Begin(c)
    BY <2>1, BeginBegins DEF C!Next
  <2>2. CASE Check(c)
    BY <2>2, CheckReturns DEF C!Next, C!vars
  <2>3. CASE Lock(c) \/ Submit(c) \/ Again(c) \/ TimeOut(c) \/ CancelIoEx(c)
    BY <2>3, StuttersElsewhere DEF Lock, Submit, Again, TimeOut, CancelIoEx, C!vars
  <2>4. CASE Return(c) \/ Reap(c)
    BY <2>4, ReturnReturns DEF C!Next
  <2> QED
    BY <1>4, <2>1, <2>2, <2>3, <2>4 DEF Task
<1>5. CASE OpenDevice \/ CloseDevice \/ Settle \/ InputReport
           \/ \E c \in Callers : Read(c) \/ Poll(c) \/ DropRead(c)
  BY <1>5, WebFrames, StuttersElsewhere DEF C!vars
<1>6. CASE UNCHANGED <<vars, web>>
  BY <1>6, StuttersElsewhere DEF vars, transfers, C!vars
<1> QED
  BY <1>1, <1>2, <1>3, <1>4, <1>5, <1>6 DEF WebNext, Next

\* hidapi's buffer conventions hold on every backend alike: whatever its layouts,
\* locks, cancellations and unplugs, a session is a behaviour of ReportContract,
\* that is, of the doc of HidDeviceBackend in src/backend/mod.rs.
THEOREM ContractImplemented ==
  WebSpec => ImplementsContract
<1>1. WebInit => C!Init
  BY DEF WebInit, Init, TransfersInit, DiscoveryInit, Gone, C!Init
<1>2. Inv /\ [WebNext]_<<vars, web>> => [C!Next]_(C!vars)
  BY StepImplements DEF Inv
<1> QED
  BY <1>1, <1>2, InvAlways, PTL DEF WebSpec, ImplementsContract, C!Spec
=============================================================================
