-------------------------------- MODULE Session --------------------------------
(***************************************************************************)
(* One program with one device, from discovery to transfers: the calls of  *)
(* HidDevice other than read, on every backend.  A call hands a buffer to  *)
(* the system in its backend's own layout and waits for the system to      *)
(* carry it to the device or to refuse it; tasks share the handle.         *)
(***************************************************************************)
EXTENDS Discovery

CONSTANTS
  Callers,    \* the tasks
  Bodies,     \* report bodies to send, as sequences of bytes
  Answer,     \* the device's feature and input report, without ID
  ReportLen   \* bytes of the device's reports, the ID (or 0) counted

VARIABLES
  opened,     \* the browser's HIDDevice.opened; true on a native handle
  call, pc,   \* each task's call and where in it the task is
  req,        \* each task's request to the system, or None
  staging,    \* WriteState::buf (windows)
  holder,     \* who holds the lock of write (windows) or out_endpoint (nusb)
  told,       \* the removal callback has run (macos)
  wire        \* what the device was last sent

transfers == <<opened, call, pc, req, staging, holder, told, wire>>
vars == <<discovery, transfers>>

Gone == handle # None /\ handle.lost

Results ==
  [tag : {"ok", "invalid", "disconnected", "error"}, n : Nat, buf : Seq(Nat)]

\* What the system keeps of a request: fallback is Windows' second way to get a
\* report, cancel that its end has been asked for.
SystemRequests ==
  [staged : BOOLEAN, fallback : BOOLEAN, cancel : BOOLEAN,
   status : {"pending", "again", "done", "failed", "disconnected", "cancelled"},
   bytes : Seq(Nat)]

ASSUME SessionAssumption ==
  /\ ReportLen \in Nat
  /\ Bodies \subseteq Seq(Nat)
  /\ Answer \in [{"Feature", "Input"} -> Seq(Nat)]
  /\ None \notin Callers /\ None \notin Results /\ None \notin SystemRequests

\* The buffers of any caller: empty, or a report ID (or 0) and a body.
Buffers == {<<>>} \cup {<<id>> \o b : id \in {0, 1}, b \in Bodies}

C == INSTANCE ReportContract WITH
       gone <- Gone, MaxPad <- ReportLen, Data <- Buffers

TransfersInit ==
  /\ opened = FALSE
  /\ call = [c \in Callers |-> C!NoCall]
  /\ pc = [c \in Callers |-> "idle"]
  /\ req = [c \in Callers |-> None]
  /\ staging = C!Zeros(ReportLen)
  /\ holder = None
  /\ told = FALSE
  /\ wire = None

Init == DiscoveryInit /\ TransfersInit

-----------------------------------------------------------------------------
(* A call begins.                                                          *)

Sends(op) == op \in {"write", "send_feature"}

\* The browser has no call for an input report.
OpsOf == IF backend = "web" THEN C!Ops \ {"get_input"} ELSE C!Ops

\* Callers name a report as they must: by its ID if the device has numbered
\* reports, by 0 otherwise; or they pass an empty buffer.  The program has no more
\* use for its Hidra, and the call that opened the device is over.
Begin(c) ==
  /\ handle # None /\ pc[c] = "idle" /\ events < MaxEvents[backend]
  /\ \E op \in OpsOf,
        data \in {<<>>} \cup {<<IF handle.device.numbered THEN 1 ELSE 0>> \o b : b \in Bodies} :
       call' = [call EXCEPT ![c] = [op |-> op, data |-> data, sent |-> FALSE,
                                    result |-> None]]
  /\ events' = events + 1
  /\ pc' = [pc EXCEPT ![c] = "check"]
  /\ job' = Idle
  /\ device_list' = <<>>
  /\ UNCHANGED <<backend, at, used, handle, opened, req, staging, holder, told, wire>>

Result(tag, n, buf) == [tag |-> tag, n |-> n, buf |-> buf]

Error(tag) == Result(tag, 0, <<>>)

Ends(c, result) ==
  /\ call' = [call EXCEPT ![c].result = result]
  /\ pc' = [pc EXCEPT ![c] = "idle"]

\* Mutant: Windows writes without its mutex.
LocksNotOnWindows(c) ==
  call[c].op = "write" /\ backend = "nusb" /\ handle.mode = "full"

\* The write mutex of windows; the interrupt OUT endpoint's of nusb.
Locks(c) ==
  /\ call[c].op = "write"
  /\ backend = "windows" \/ (backend = "nusb" /\ handle.mode = "full")

\* An empty buffer is refused; macOS then asks its removal flag.
Check(c) ==
  /\ pc[c] = "check"
  /\ IF call[c].data = <<>> THEN Ends(c, Error("invalid"))
     ELSE IF backend = "macos" /\ told THEN Ends(c, Error("disconnected"))
     ELSE /\ pc' = [pc EXCEPT ![c] = IF Locks(c) THEN "lock" ELSE "submit"]
          /\ UNCHANGED call
  /\ UNCHANGED <<discovery, opened, req, staging, holder, told, wire>>

Lock(c) ==
  /\ pc[c] = "lock" /\ holder = None
  /\ holder' = c
  /\ pc' = [pc EXCEPT ![c] = "submit"]
  /\ UNCHANGED <<discovery, opened, call, req, staging, told, wire>>

-----------------------------------------------------------------------------
(* What each backend hands over.                                           *)

\* payload_after_report_id
PayloadAfterReportId(data) == IF data[1] = 0 THEN Tail(data) ELSE data

\* hidraw takes the buffer as it is, a leading 0 included.
HidrawBytes(data) == data

\* nusb's interrupt OUT transfer or SET_REPORT request.
NusbBytes(data) == PayloadAfterReportId(data)

\* IOHIDDeviceSetReport, which is given the report ID apart.
MacBytes(data) == PayloadAfterReportId(data)

\* sendReport and sendFeatureReport, which are always given it apart.
WebBytes(data) == Tail(data)

\* Windows wants reports of the device's length.
Short(data) == Len(data) < ReportLen

Pad(data) == data \o C!Zeros(ReportLen - Len(data))

\* HidD_SetFeature.
WinFeatureBytes(data) == IF Short(data) THEN Pad(data) ELSE data

\* The bytes of a sending call; those of a Windows write that is not short.
HandedOver(op, data) ==
  CASE backend = "hidraw" -> HidrawBytes(data)
    [] backend = "nusb" -> NusbBytes(data)
    [] backend = "macos" -> MacBytes(data)
    [] backend = "web" -> WebBytes(data)
    [] backend = "windows" -> IF op = "write" THEN data ELSE WinFeatureBytes(data)

\* A short write is staged, and the system reads the staging buffer when it
\* gets to it, not now.
Submit(c) ==
  /\ pc[c] = "submit"
  /\ LET op == call[c].op
         data == call[c].data
         staged == backend = "windows" /\ op = "write" /\ Short(data)
     IN /\ staging' = IF staged THEN Pad(data) ELSE staging
        /\ req' = [req EXCEPT ![c] =
             [staged |-> staged, fallback |-> FALSE, cancel |-> FALSE,
              status |-> "pending",
              bytes |-> IF Sends(op) /\ ~staged THEN HandedOver(op, data) ELSE <<>>]]
  /\ pc' = [pc EXCEPT ![c] = "wait"]
  /\ UNCHANGED <<discovery, opened, call, holder, told, wire>>

-----------------------------------------------------------------------------
(* The system: it carries a request to the device, refuses it or, when     *)
(* asked, cancels it.                                                      *)

Pending(c) == req[c] # None /\ req[c].status = "pending"

\* Layers below put the report on the wire: hidraw and Windows drop a leading
\* 0 themselves, the browser adds the ID that it was given apart.
OnWire(c) ==
  LET bytes == IF req[c].staged THEN staging ELSE req[c].bytes
      id == call[c].data[1]
  IN CASE backend \in {"hidraw", "windows"} -> PayloadAfterReportId(bytes)
       [] backend \in {"nusb", "macos"} -> bytes
       [] backend = "web" -> IF id = 0 THEN bytes ELSE <<id>> \o bytes

\* A handle without access does no I/O, nor does a closed browser device;
\* Windows takes only whole reports.
Usable(c) ==
  /\ opened /\ handle.mode # "no_access"
  /\ backend = "windows" => Len(call[c].data) <= ReportLen

Carry(c) ==
  /\ Pending(c) /\ ~Gone /\ Usable(c)
  /\ req' = [req EXCEPT ![c].status = "done"]
  /\ call' = [call EXCEPT ![c].sent = TRUE]
  /\ wire' = IF Sends(call[c].op)
             THEN [kind |-> C!Kind(call[c].op), report |-> OnWire(c)] ELSE wire
  /\ UNCHANGED <<discovery, opened, pc, staging, holder, told>>

\* A signal may interrupt hidraw's write(2).
HidrawRefusals(c) == {"failed"} \cup (IF call[c].op = "write" THEN {"again"} ELSE {})

\* transfer_error: nusb knows a device that is gone.
NusbRefusals == {"failed"} \cup (IF Gone THEN {"disconnected"} ELSE {})

\* WinDevice::io_error: Windows knows too.
WinRefusals == {"failed"} \cup (IF Gone THEN {"disconnected"} ELSE {})

\* An old Windows driver may lack IOCTL_HID_GET_INPUT_REPORT.
WinLacks(c) ==
  IF call[c].op = "get_input" /\ ~req[c].fallback THEN {"again"} ELSE {}

\* How the system may refuse a request; elsewhere any error is the same.
Refusals(c) ==
  CASE backend = "hidraw" -> HidrawRefusals(c)
    [] backend = "nusb" -> NusbRefusals
    [] backend = "windows" -> WinRefusals \cup WinLacks(c)
    [] OTHER -> {"failed"}

Refuse(c) ==
  /\ Pending(c)
  /\ \E status \in Refusals(c) : req' = [req EXCEPT ![c].status = status]
  /\ UNCHANGED <<discovery, opened, call, pc, staging, holder, told, wire>>

Cancelled(c) ==
  /\ Pending(c) /\ req[c].cancel
  /\ req' = [req EXCEPT ![c].status = "cancelled"]
  /\ UNCHANGED <<discovery, opened, call, pc, staging, holder, told, wire>>

\* The removal callback of macOS.
Told ==
  /\ backend = "macos" /\ Gone /\ ~told
  /\ told' = TRUE
  /\ UNCHANGED <<discovery, opened, call, pc, req, staging, holder, wire>>

-----------------------------------------------------------------------------
(* The call ends.                                                          *)

\* hidraw's loop over EINTR; Windows' HidD_GetInputReport.
Again(c) ==
  /\ pc[c] = "wait" /\ req[c].status = "again"
  /\ req' = [req EXCEPT ![c].status = "pending", ![c].fallback = TRUE]
  /\ UNCHANGED <<discovery, opened, call, pc, staging, holder, told, wire>>

Least(a, b) == IF a <= b THEN a ELSE b

\* The first n bytes of `report` over the buffer.
Filled(data, report, n) ==
  [i \in DOMAIN data |-> IF i <= n /\ i <= Len(report) THEN report[i] ELSE data[i]]

\* The kernel puts the report in place, its ID or a 0 first, and counts it all.
HidrawGot(data, body) ==
  LET full == <<data[1]>> \o body
      n == Least(Len(full), Len(data))
  IN Result("ok", n, Filled(data, full, n))

\* The device's answer begins with the report ID, if it has one; an unnumbered
\* report is read in at offset 1, and the 0 before it counts.
Offset(data) == IF data[1] = 0 THEN 1 ELSE 0

ReadAt(offset, data, answer) ==
  LET len == Least(Len(answer), Len(data) - offset)
  IN Result("ok", len + offset,
            [i \in DOMAIN data |->
               IF offset < i /\ i <= len + offset THEN answer[i - offset] ELSE data[i]])

\* NusbDevice::get_report
NusbGot(data, body) ==
  ReadAt(Offset(data), data, PayloadAfterReportId(<<data[1]>> \o body))

\* MacDevice::get_report
MacGot(data, body) ==
  ReadAt(Offset(data), data, PayloadAfterReportId(<<data[1]>> \o body))

\* WinDevice::get_report_len
GetReportLen(firstByte, bytesReturned, bufLen) ==
  Least(IF firstByte = 0 THEN bytesReturned + 1 ELSE bytesReturned, bufLen)

\* ioctl_get_report: the driver puts the ID or a 0 first, and does not count the 0.
WinGot(data, body) ==
  LET full == <<data[1]>> \o body
      returned == Least(Len(full), Len(data)) - Offset(data)
      n == GetReportLen(data[1], returned, Len(data))
  IN Result("ok", n, Filled(data, full, n))

\* HidD_GetInputReport does not tell how much it wrote.
WinFallbackGot(data, body) ==
  Result("ok", Len(data), Filled(data, <<data[1]>> \o body, Len(data)))

\* receiveFeatureReport leaves out a report ID of 0, which is put back.
WebReport(id, body) ==
  LET view == PayloadAfterReportId(<<id>> \o body)
  IN IF id # 0 THEN view ELSE <<0>> \o view

\* HidDevice::get_feature_report of the web copies as much as fits.
WebGot(data, body) ==
  LET report == WebReport(data[1], body)
      len == Least(Len(report), Len(data))
  IN Result("ok", len, Filled(data, report, len))

\* What a getting call returns.
Got(c) ==
  LET data == call[c].data
      body == Answer[C!Kind(call[c].op)]
  IN CASE backend = "hidraw" -> HidrawGot(data, body)
       [] backend = "nusb" -> NusbGot(data, body)
       [] backend = "macos" -> MacGot(data, body)
       [] backend = "windows" -> IF req[c].fallback THEN WinFallbackGot(data, body)
                                 ELSE WinGot(data, body)
       [] backend = "web" -> WebGot(data, body)

\* The outcome of a request that has ended: transfer_error, io_error, js_err.
Outcome(c) ==
  CASE req[c].status = "done" ->
         IF call[c].op = "write" THEN Result("ok", Len(call[c].data), <<>>)
         ELSE IF call[c].op = "send_feature" THEN Result("ok", 0, <<>>)
         ELSE Got(c)
    [] req[c].status = "disconnected" -> Error("disconnected")
    [] OTHER -> Error("error")

\* Mutant: a call that fails keeps the lock.
UnlockedIfOk(c) ==
  IF holder = c /\ req[c].status = "done" THEN None ELSE holder

Unlocked(c) == IF holder = c THEN None ELSE holder

Return(c) ==
  /\ pc[c] = "wait"
  /\ req[c].status \notin {"pending", "again"}
  /\ Ends(c, Outcome(c))
  /\ req' = [req EXCEPT ![c] = None]
  /\ holder' = Unlocked(c)
  /\ UNCHANGED <<discovery, opened, staging, told, wire>>

\* The timed write of Windows: WaitForSingleObject gives up on a request that
\* may yet complete; CancelIoEx asks for its end.
TimeOut(c) ==
  /\ pc[c] = "wait" /\ backend = "windows" /\ call[c].op = "write" /\ Pending(c)
  /\ pc' = [pc EXCEPT ![c] = "cancel"]
  /\ UNCHANGED <<discovery, opened, call, req, staging, holder, told, wire>>

CancelIoEx(c) ==
  /\ pc[c] = "cancel"
  /\ req' = [req EXCEPT ![c].cancel = TRUE]
  /\ pc' = [pc EXCEPT ![c] = "reap"]
  /\ UNCHANGED <<discovery, opened, call, staging, holder, told, wire>>

\* GetOverlappedResult waits for the request to end, one way or the other; the
\* call has timed out all the same.
Reap(c) ==
  /\ pc[c] = "reap" /\ ~Pending(c)
  /\ Ends(c, Error("error"))
  /\ req' = [req EXCEPT ![c] = None]
  /\ holder' = Unlocked(c)
  /\ UNCHANGED <<discovery, opened, staging, told, wire>>

-----------------------------------------------------------------------------
\* A handle that is opened natively is open; the browser's may be, if the page
\* has opened the device before.
Discover ==
  /\ DiscoveryNext
  /\ IF handle = None /\ handle' # None
     THEN opened' \in {TRUE} \cup (IF backend = "web" THEN {FALSE} ELSE {})
     ELSE UNCHANGED opened
  /\ UNCHANGED <<call, pc, req, staging, holder, told, wire>>

System(c) == Carry(c) \/ Refuse(c) \/ Cancelled(c)

Task(c) ==
  \/ Begin(c) \/ Check(c) \/ Lock(c) \/ Submit(c)
  \/ Again(c) \/ Return(c)
  \/ TimeOut(c) \/ CancelIoEx(c) \/ Reap(c)

Next == Discover \/ Told \/ \E c \in Callers : System(c) \/ Task(c)

Spec == Init /\ [][Next]_vars

-----------------------------------------------------------------------------
(* Properties.                                                             *)

\* "Buffer conventions are hidapi's, and identical across backends": five
\* layouts, a shared staging buffer, a cancelled write and a device that may
\* go at any time implement the one contract.
ImplementsContract == C!Spec
=============================================================================
