----------------------------- MODULE ReportContract -----------------------------
(***************************************************************************)
(* The buffer conventions of HidDeviceBackend (src/backend/mod.rs), which  *)
(* are "hidapi's, and identical across backends", as one abstract device:  *)
(* a caller names a report by the ID in its first byte, the device gets    *)
(* exactly that report, at most once and never after the call has          *)
(* returned, and success is told only of what the device has got.          *)
(***************************************************************************)
EXTENDS Integers, Sequences

CONSTANTS
  Callers,    \* the tasks that call
  Data,       \* the buffers they call with: sequences of bytes
  Answer,     \* the device's report of each kind, without its ID
  MaxPad,     \* bound: zeros that a transport may add to a short report
  None

VARIABLES
  call,       \* each caller's call, in progress or returned
  wire,       \* what the device was last sent: [kind, report], or None
  gone        \* the device has been unplugged

vars == <<call, wire, gone>>

Ops == {"write", "send_feature", "get_feature", "get_input"}

Kind(op) ==
  CASE op = "write" -> "Output"
    [] op \in {"send_feature", "get_feature"} -> "Feature"
    [] op = "get_input" -> "Input"

NoCall == [op |-> "none", data |-> <<>>, sent |-> FALSE, result |-> None]

Init ==
  /\ call = [c \in Callers |-> NoCall]
  /\ wire = None
  /\ gone = FALSE

Open(c) == call[c].op # "none" /\ call[c].result = None

Begin(c) ==
  /\ ~Open(c)
  /\ \E op \in Ops, data \in Data :
       call' = [call EXCEPT ![c] = [op |-> op, data |-> data, sent |-> FALSE,
                                    result |-> None]]
  /\ UNCHANGED <<wire, gone>>

\* A 0 in place of the report ID is no part of the report.
Report(data) == IF data[1] = 0 THEN Tail(data) ELSE data

Zeros(k) == [i \in 1..k |-> 0]

\* The device takes the report of a sending call, or answers a getting one.
Arrive(c) ==
  /\ Open(c) /\ ~call[c].sent /\ ~gone /\ call[c].data # <<>>
  /\ call' = [call EXCEPT ![c].sent = TRUE]
  /\ wire' \in IF call[c].op \in {"write", "send_feature"}
               THEN {[kind |-> Kind(call[c].op),
                      report |-> Report(call[c].data) \o Zeros(k)] : k \in 0..MaxPad}
               ELSE {wire}
  /\ UNCHANGED gone

\* The buffer of a getting call begins with the ID and goes on with the report,
\* as far as both reach.
Holds(buf, op, data, n) ==
  LET full == <<data[1]>> \o Answer[Kind(op)]
  IN /\ Len(buf) = Len(data) /\ n <= Len(buf)
     /\ n >= Len(full) \/ n = Len(buf)
     /\ \A i \in 1..n : i <= Len(full) => buf[i] = full[i]

Error(c) ==
  [tag : IF call[c].data = <<>> THEN {"invalid"}
         ELSE {"error"} \cup (IF gone THEN {"disconnected"} ELSE {}),
   n : {0}, buf : {<<>>}]

Success(c, result) ==
  LET op == call[c].op
      data == call[c].data
  IN CASE op = "write" -> result = [tag |-> "ok", n |-> Len(data), buf |-> <<>>]
       [] op = "send_feature" -> result = [tag |-> "ok", n |-> 0, buf |-> <<>>]
       [] OTHER -> /\ result.tag = "ok"
                   /\ Holds(result.buf, op, data, result.n)

Return(c) ==
  /\ Open(c)
  /\ LET result == call'[c].result
     IN /\ result # None
        /\ result \in Error(c) \/ (call[c].sent /\ Success(c, result))
        /\ call' = [call EXCEPT ![c].result = result]
  /\ UNCHANGED <<wire, gone>>

Unplug ==
  /\ gone' = TRUE
  /\ UNCHANGED <<call, wire>>

Next ==
  \/ \E c \in Callers : Begin(c) \/ Arrive(c) \/ Return(c)
  \/ Unplug

Spec == Init /\ [][Next]_vars
=============================================================================
