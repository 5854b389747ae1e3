---------------------------- MODULE ReportStream ----------------------------
(***************************************************************************)
(* What `read` promises its callers, with no lock, waker or thread in it:  *)
(* a bounded, lossy, first-in-first-out stream of input reports.           *)
(*                                                                         *)
(* Reports are numbered 1, 2, 3, ... in the order the device produced      *)
(* them.  At most Capacity unread reports are kept and the oldest gives    *)
(* way to a newer one.  A reader that has asked gets the oldest unread     *)
(* report; when there is none it gets an error if the device is gone or    *)
(* its producer has stopped, and otherwise it waits.  ReportQueue          *)
(* implements this specification.                                          *)
(***************************************************************************)
EXTENDS Naturals, Sequences

CONSTANTS
  Readers,     \* the tasks that call read
  Capacity,    \* unread reports kept
  MaxReport    \* bound: reports the device produces in one behaviour

VARIABLES
  sent,        \* number of reports produced so far
  unread,      \* reports produced, not yet delivered and not overrun, oldest first
  delivered,   \* reports some read returned
  waiting,     \* readers with an outstanding read
  failure,     \* the error each reader's latest read ended with, if any
  gone,        \* the device has been unplugged
  stopped      \* the producer has stopped

vars == <<sent, unread, delivered, waiting, failure, gone, stopped>>

Failures == {"none", "disconnected", "stopped"}

Init ==
  /\ sent = 0
  /\ unread = <<>>
  /\ delivered = {}
  /\ waiting = {}
  /\ failure = [r \in Readers |-> "none"]
  /\ gone = FALSE
  /\ stopped = FALSE

(* The device produces a report; only a full buffer loses one, its oldest. *)
Produce ==
  /\ sent < MaxReport
  /\ sent' = sent + 1
  /\ unread' = Append(IF Len(unread) < Capacity THEN unread ELSE Tail(unread), sent + 1)
  /\ UNCHANGED <<delivered, waiting, failure, gone, stopped>>

Unplug ==
  /\ gone' = TRUE
  /\ UNCHANGED <<sent, unread, delivered, waiting, failure, stopped>>

Stop ==
  /\ stopped' = TRUE
  /\ UNCHANGED <<sent, unread, delivered, waiting, failure, gone>>

Ask(r) ==
  /\ r \notin waiting
  /\ waiting' = waiting \cup {r}
  /\ failure' = [failure EXCEPT ![r] = "none"]
  /\ UNCHANGED <<sent, unread, delivered, gone, stopped>>

(* The reader drops its outstanding read, which takes nothing either. *)
Abandon(r) ==
  /\ r \in waiting
  /\ waiting' = waiting \ {r}
  /\ UNCHANGED <<sent, unread, delivered, failure, gone, stopped>>

Finish(r, how) ==
  /\ r \in waiting
  /\ waiting' = waiting \ {r}
  /\ failure' = [failure EXCEPT ![r] = how]
  /\ UNCHANGED <<sent, gone, stopped>>

Deliver(r) ==
  /\ unread # <<>>
  /\ unread' = Tail(unread)
  /\ delivered' = delivered \cup {Head(unread)}
  /\ Finish(r, "none")

(* An error is an answer only once the unread reports have drained. *)
FailDisconnected(r) ==
  /\ unread = <<>> /\ gone
  /\ Finish(r, "disconnected")
  /\ UNCHANGED <<unread, delivered>>

FailStopped(r) ==
  /\ unread = <<>> /\ stopped
  /\ Finish(r, "stopped")
  /\ UNCHANGED <<unread, delivered>>

Answer(r) == Deliver(r) \/ FailDisconnected(r) \/ FailStopped(r)

Next ==
  \/ Produce \/ Unplug \/ Stop
  \/ \E r \in Readers : Ask(r) \/ Abandon(r) \/ Answer(r)

Safety == Init /\ [][Next]_vars

(* A reader is answered unless it gives up or there is again nothing to    *)
(* tell it: another reader may take the report it was woken for.           *)
Spec == Safety /\ \A r \in Readers : WF_vars(Answer(r))
=============================================================================
