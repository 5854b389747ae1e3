---------------------------- MODULE MCReportQueue ----------------------------
(***************************************************************************)
(* ReportQueue for TLC: two tasks read concurrently while the producer     *)
(* thread and the thread dropping the device notify them.  A cap of two    *)
(* under three reports makes the queue overrun, and the third report       *)
(* can be read after, before or instead of the second.                     *)
(***************************************************************************)
EXTENDS ReportQueue

CONSTANTS r1, r2, producer, owner

MCReaders == {r1, r2}
MCNotifiers == {producer, owner}
=============================================================================
