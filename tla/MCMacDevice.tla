------------------------------ MODULE MCMacDevice -----------------------------
(***************************************************************************)
(* MacDevice for TLC: two tasks read while the run loop delivers a report  *)
(* and a removal, and the handle is dropped.                               *)
(***************************************************************************)
EXTENDS MacDevice

CONSTANTS r1, r2

MCReaders == {r1, r2}
=============================================================================
