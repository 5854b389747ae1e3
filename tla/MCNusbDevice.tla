----------------------------- MODULE MCNusbDevice -----------------------------
(***************************************************************************)
(* NusbDevice for TLC: two tasks read while the reader thread runs and the *)
(* device is unplugged.  A cap of one under two reports overruns.          *)
(***************************************************************************)
EXTENDS NusbDevice

CONSTANTS r1, r2

MCReaders == {r1, r2}
=============================================================================
