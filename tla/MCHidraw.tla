------------------------------- MODULE MCHidraw -------------------------------
(***************************************************************************)
(* Hidraw for TLC.  Two tasks and two handles; with two descriptor numbers *)
(* two devices are polled at once, or one number is used twice; with one   *)
(* number the second handle always inherits the first one's.               *)
(***************************************************************************)
EXTENDS Hidraw, TLC

CONSTANTS t1, t2, h1, h2

MCTasks == {t1, t2}
MCHandles == {h1, h2}

\* Sound for invariants: no definition tells tasks, or handles, apart.
Symmetry == Permutations(MCTasks) \cup Permutations(MCHandles)
=============================================================================
