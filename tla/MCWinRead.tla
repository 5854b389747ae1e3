------------------------------ MODULE MCWinRead ------------------------------
(* WinRead with two tasks and two waits: while one callback is under way a  *)
(* reader may register the next wait.                                       *)
EXTENDS WinRead, TLC

CONSTANTS t1, t2, w1, w2

MCTasks == {t1, t2}
MCWaits == {w1, w2}
=============================================================================
