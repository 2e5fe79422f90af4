----------------------------- MODULE MCTimerWheel -----------------------------
(* Instances of TimerWheel for TLC.  Two or three positions on a wheel of four *)
(* buckets: lists of every length, timers that share a bucket, that cross a    *)
(* revolution of the wheel and that need more than one round.                  *)
EXTENDS TimerWheel

MCTag == [p \in Pos |-> 7]
===============================================================================
