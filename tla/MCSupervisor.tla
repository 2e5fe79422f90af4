------------------------------ MODULE MCSupervisor -----------------------------
(* Small instances of Supervisor for TLC: two workers, one spare process id.   *)
EXTENDS Supervisor
===============================================================================
