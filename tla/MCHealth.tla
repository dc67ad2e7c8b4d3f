------------------------------ MODULE MCHealth ------------------------------
(* Instance of Health for TLC: the daemon, a `schedule run-once` and the   *)
(* operator on two schedules.                                              *)
EXTENDS Health
=============================================================================
