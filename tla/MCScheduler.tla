---------------------------- MODULE MCScheduler -----------------------------
(* The scheduler and the accounts it keeps, as MCScheduler.cfg sizes them.   *)
EXTENDS SchedulerLifeCycle, TLC
=============================================================================
