------------------------- MODULE SchedulerLifeCycle --------------------------
(* The chain as the scheduler's model has it keeps to the life cycle.       *)
EXTENDS Scheduler

L == INSTANCE LifeCycle WITH
        MarketIds <- Ids, phase <- status, layer <- mLoc, place <- aLoc

\* Whatever the loop, its handlers, lost answers, crashes and everyone else do,
\* they do to the accounts only what LifeCycle allows, to which the program keeps,
\* too.
KeepsLifeCycle == L!Spec
=============================================================================
