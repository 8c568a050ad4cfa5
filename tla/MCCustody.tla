------------------------------ MODULE MCCustody ------------------------------
(* Two markets and one trader with two slots, the rollup, two policies, and  *)
(* a price that may be stale or ahead of the clock.                          *)
EXTENDS KestrelLifeCycle, TLC
OneWindow == {<<0, 1>>}
TwoPolicies ==
    {[maxStake |-> 1, maxOpen |-> 1, allow |-> "any", paused |-> FALSE],
     [maxStake |-> 1, maxOpen |-> 2, allow |-> "feed", paused |-> FALSE]}
=============================================================================
