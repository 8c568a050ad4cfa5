------------------------------- MODULE MCEscrow ------------------------------
(* Two markets and two traders on one layer, in numbers just large enough   *)
(* for stakes, refunds and winnings to be told apart.                       *)
EXTENDS KestrelEscrow, TLC
OneWindow == {<<0, 1>>}
LoosePolicy == {[maxStake |-> 2, maxOpen |-> 2, allow |-> "any", paused |-> FALSE]}
Symmetry == Permutations(Agents)
=============================================================================
