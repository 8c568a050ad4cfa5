------------------------------- MODULE MCBook -------------------------------
(* One market and two traders, no rollup: every interleaving of rounded     *)
(* trades, settlement and withdrawals on one book.                          *)
EXTENDS Kestrel, TLC
OneWindow == {<<0, 1>>}
LoosePolicy == {[maxStake |-> 9, maxOpen |-> 1, allow |-> "any", paused |-> FALSE]}
Symmetry == Permutations(Agents)
=============================================================================
