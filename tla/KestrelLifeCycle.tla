-------------------------- MODULE KestrelLifeCycle ---------------------------
(* The program keeps to the life cycle.                                     *)
EXTENDS Kestrel

PhaseOf(M) == IF M.status = "halted" THEN "open" ELSE M.status

L == INSTANCE LifeCycle WITH
        phase <- [m \in MarketIds |-> PhaseOf(market[m])],
        layer <- mLoc,
        place <- aLoc,
        holds <- [a \in Agents |-> {m \in MarketIds : PositionOf(a, m) # NoShares}]

\* In every order of instructions, on both layers, a profile gets a position
\* only in a market that is open beside it, loses it only by its own sale or by
\* the payment of that very market, and no market leaves the rollup unresolved.
KeepsLifeCycle == L!Spec
=============================================================================
