------------------------------- MODULE Escrow -------------------------------
(***************************************************************************)
(* What the program promises its users, without books, slots, clocks or    *)
(* rollups: an escrow in which each market has a pot of its own, filled by *)
(* stakes and emptied by refunds and winnings only, and which holds enough *)
(* at every moment for every claim on it, whichever side wins.             *)
(***************************************************************************)
EXTENDS Integers, FiniteSets, Functions

CONSTANTS Agents, MarketIds, Sides

VARIABLES
    free,     \* each agent's balance
    claim,    \* claim[a][m][s]: units agent a is owed by market m if s wins
    pot,      \* USDC each market holds
    phase     \* "idle", "trading", or the winning side

vars == <<free, claim, pot, phase>>

NoClaim == [s \in Sides |-> 0]

Claims(m, s) == SumFunction([a \in Agents |-> claim[a][m][s]])

\* While the outcome is open the pot pays both sides together, which is more
\* than either needs; then the winners.
Covered ==
    \A m \in MarketIds :
        IF phase[m] \in Sides
        THEN Claims(m, phase[m]) <= pot[m]
        ELSE SumFunction([s \in Sides |-> Claims(m, s)]) <= pot[m]

Init ==
    /\ free = [a \in Agents |-> 0]
    /\ claim = [a \in Agents |-> [m \in MarketIds |-> NoClaim]]
    /\ pot = [m \in MarketIds |-> 0]
    /\ phase = [m \in MarketIds |-> "idle"]

\* Deposits and withdrawals touch one balance.
Fund(a) ==
    /\ free'[a] >= 0
    /\ free' = [free EXCEPT ![a] = free'[a]]
    /\ UNCHANGED <<claim, pot, phase>>

Start(m) ==
    /\ phase[m] = "idle" /\ phase' = [phase EXCEPT ![m] = "trading"]
    /\ UNCHANGED <<free, claim, pot>>

\* Money moves between one balance and one pot, a stake for more of one claim
\* or a refund for less of the claims; nobody else's claim changes.
Bet(a, m) ==
    LET stake == free[a] - free'[a]
    IN  /\ phase[m] = "trading"
        /\ 0 < stake /\ stake <= free[a]
        /\ \E s \in Sides :
               /\ claim'[a][m][s] > claim[a][m][s]
               /\ claim' = [claim EXCEPT ![a][m][s] = claim'[a][m][s]]
        /\ free' = [free EXCEPT ![a] = @ - stake]
        /\ pot' = [pot EXCEPT ![m] = @ + stake]
        /\ UNCHANGED phase

Refund(a, m) ==
    LET refund == free'[a] - free[a]
    IN  /\ phase[m] = "trading"
        /\ 0 <= refund /\ refund <= pot[m]
        /\ \A s \in Sides : claim'[a][m][s] \in 0..claim[a][m][s]
        /\ claim' = [claim EXCEPT ![a][m] = claim'[a][m]]
        /\ free' = [free EXCEPT ![a] = @ + refund]
        /\ pot' = [pot EXCEPT ![m] = @ - refund]
        /\ UNCHANGED phase

Resolve(m) ==
    /\ phase[m] = "trading"
    /\ \E s \in Sides : phase' = [phase EXCEPT ![m] = s]
    /\ UNCHANGED <<free, claim, pot>>

\* Winners are paid one unit a share, exactly once, out of the market's pot.
Pay(winners, m) ==
    LET due == [a \in winners |-> claim[a][m][phase[m]]]
    IN  /\ phase[m] \in Sides
        /\ SumFunction(due) <= pot[m]
        /\ free' = [a \in Agents |-> IF a \in winners THEN free[a] + due[a] ELSE free[a]]
        /\ claim' = [a \in Agents |->
               IF a \in winners THEN [claim[a] EXCEPT ![m] = NoClaim] ELSE claim[a]]
        /\ pot' = [pot EXCEPT ![m] = @ - SumFunction(due)]
        /\ UNCHANGED phase

Next ==
    /\ \/ \E a \in Agents : Fund(a) \/ \E m \in MarketIds : Bet(a, m) \/ Refund(a, m)
       \/ \E m \in MarketIds : Start(m) \/ Resolve(m)
       \/ \E m \in MarketIds, winners \in SUBSET Agents : Pay(winners, m)
    /\ Covered'

Spec == Init /\ Covered /\ [][Next]_vars
=============================================================================
