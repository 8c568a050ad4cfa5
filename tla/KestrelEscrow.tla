---------------------------- MODULE KestrelEscrow ----------------------------
(***************************************************************************)
(* The program implements the escrow.  The state of the escrow is read off *)
(* the accounts; a market's pot is its collateral less what settlement has *)
(* already paid, which the program does not record: settle_position leaves *)
(* the market account as it is.                                            *)
(***************************************************************************)
EXTENDS Kestrel

PaidOut(m) ==
    IF market[m].status = "closed"
    THEN market[m].shares[market[m].winner] - HeldShares(m, market[m].winner)
    ELSE 0

StageOf(M) ==
    CASE M.status \in {"none", "pending"} -> "idle"
      [] M.status \in {"open", "halted"} -> "trading"
      [] M.status = "closed" -> M.winner

E == INSTANCE Escrow WITH
        free  <- [a \in Agents |-> agent[a].balance],
        claim <- [a \in Agents |-> [m \in MarketIds |-> PositionOf(a, m)]],
        pot   <- [m \in MarketIds |-> market[m].collateral - PaidOut(m)],
        phase <- [m \in MarketIds |-> StageOf(market[m])]

\* Every behaviour of the program is one of the escrow: stakes, refunds and
\* winnings go between the right balance and the right market's pot, winners
\* are paid once, and the pots always cover the claims.
ImplementsEscrow == E!Spec
=============================================================================
