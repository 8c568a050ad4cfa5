------------------------------ MODULE LifeCycle ------------------------------
(***************************************************************************)
(* What becomes of a market and of the positions in it on two layers,      *)
(* without money, books, slots or processes.  The program keeps to it with *)
(* every instruction, and the chain the scheduler is checked on does: the  *)
(* two models speak of one program.                                        *)
(***************************************************************************)
CONSTANTS Agents, MarketIds

VARIABLES
    phase,    \* of each market: "none", "pending", "open", "closed"
    layer,    \* where each market lives: "base", "er", "leaving"
    place,    \* where each profile lives
    holds     \* the markets each profile has a position in

vars == <<phase, layer, place, holds>>

Init ==
    /\ phase = [m \in MarketIds |-> "none"]
    /\ layer = [m \in MarketIds |-> "base"]
    /\ place \in [Agents -> {"base", "er"}]
    /\ holds = [a \in Agents |-> {}]

-----------------------------------------------------------------------------
(* A market: created on the base chain, resolved wherever it is writable,   *)
(* and never off the rollup again without its outcome.                     *)

Advance(m, from, to) ==
    /\ phase[m] = from /\ phase' = [phase EXCEPT ![m] = to]
    /\ UNCHANGED <<layer, place, holds>>

Create(m) == layer[m] = "base" /\ Advance(m, "none", "pending")
Open(m) == layer[m] # "leaving" /\ Advance(m, "pending", "open")
Close(m) == layer[m] # "leaving" /\ Advance(m, "open", "closed")

Carry(m, from, to) ==
    /\ layer[m] = from /\ layer' = [layer EXCEPT ![m] = to]
    /\ UNCHANGED <<phase, place, holds>>

Delegate(m) == phase[m] # "none" /\ Carry(m, "base", "er")
Leave(m) == phase[m] = "closed" /\ Carry(m, "er", "leaving")
Return(m) == Carry(m, "leaving", "base")

\* A profile may go back and forth at any time.
Move(a, from, to) ==
    /\ place[a] = from /\ place' = [place EXCEPT ![a] = to]
    /\ UNCHANGED <<phase, layer, holds>>

-----------------------------------------------------------------------------
(* Positions: taken and sold while the market is open, paid when it is     *)
(* closed, and always where the market is.                                 *)

Beside(a, m) == place[a] = layer[m] /\ layer[m] # "leaving"

Enter(a, m) ==
    /\ phase[m] = "open" /\ Beside(a, m)
    /\ holds' = [holds EXCEPT ![a] = @ \cup {m}]
    /\ UNCHANGED <<phase, layer, place>>

Sell(a, m) ==
    /\ phase[m] = "open" /\ Beside(a, m)
    /\ holds' = [holds EXCEPT ![a] = @ \ {m}]
    /\ UNCHANGED <<phase, layer, place>>

Pay(batch, m) ==
    /\ phase[m] = "closed" /\ \A a \in batch : Beside(a, m)
    /\ holds' = [a \in Agents |-> IF a \in batch THEN holds[a] \ {m} ELSE holds[a]]
    /\ UNCHANGED <<phase, layer, place>>

-----------------------------------------------------------------------------
MarketStep(m) ==
    \/ Create(m) \/ Open(m) \/ Close(m) \/ Delegate(m) \/ Leave(m) \/ Return(m)
    \/ \E batch \in SUBSET Agents : Pay(batch, m)

AgentStep(a) ==
    \/ Move(a, "base", "er") \/ Move(a, "er", "leaving") \/ Move(a, "leaving", "base")
    \/ \E m \in MarketIds : Enter(a, m) \/ Sell(a, m)

Next == (\E m \in MarketIds : MarketStep(m)) \/ (\E a \in Agents : AgentStep(a))

Spec == Init /\ [][Next]_vars
=============================================================================
