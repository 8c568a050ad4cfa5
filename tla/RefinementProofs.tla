-------------------------- MODULE RefinementProofs ---------------------------
(***************************************************************************)
(* The program implements what it promises: the life cycle of markets and  *)
(* positions on two layers, and the escrow.  Each initial state maps to an *)
(* initial state, and each step to a step or to none.                      *)
(***************************************************************************)
EXTENDS LedgerProofs, KestrelLifeCycle, KestrelEscrow

-----------------------------------------------------------------------------
(* The life cycle.                                                         *)

\* A market that was not created is nowhere but on the base chain.
RefInv == LedgerInv /\ \A m \in MarketIds : market[m].status = "none" => mLoc[m] = "base"

Phases == [m \in MarketIds |-> PhaseOf(market[m])]
Holds == [a \in Agents |-> {m \in MarketIds : PositionOf(a, m) # NoShares}]

LEMMA HoldsAre ==
    /\ Holds = [a \in Agents |-> {m \in MarketIds : Position(agent[a], m) # NoShares}]
    /\ Holds' = [a \in Agents |-> {m \in MarketIds : Position(agent'[a], m) # NoShares}]
  BY DEF Holds, PositionOf, Position

\* A step after which no profile's slots and no market's phase differ.
LEMMA SamePhases ==
    ASSUME \A m \in MarketIds : PhaseOf(market'[m]) = PhaseOf(market[m])
    PROVE  Phases' = Phases
  BY DEF Phases, PhaseOf

LEMMA SameHolds ==
    ASSUME \A a \in Agents : agent'[a].slots = agent[a].slots
    PROVE  Holds' = Holds
<1>1. \A a \in Agents, m \in MarketIds : Position(agent'[a], m) = Position(agent[a], m)
  BY DEF Position, Holding
<1> QED
  BY <1>1, HoldsAre

LEMMA OnePhase ==
    ASSUME NEW m \in MarketIds, NEW M, market \in [MarketIds -> MarketType],
           market' = [market EXCEPT ![m] = M]
    PROVE  /\ Phases' = [Phases EXCEPT ![m] = PhaseOf(M)]
           /\ PhaseOf(M) = PhaseOf(market[m]) => Phases' = Phases
<1>1. market'[m] = M /\ \A n \in MarketIds \ {m} : market'[n] = market[n]
  OBVIOUS
<1>2. Phases' = [n \in MarketIds |-> PhaseOf(market'[n])]
  BY DEF Phases, PhaseOf
<1> QED
  BY <1>1, <1>2 DEF Phases

LEMMA Advances ==
    ASSUME NEW m \in MarketIds, NEW from, NEW to,
           PhaseOf(market[m]) = from, Phases' = [Phases EXCEPT ![m] = to],
           Holds' = Holds, UNCHANGED <<mLoc, aLoc>>
    PROVE  L!Advance(m, from, to)
  BY DEF L!Advance, Phases, Holds

LEMMA CreateIsCreate ==
    ASSUME RefInv, NEW m \in MarketIds, NEW w \in Windows, CreateMarket(m, w[1], w[2])
    PROVE  L!Create(m)
<1> DEFINE M == [BlankMarket EXCEPT !.status = "pending",
                                    !.openTs = w[1], !.closeTs = w[2]]
<1>1. /\ market \in [MarketIds -> MarketType] /\ market' = [market EXCEPT ![m] = M]
      /\ market[m].status = "none" /\ UNCHANGED <<agent, mLoc, aLoc>>
  BY LedgerFacts DEF CreateMarket, RefInv, places
<1>2. PhaseOf(M) = "pending" /\ PhaseOf(market[m]) = "none"
  BY <1>1 DEF PhaseOf, BlankMarket
<1> HIDE DEF M
<1>3. Phases' = [Phases EXCEPT ![m] = "pending"] /\ Holds' = Holds
  BY <1>1, <1>2, OnePhase, SameHolds
<1>4. L!Advance(m, "none", "pending")
  BY <1>1, <1>2, <1>3, Advances
<1> QED
  BY <1>1, <1>4 DEF L!Create, RefInv

LEMMA OpenIsOpen ==
    ASSUME RefInv, NEW m \in MarketIds, NEW seed \in Seeds, OpenMarket(m, seed)
    PROVE  L!Open(m)
<1> DEFINE M == Opened(market[m], oracle.price, seed)
<1>1. /\ market \in [MarketIds -> MarketType] /\ market' = [market EXCEPT ![m] = M]
      /\ market[m].status = "pending" /\ UNCHANGED <<agent, mLoc, aLoc>>
  BY LedgerFacts DEF OpenMarket, RefInv, places
<1>2. PhaseOf(M) = "open" /\ PhaseOf(market[m]) = "pending"
  BY <1>1 DEF PhaseOf, Opened, MarketType
<1> HIDE DEF M
<1>3. Phases' = [Phases EXCEPT ![m] = "open"] /\ Holds' = Holds
  BY <1>1, <1>2, OnePhase, SameHolds
<1>4. L!Advance(m, "pending", "open")
  BY <1>1, <1>2, <1>3, Advances
<1>5. mLoc[m] # "leaving"
  BY DEF OpenMarket, Writable
<1> QED
  BY <1>4, <1>5 DEF L!Open

LEMMA CloseIsClose ==
    ASSUME RefInv, NEW m \in MarketIds, CloseMarket(m)
    PROVE  L!Close(m)
<1> DEFINE M == Closed(market[m], oracle.price)
<1>1. /\ market \in [MarketIds -> MarketType] /\ market' = [market EXCEPT ![m] = M]
      /\ market[m].status \in {"open", "halted"} /\ UNCHANGED <<agent, mLoc, aLoc>>
  BY LedgerFacts DEF CloseMarket, Closable, RefInv, places
<1>2. PhaseOf(M) = "closed" /\ PhaseOf(market[m]) = "open"
  BY <1>1 DEF PhaseOf, Closed, MarketType
<1> HIDE DEF M
<1>3. Phases' = [Phases EXCEPT ![m] = "closed"] /\ Holds' = Holds
  BY <1>1, <1>2, OnePhase, SameHolds
<1>4. L!Advance(m, "open", "closed")
  BY <1>1, <1>2, <1>3, Advances
<1>5. mLoc[m] # "leaving"
  BY DEF CloseMarket, Writable
<1> QED
  BY <1>4, <1>5 DEF L!Close

\* A halt is no phase of its own.
LEMMA HaltIsStutter ==
    ASSUME RefInv, NEW m \in MarketIds, HaltMarket(m) \/ ResumeMarket(m)
    PROVE  UNCHANGED L!vars
<1>1. PICK st \in {"open", "halted"} :
          market' = [market EXCEPT ![m] = [market[m] EXCEPT !.status = st]]
  BY DEF HaltMarket, ResumeMarket
<1> DEFINE M == [market[m] EXCEPT !.status = st]
<1>2. /\ market \in [MarketIds -> MarketType] /\ market' = [market EXCEPT ![m] = M]
      /\ market[m].status \in {"open", "halted"} /\ UNCHANGED <<agent, mLoc, aLoc>>
  BY <1>1, LedgerFacts DEF HaltMarket, ResumeMarket, RefInv, places
<1>3. PhaseOf(M) = PhaseOf(market[m])
  BY <1>1, <1>2 DEF PhaseOf, MarketType
<1> HIDE DEF M
<1>4. Phases' = Phases /\ Holds' = Holds
  BY <1>2, <1>3, OnePhase, SameHolds
<1> QED
  BY <1>2, <1>4 DEF L!vars, Phases, Holds

\* Markets and profiles moved between the layers.
LEMMA Still ==
    ASSUME UNCHANGED <<market, agent>> PROVE Phases' = Phases /\ Holds' = Holds
  BY SamePhases, SameHolds

LEMMA MarketMoves ==
    ASSUME RefInv, NEW m \in MarketIds
    PROVE  /\ DelegateMarket(m) => L!Delegate(m)
           /\ CommitAndUndelegateMarket(m) => L!Leave(m)
<1>1. ASSUME DelegateMarket(m) PROVE L!Delegate(m)
  <2>1. Phases' = Phases /\ Holds' = Holds
    BY <1>1, Still DEF DelegateMarket
  <2>2. Phases[m] # "none"
    BY <1>1 DEF DelegateMarket, Phases, PhaseOf
  <2>3. /\ mLoc[m] = "base" /\ mLoc' = [mLoc EXCEPT ![m] = "er"] /\ aLoc' = aLoc
    BY <1>1 DEF DelegateMarket
  <2> QED
    BY <2>1, <2>2, <2>3 DEF L!Delegate, L!Carry, Phases, Holds
<1>2. ASSUME CommitAndUndelegateMarket(m) PROVE L!Leave(m)
  <2>1. Phases' = Phases /\ Holds' = Holds
    BY <1>2, Still DEF CommitAndUndelegateMarket
  <2>2. Phases[m] = "closed"
    BY <1>2 DEF CommitAndUndelegateMarket, MayLeave, Phases, PhaseOf
  <2>3. /\ mLoc[m] = "er" /\ mLoc' = [mLoc EXCEPT ![m] = "leaving"] /\ aLoc' = aLoc
    BY <1>2 DEF CommitAndUndelegateMarket
  <2> QED
    BY <2>1, <2>2, <2>3 DEF L!Leave, L!Carry, Phases, Holds
<1> QED
  BY <1>1, <1>2

LEMMA AgentMoves ==
    ASSUME RefInv, NEW a \in Agents
    PROVE  /\ DelegateAgent(a) => L!Move(a, "base", "er")
           /\ CommitAndUndelegateAgent(a) => L!Move(a, "er", "leaving")
<1>1. ASSUME DelegateAgent(a) PROVE L!Move(a, "base", "er")
  <2>1. Phases' = Phases /\ Holds' = Holds
    BY <1>1, Still DEF DelegateAgent
  <2>2. aLoc[a] = "base" /\ aLoc' = [aLoc EXCEPT ![a] = "er"] /\ mLoc' = mLoc
    BY <1>1 DEF DelegateAgent
  <2> QED
    BY <2>1, <2>2 DEF L!Move, Phases, Holds
<1>2. ASSUME CommitAndUndelegateAgent(a) PROVE L!Move(a, "er", "leaving")
  <2>1. Phases' = Phases /\ Holds' = Holds
    BY <1>2, Still DEF CommitAndUndelegateAgent
  <2>2. aLoc[a] = "er" /\ aLoc' = [aLoc EXCEPT ![a] = "leaving"] /\ mLoc' = mLoc
    BY <1>2 DEF CommitAndUndelegateAgent
  <2> QED
    BY <2>1, <2>2 DEF L!Move, Phases, Holds
<1> QED
  BY <1>1, <1>2

LEMMA FinishIsReturn ==
    ASSUME RefInv, FinishUndelegate
    PROVE  \/ \E m \in MarketIds : L!Return(m)
           \/ \E a \in Agents : L!Move(a, "leaving", "base")
<1>1. Phases' = Phases /\ Holds' = Holds
  BY Still DEF FinishUndelegate
<1>2. ASSUME NEW m \in MarketIds, mLoc[m] = "leaving",
             mLoc' = [mLoc EXCEPT ![m] = "base"], UNCHANGED aLoc
      PROVE  L!Return(m)
  BY <1>1, <1>2 DEF L!Return, L!Carry, Phases, Holds
<1>3. ASSUME NEW a \in Agents, aLoc[a] = "leaving",
             aLoc' = [aLoc EXCEPT ![a] = "base"], UNCHANGED mLoc
      PROVE  L!Move(a, "leaving", "base")
  BY <1>1, <1>3 DEF L!Move, Phases, Holds
<1> QED
  BY <1>2, <1>3 DEF FinishUndelegate

\* The owner's calls on the base chain move nothing of the life cycle.
LEMMA OwnersAreStutter ==
    ASSUME RefInv, NEW a \in Agents,
           \/ \E p \in Policies : RegisterAgent(a, p) \/ UpdatePolicy(a, p)
           \/ \E amount \in Transfers : Deposit(a, amount) \/ Withdraw(a, amount)
    PROVE  UNCHANGED L!vars
<1>0. LedgerInv
  BY DEF RefInv
<1>1. market' = market /\ UNCHANGED <<mLoc, aLoc>>
  BY DEF RegisterAgent, UpdatePolicy, Deposit, Withdraw, places
<1>2. \A b \in Agents : agent'[b].slots = agent[b].slots
  <2>1. CASE \E p \in Policies : RegisterAgent(a, p) \/ UpdatePolicy(a, p)
    BY <1>0, <2>1, QuietActions DEF Quiet
  <2>2. CASE \E amount \in Transfers : Deposit(a, amount) \/ Withdraw(a, amount)
    <3>1. PICK P \in ProfileType, w \in Nat, fee \in Nat : Custody(a, P, w, fee)
      BY <1>0, <2>2, DepositIsCustody, WithdrawIsCustody
    <3> QED
      BY <1>0, <3>1, LedgerFacts DEF Custody
  <2> QED
    BY <2>1, <2>2
<1>3. Phases' = Phases /\ Holds' = Holds
  BY <1>1, <1>2, SamePhases, SameHolds
<1> QED
  BY <1>1, <1>3 DEF L!vars, Phases, Holds

\* What a trade does to the markets a profile has a position in.
LEMMA TradeHolds ==
    ASSUME RefInv, NEW a \in Agents, NEW m \in MarketIds, NEW M \in MarketType,
           NEW P \in ProfileType, Moved(a, m, M, P)
    PROVE  /\ Phases' = Phases /\ Phases[m] = "open" /\ UNCHANGED <<mLoc, aLoc>>
           /\ Position(P, m) # NoShares => Holds' = [Holds EXCEPT ![a] = @ \cup {m}]
           /\ Position(P, m) = NoShares => Holds' = [Holds EXCEPT ![a] = @ \ {m}]
           /\ Position(agent[a], m) # NoShares <=> m \in Holds[a]
<1>0. /\ market \in [MarketIds -> MarketType] /\ agent \in [Agents -> ProfileType]
  BY LedgerFacts DEF RefInv
<1>1. /\ market' = [market EXCEPT ![m] = M] /\ agent' = [agent EXCEPT ![a] = P]
      /\ UNCHANGED <<mLoc, aLoc>> /\ M.status = market[m].status
      /\ market[m].status \in {"open", "halted"}
      /\ \A n \in MarketIds \ {m} : Position(P, n) = Position(agent[a], n)
  BY DEF Moved, OneOfEach, places
<1>2. Phases' = Phases
  BY <1>0, <1>1, OnePhase DEF PhaseOf
<1>3. Phases[m] = "open"
  BY <1>1 DEF Phases, PhaseOf
<1>4. agent'[a] = P /\ \A b \in Agents \ {a} : agent'[b] = agent[b]
  BY <1>0, <1>1
<1> DEFINE H == {n \in MarketIds : Position(agent[a], n) # NoShares}
           H2 == {n \in MarketIds : Position(P, n) # NoShares}
<1>5. Holds[a] = H /\ Holds' = [Holds EXCEPT ![a] = H2]
  BY <1>4, HoldsAre
<1>6. /\ Position(P, m) # NoShares => H2 = H \cup {m}
      /\ Position(P, m) = NoShares => H2 = H \ {m}
      /\ Position(agent[a], m) # NoShares <=> m \in H
  BY <1>1
<1> HIDE DEF H, H2
<1> QED
  BY <1>1, <1>2, <1>3, <1>5, <1>6

LEMMA TradeIsTrade ==
    ASSUME RefInv, NEW a \in Agents, NEW m \in MarketIds, Trades(a, m)
    PROVE  L!Enter(a, m) \/ L!Sell(a, m) \/ UNCHANGED L!vars
<1>1. PICK M \in MarketType, P \in ProfileType :
          Moved(a, m, M, P) /\ (Entered(a, m, P) \/ Left(a, m, P))
  BY DEF Trades
<1>2. /\ Phases' = Phases /\ Phases[m] = "open" /\ UNCHANGED <<mLoc, aLoc>>
      /\ Position(P, m) # NoShares => Holds' = [Holds EXCEPT ![a] = @ \cup {m}]
      /\ Position(P, m) = NoShares => Holds' = [Holds EXCEPT ![a] = @ \ {m}]
      /\ Position(agent[a], m) # NoShares <=> m \in Holds[a]
  BY <1>1, TradeHolds
<1>3. L!Beside(a, m)
  BY DEF L!Beside, Trades, Together, Writable
<1>4. Position(agent[a], m) \in [Sides -> Nat] /\ Position(P, m) \in [Sides -> Nat]
  BY LedgerFacts, PositionTyped DEF RefInv
<1>5. CASE Entered(a, m, P)
  <2>1. PICK s \in Sides : Position(P, m)[s] > Position(agent[a], m)[s]
    BY <1>5 DEF Entered
  <2>2. Position(P, m)[s] # 0
    BY <1>4, <2>1
  <2>3. Holds' = [Holds EXCEPT ![a] = @ \cup {m}]
    BY <1>2, <2>2 DEF NoShares
  <2> QED
    BY <1>2, <1>3, <2>3 DEF L!Enter, Phases, Holds
<1>6. CASE Left(a, m, P) /\ Position(P, m) = NoShares
  BY <1>2, <1>3, <1>6 DEF L!Sell, Phases, Holds
<1>7. CASE Left(a, m, P) /\ Position(P, m) # NoShares
  <2>1. Position(agent[a], m) # NoShares
    <3>1. PICK s \in Sides : Position(P, m)[s] # 0
      BY <1>4, <1>7 DEF NoShares
    <3>2. Position(P, m)[s] <= Position(agent[a], m)[s]
      BY <1>7 DEF Left
    <3>3. Position(agent[a], m)[s] # 0
      BY <1>4, <3>1, <3>2
    <3> QED
      BY <3>3 DEF NoShares
  <2>2. m \in Holds[a]
    BY <1>2, <2>1
  <2>3. Holds' = Holds
    BY <1>2, <1>7, <2>2 DEF Holds
  <2> QED
    BY <1>2, <2>3 DEF L!vars, Phases, Holds
<1> QED
  BY <1>1, <1>5, <1>6, <1>7

LEMMA SettlementIsPay ==
    ASSUME RefInv, NEW m \in MarketIds, NEW W \in SUBSET Agents, Settles(m, W)
    PROVE  L!Pay(W, m)
<1>0. Settled(m, W) /\ LedgerInv
  BY DEF Settles, RefInv
<1>1. \A a \in W : L!Beside(a, m)
  BY DEF L!Beside, Settles, Together, Writable
<1>2. market' = market /\ UNCHANGED <<mLoc, aLoc>> /\ market[m].status = "closed"
  BY <1>0 DEF Settled, places
<1>3. Phases' = Phases /\ Phases[m] = "closed"
  BY <1>2, SamePhases DEF Phases, PhaseOf
<1>4. Holds' = [a \in Agents |-> IF a \in W THEN Holds[a] \ {m} ELSE Holds[a]]
  <2>1. ASSUME NEW a \in W
        PROVE  {n \in MarketIds : Position(agent'[a], n) # NoShares}
                 = {n \in MarketIds : Position(agent[a], n) # NoShares} \ {m}
    BY <1>0, SettledProfiles
  <2>2. ASSUME NEW a \in Agents \ W PROVE agent'[a] = agent[a]
    BY <1>0, SettledProfiles
  <2> QED
    BY <2>1, <2>2, HoldsAre
<1> QED
  BY <1>1, <1>2, <1>3, <1>4 DEF L!Pay, Phases, Holds

LEMMA RefInit == Init => RefInv
  BY LedgerInit DEF Init, RefInv

\* Every step of the program is one of the life cycle, or none of it.
LEMMA LifeCycleStep ==
    ASSUME RefInv, [Next]_vars PROVE [L!Next]_(L!vars)
<1>0. LedgerInv
  BY DEF RefInv
<1>1. CASE UNCHANGED vars
  <2>1. Phases' = Phases /\ Holds' = Holds /\ UNCHANGED <<mLoc, aLoc>>
    BY <1>1, Still DEF vars, places
  <2> QED
    BY <2>1 DEF L!vars, Phases, Holds
<1>2. CASE Environment
  <2>1. CASE FinishUndelegate
    BY <2>1, FinishIsReturn DEF L!Next, L!MarketStep, L!AgentStep
  <2>2. CASE ~FinishUndelegate
    <3>1. UNCHANGED <<market, agent, mLoc, aLoc>>
      BY <1>2, <2>2 DEF Environment, Tick, Publish, places
    <3>2. Phases' = Phases /\ Holds' = Holds
      BY <3>1, Still
    <3> QED
      BY <3>1, <3>2 DEF L!vars, Phases, Holds
  <2> QED
    BY <2>1, <2>2
<1>3. ASSUME NEW m \in MarketIds, MarketStep(m)
      PROVE  L!MarketStep(m) \/ UNCHANGED L!vars
  <2>1. CASE \E w \in Windows : CreateMarket(m, w[1], w[2])
    BY <2>1, CreateIsCreate DEF L!MarketStep
  <2>2. CASE \E seed \in Seeds : OpenMarket(m, seed)
    BY <2>2, OpenIsOpen DEF L!MarketStep
  <2>3. CASE HaltMarket(m) \/ ResumeMarket(m)
    BY <2>3, HaltIsStutter
  <2>4. CASE CloseMarket(m)
    BY <2>4, CloseIsClose DEF L!MarketStep
  <2>5. CASE DelegateMarket(m) \/ CommitAndUndelegateMarket(m)
    BY <2>5, MarketMoves DEF L!MarketStep
  <2>6. CASE \E batch \in SUBSET Agents : SettlePositions(m, batch)
    <3>1. PICK batch \in SUBSET Agents : SettlePositions(m, batch)
      BY <2>6
    <3> DEFINE W == {a \in batch : Holding(agent[a], m) # {}}
    <3>2. W \in SUBSET Agents /\ Settles(m, W)
      BY <1>0, <3>1, SettlePositionsSettle DEF Settles
    <3> HIDE DEF W
    <3> QED
      BY <3>2, SettlementIsPay DEF L!MarketStep
  <2> QED
    BY <1>3, <2>1, <2>2, <2>3, <2>4, <2>5, <2>6 DEF MarketStep
<1>4. ASSUME NEW a \in Agents, AgentStep(a)
      PROVE  L!AgentStep(a) \/ UNCHANGED L!vars
  <2>1. CASE DelegateAgent(a) \/ CommitAndUndelegateAgent(a)
    BY <2>1, AgentMoves DEF L!AgentStep
  <2> QED
    BY <1>4, <2>1, OwnersAreStutter DEF AgentStep
<1>5. ASSUME NEW a \in Agents, NEW m \in MarketIds, Trade(a, m)
      PROVE  L!AgentStep(a) \/ L!MarketStep(m) \/ UNCHANGED L!vars
  <2>1. CASE Trades(a, m)
    BY <2>1, TradeIsTrade DEF L!AgentStep
  <2>2. CASE \E W \in SUBSET Agents : Settles(m, W)
    BY <2>2, SettlementIsPay DEF L!MarketStep
  <2> QED
    BY <1>0, <1>5, <2>1, <2>2, TradeKinds
<1> QED
  BY <1>1, <1>2, <1>3, <1>4, <1>5 DEF Next, L!Next

\* The life cycle itself keeps a market that does not exist on the base chain.
LEMMA RefInductive == RefInv /\ [Next]_vars => RefInv'
<1> SUFFICES ASSUME RefInv, [Next]_vars PROVE RefInv'
  OBVIOUS
<1>1. LedgerInv'
  BY LedgerInductive DEF RefInv
<1>2. [L!Next]_(L!vars)
  BY LifeCycleStep
<1>3. /\ mLoc \in [MarketIds -> Locations]
      /\ \A m \in MarketIds : Phases[m] = "none" => mLoc[m] = "base"
      /\ Phases = [m \in MarketIds |-> Phases[m]]
  BY DEF RefInv, LedgerInv, IInv, TypeOK, Phases, PhaseOf
<1>4. \A m \in MarketIds : Phases'[m] = "none" => mLoc'[m] = "base"
  <2>1. ASSUME NEW m \in MarketIds, NEW to, to # "none",
               Phases' = [Phases EXCEPT ![m] = to], mLoc' = mLoc
        PROVE  \A n \in MarketIds : Phases'[n] = "none" => mLoc'[n] = "base"
    BY <1>3, <2>1
  <2>2. ASSUME NEW m \in MarketIds, NEW to, Phases[m] # "none" \/ to = "base",
               Phases' = Phases, mLoc' = [mLoc EXCEPT ![m] = to]
        PROVE  \A n \in MarketIds : Phases'[n] = "none" => mLoc'[n] = "base"
    BY <1>3, <2>2
  <2>3. CASE Phases' = Phases /\ mLoc' = mLoc
    BY <1>3, <2>3
  <2>4. CASE UNCHANGED L!vars
    BY <2>3, <2>4 DEF L!vars, Phases, Holds
  <2>5. ASSUME NEW m \in MarketIds, L!MarketStep(m)
        PROVE  \A n \in MarketIds : Phases'[n] = "none" => mLoc'[n] = "base"
    <3>1. CASE L!Create(m) \/ L!Open(m) \/ L!Close(m)
      <4>1. PICK to \in {"pending", "open", "closed"} :
                Phases' = [Phases EXCEPT ![m] = to] /\ mLoc' = mLoc
        BY <3>1 DEF L!Create, L!Open, L!Close, L!Advance, Phases
      <4> QED
        BY <2>1, <4>1
    <3>2. CASE L!Delegate(m) \/ L!Leave(m) \/ L!Return(m)
      <4>1. PICK to : /\ Phases[m] # "none" \/ to = "base"
                      /\ Phases' = Phases /\ mLoc' = [mLoc EXCEPT ![m] = to]
        BY <3>2 DEF L!Delegate, L!Leave, L!Return, L!Carry, Phases
      <4> QED
        BY <2>2, <4>1
    <3>3. CASE \E batch \in SUBSET Agents : L!Pay(batch, m)
      BY <2>3, <3>3 DEF L!Pay, Phases
    <3> QED
      BY <2>5, <3>1, <3>2, <3>3 DEF L!MarketStep
  <2>6. ASSUME NEW a \in Agents, L!AgentStep(a)
        PROVE  \A n \in MarketIds : Phases'[n] = "none" => mLoc'[n] = "base"
    BY <2>3, <2>6 DEF L!AgentStep, L!Move, L!Enter, L!Sell, Phases
  <2> QED
    BY <1>2, <2>4, <2>5, <2>6 DEF L!Next
<1>5. \A m \in MarketIds : market'[m].status = "none" => mLoc'[m] = "base"
  BY <1>4 DEF Phases, PhaseOf
<1> QED
  BY <1>1, <1>5 DEF RefInv

\* In every order of instructions, for any number of markets and profiles, the
\* program keeps to the life cycle.
THEOREM ProgramKeepsLifeCycle == Spec => KeepsLifeCycle
<1>1. Init => L!Init
  <2> SUFFICES ASSUME Init PROVE L!Init
    OBVIOUS
  <2>1. Phases = [m \in MarketIds |-> "none"]
    BY DEF Init, Phases, PhaseOf, BlankMarket
  <2>2. Holds = [a \in Agents |-> {}]
    <3>1. \A a \in Agents, m \in MarketIds : Position(agent[a], m) = NoShares
      BY BlankProfile DEF Init
    <3> QED
      BY <3>1, HoldsAre
  <2>3. mLoc = [m \in MarketIds |-> "base"] /\ aLoc \in [Agents -> {"base", "er"}]
    BY DEF Init
  <2> QED
    BY <2>1, <2>2, <2>3 DEF L!Init, Phases, Holds
<1>2. RefInv /\ [Next]_vars => [L!Next]_(L!vars)
  BY LifeCycleStep
<1> QED
  BY <1>1, <1>2, RefInit, RefInductive, PTL DEF Spec, KeepsLifeCycle, L!Spec
-----------------------------------------------------------------------------
(* The escrow.                                                             *)

Free == [a \in Agents |-> agent[a].balance]
Claim == [a \in Agents |-> [m \in MarketIds |-> PositionOf(a, m)]]
Pot == [m \in MarketIds |-> market[m].collateral - PaidOut(m)]
Stage == [m \in MarketIds |-> StageOf(market[m])]

LEMMA ClaimIs ==
    /\ Claim = [a \in Agents |-> [m \in MarketIds |-> Position(agent[a], m)]]
    /\ Claim' = [a \in Agents |-> [m \in MarketIds |-> Position(agent'[a], m)]]
  BY DEF Claim, PositionOf, Position

LEMMA PaidOutIs ==
    ASSUME NEW m
    PROVE  /\ market[m].collateral - PaidOut(m) = PotOf(market, agent, m)
           /\ (market[m].collateral - PaidOut(m))' = PotOf(market', agent', m)
<1>1. \A s : Sum([a \in Agents |-> Position(agent[a], m)[s]]) = Held(agent, m, s)
  BY SumIs DEF Held
<1>2. \A s : Sum([a \in Agents |-> Position(agent'[a], m)[s]]) = Held(agent', m, s)
  BY SumIs DEF Held
<1>3. HeldShares(m, market[m].winner) = Held(agent, m, market[m].winner)
  BY <1>1 DEF HeldShares, PositionOf, Position
<1>4. HeldShares(m, market[m].winner)' = Held(agent', m, market'[m].winner)
  BY <1>2 DEF HeldShares, PositionOf, Position
<1> QED
  BY <1>3, <1>4 DEF PaidOut, PotOf

LEMMA PotIs ==
    /\ Pot = [m \in MarketIds |-> PotOf(market, agent, m)]
    /\ Pot' = [m \in MarketIds |-> PotOf(market', agent', m)]
  BY PaidOutIs DEF Pot

LEMMA SumsAgree == ASSUME NEW S, NEW f, DOMAIN f = S PROVE E!SumFunction(f) = SumOn(f, S)
  BY DEF E!SumFunction, SumOn, SumFunctionOnSet, E!SumFunctionOnSet,
     FoldFunctionOnSet, E!FoldFunctionOnSet, MapThenFoldSet, E!MapThenFoldSet
LEMMA EscrowClaims ==
    ASSUME NEW m \in MarketIds, NEW s \in Sides
    PROVE  E!Claims(m, s) = Held(agent, m, s)
<1> DEFINE f == [a \in Agents |-> Position(agent[a], m)[s]]
<1>1. E!Claims(m, s) = E!SumFunction(f)
  BY DEF E!Claims, PositionOf, Position
<1> QED
  BY <1>1, SumsAgree DEF Held

\* The pots cover the claims whichever side wins.
LEMMA EscrowCovered == LedgerInv => E!Covered
<1> SUFFICES ASSUME LedgerInv, NEW m \in MarketIds
             PROVE  IF Stage[m] \in Sides
                    THEN E!Claims(m, Stage[m]) <= Pot[m]
                    ELSE E!SumFunction([s \in Sides |-> E!Claims(m, s)]) <= Pot[m]
  BY DEF E!Covered, Stage, Pot
<1>1. /\ market[m] \in MarketType /\ Pot[m] = PotOf(market, agent, m)
      /\ \A s \in Sides : /\ market[m].shares[s] \in Nat /\ Held(agent, m, s) \in Nat
                          /\ E!Claims(m, s) = Held(agent, m, s)
      /\ market[m].collateral \in Nat
  BY LedgerFacts, PotIs, HeldFacts, EscrowClaims DEF MarketType
<1>2. CASE market[m].status = "closed"
  <2>1. Stage[m] = market[m].winner /\ market[m].winner \in Sides
    BY <1>2, BookOf DEF Stage, StageOf
  <2>2. Liability(m) = Held(agent, m, market[m].winner)
    BY <1>2, <2>1, HeldSharesAre DEF Liability
  <2> QED
    BY <1>1, <2>1, <2>2, PotCovers
<1>3. CASE market[m].status # "closed"
  <2>1. Stage[m] \notin Sides
    BY <1>1, <1>3 DEF Stage, StageOf, Sides, MarketType
  <2> DEFINE f == [s \in Sides |-> E!Claims(m, s)]
  <2>2. /\ f["yes"] = market[m].shares["yes"] /\ f["yes"] \in Nat
        /\ f["no"] = market[m].shares["no"] /\ f["no"] \in Nat
    BY <1>1, <1>3, BookOf DEF Sides
  <2>3. E!SumFunction(f) = SumOn(f, Sides)
    BY SumsAgree
  <2> HIDE DEF f
  <2>4. Sides \ {"yes"} = {"no"} /\ {"no"} \ {"no"} = {} /\ Sides = {"yes"} \cup {"no"}
    BY DEF Sides
  <2>5. IsFiniteSet(Sides) /\ IsFiniteSet({"no"})
    BY <2>4, FS_Singleton, FS_Union
  <2>6. Summable(f, Sides) /\ Summable(f, {"no"})
    BY <2>2, <2>5 DEF Summable, Sides
  <2>7. /\ SumOn(f, Sides) = f["yes"] + SumOn(f, {"no"})
        /\ SumOn(f, {"no"}) = f["no"] + SumOn(f, {})
    BY <2>4, <2>6, SumRemove DEF Sides
  <2>8. SumOn(f, Sides) = market[m].shares["yes"] + market[m].shares["no"]
    BY <2>2, <2>7, SumEmpty
  <2>9. PotOf(market, agent, m) = market[m].collateral
    BY <1>1, <1>3 DEF PotOf
  <2>10. market[m].shares["yes"] + market[m].shares["no"] <= market[m].collateral
    <3>1. CASE Traded(market[m])
      BY <3>1, BooksSolvent DEF LedgerInv, Solvent
    <3>2. CASE ~Traded(market[m])
      <4>1. market[m].status \in {"none", "pending"} /\ BookInv(market[m])
        BY <1>1, <3>2 DEF Traded, MarketType, LedgerInv, IInv
      <4>2. market[m].shares = NoShares /\ market[m].collateral = 0
        BY <4>1 DEF BookInv
      <4> QED
        BY <4>2 DEF NoShares, Sides
    <3> QED
      BY <3>1, <3>2
  <2> QED
    BY <1>1, <2>1, <2>3, <2>8, <2>9, <2>10 DEF f
<1> QED
  BY <1>2, <1>3

LEMMA EscrowInit == Init => E!Init
<1> SUFFICES ASSUME Init PROVE E!Init
  OBVIOUS
<1>1. LedgerInv
  BY LedgerInit
<1>2. /\ \A a \in Agents : agent[a] = NewProfile(AnyPolicy)
      /\ \A m \in MarketIds : market[m] = BlankMarket
  BY DEF Init
<1>3. Free = [a \in Agents |-> 0]
  BY <1>2, BlankProfile DEF Free
<1>4. Claim = [a \in Agents |-> [m \in MarketIds |-> NoShares]]
  BY <1>2, BlankProfile, ClaimIs
<1>5. Pot = [m \in MarketIds |-> 0]
  BY <1>2, PotIs DEF PotOf, BlankMarket
<1>6. Stage = [m \in MarketIds |-> "idle"]
  BY <1>2 DEF Stage, StageOf, BlankMarket
<1> QED
  BY <1>3, <1>4, <1>5, <1>6 DEF E!Init, E!NoClaim, NoShares, Free, Claim, Pot, Stage

\* What a quiet step, custody, a trade and a settlement are to the escrow.
LEMMA QuietEscrow ==
    ASSUME LedgerInv, IInv', Quiet
    PROVE  Free' = Free /\ Claim' = Claim /\ Pot' = Pot
<1>1. Free' = Free
  BY DEF Free, Quiet
<1>2. Claim' = Claim
  BY ClaimIs, SameSlots DEF Quiet
<1>3. Pot' = Pot
  BY PotIs, QuietPots
<1> QED
  BY <1>1, <1>2, <1>3

LEMMA SameStage == ASSUME market' = market PROVE Stage' = Stage
  BY DEF Stage, StageOf

LEMMA QuietStutters ==
    ASSUME LedgerInv, IInv', Quiet, Stage' = Stage
    PROVE  UNCHANGED E!vars
  BY QuietEscrow DEF E!vars, Free, Claim, Pot, Stage

LEMMA OneStage ==
    ASSUME LedgerInv, NEW m \in MarketIds, NEW M, market' = [market EXCEPT ![m] = M]
    PROVE  /\ Stage' = [Stage EXCEPT ![m] = StageOf(M)]
           /\ StageOf(M) = StageOf(market[m]) => Stage' = Stage
<1>1. market'[m] = M /\ \A n \in MarketIds \ {m} : market'[n] = market[n]
  BY LedgerFacts
<1>2. Stage' = [n \in MarketIds |-> StageOf(market'[n])]
  BY DEF Stage, StageOf
<1>3. \A n \in MarketIds : n # m => StageOf(market'[n]) = StageOf(market[n])
  BY <1>1
<1>4. StageOf(market'[m]) = StageOf(M)
  BY <1>1
<1> QED
  BY ONLY <1>2, <1>3, <1>4, m \in MarketIds DEF Stage

LEMMA OpenIsStart ==
    ASSUME LedgerInv, IInv', NEW m \in MarketIds, NEW seed \in Seeds, OpenMarket(m, seed)
    PROVE  E!Start(m)
<1> DEFINE M == Opened(market[m], oracle.price, seed)
<1>1. market' = [market EXCEPT ![m] = M] /\ market[m].status = "pending"
  BY DEF OpenMarket
<1>2. StageOf(M) = "trading" /\ Stage[m] = "idle"
  BY <1>1, LedgerFacts DEF Stage, StageOf, Opened, MarketType
<1> HIDE DEF M
<1>3. Stage' = [Stage EXCEPT ![m] = "trading"]
  BY <1>1, <1>2, OneStage
<1>4. Quiet
  BY QuietActions
<1> QED
  BY <1>2, <1>3, <1>4, QuietEscrow DEF E!Start, Free, Claim, Pot, Stage

LEMMA CloseIsResolve ==
    ASSUME LedgerInv, IInv', NEW m \in MarketIds, CloseMarket(m)
    PROVE  E!Resolve(m)
<1> DEFINE M == Closed(market[m], oracle.price)
<1>1. market' = [market EXCEPT ![m] = M] /\ market[m].status \in {"open", "halted"}
  BY DEF CloseMarket, Closable
<1>2. StageOf(M) \in Sides /\ Stage[m] = "trading"
  BY <1>1, LedgerFacts DEF Stage, StageOf, Closed, MarketType, Sides
<1> HIDE DEF M
<1>3. \E s \in Sides : Stage' = [Stage EXCEPT ![m] = s]
  BY <1>1, <1>2, OneStage
<1>4. Quiet
  BY QuietActions
<1> QED
  BY <1>2, <1>3, <1>4, QuietEscrow DEF E!Resolve, Free, Claim, Pot, Stage

LEMMA CustodyIsFund ==
    ASSUME LedgerInv, NEW a \in Agents, NEW P \in ProfileType, NEW w \in Nat,
           NEW fee \in Nat, Custody(a, P, w, fee)
    PROVE  E!Fund(a)
<1>1. agent \in [Agents -> ProfileType]
  BY LedgerFacts
<1>2. agent'[a] = P /\ \A b \in Agents \ {a} : agent'[b] = agent[b]
  BY <1>1 DEF Custody
<1>3. Free'[a] >= 0 /\ Free' = [Free EXCEPT ![a] = Free'[a]]
  <2>1. Free' = [b \in Agents |-> agent'[b].balance] /\ P.balance \in Nat
    BY DEF Free, ProfileType
  <2>2. Free'[a] = P.balance /\ \A b \in Agents \ {a} : Free'[b] = Free[b]
    BY <1>2, <2>1 DEF Free
  <2>3. Free = [b \in Agents |-> Free[b]] /\ Free' = [b \in Agents |-> Free'[b]]
    BY DEF Free
  <2>4. Free' = [Free EXCEPT ![a] = Free'[a]]
    BY ONLY <2>2, <2>3, a \in Agents
  <2> QED
    BY <2>1, <2>2, <2>4
<1>4. Claim' = Claim
  <2>1. \A b \in Agents, m \in MarketIds : Position(agent'[b], m) = Position(agent[b], m)
    BY <1>2, SameSlots DEF Custody
  <2> QED
    BY <2>1, ClaimIs
<1>5. Pot' = Pot
  BY CustodyPots, PotIs
<1>6. Stage' = Stage
  BY DEF Custody, Stage, StageOf
<1> QED
  BY <1>3, <1>4, <1>5, <1>6 DEF E!Fund, Free, Claim, Pot, Stage

LEMMA TradeEscrow ==
    ASSUME LedgerInv, NEW a \in Agents, NEW m \in MarketIds, NEW M \in MarketType,
           NEW P \in ProfileType, Moved(a, m, M, P)
    PROVE  /\ Stage' = Stage /\ Stage[m] = "trading"
           /\ Free[a] = agent[a].balance /\ Free' = [Free EXCEPT ![a] = P.balance]
           /\ Claim[a][m] = Position(agent[a], m)
           /\ Claim' = [Claim EXCEPT ![a][m] = Position(P, m)]
           /\ Pot[m] = market[m].collateral /\ Pot' = [Pot EXCEPT ![m] = M.collateral]
<1>0. agent \in [Agents -> ProfileType]
  BY LedgerFacts
<1>1. /\ market' = [market EXCEPT ![m] = M] /\ agent' = [agent EXCEPT ![a] = P]
      /\ market[m].status \in {"open", "halted"} /\ M.status = market[m].status
      /\ \A n \in MarketIds \ {m} : Position(P, n) = Position(agent[a], n)
  BY DEF Moved, OneOfEach
<1>2. Stage' = Stage /\ Stage[m] = "trading"
  BY <1>1, OneStage DEF StageOf, Stage
<1>3. agent'[a] = P /\ \A b \in Agents \ {a} : agent'[b] = agent[b]
  BY <1>0, <1>1
<1>4. Free[a] = agent[a].balance /\ Free' = [Free EXCEPT ![a] = P.balance]
  BY <1>3 DEF Free
<1>5. Claim[a][m] = Position(agent[a], m)
      /\ Claim' = [Claim EXCEPT ![a][m] = Position(P, m)]
  <2> DEFINE row == [n \in MarketIds |-> Position(agent[a], n)]
             row2 == [n \in MarketIds |-> Position(P, n)]
  <2>1. row2 = [row EXCEPT ![m] = Position(P, m)] /\ row[m] = Position(agent[a], m)
    BY <1>1
  <2>2. Claim[a] = row /\ Claim' = [Claim EXCEPT ![a] = row2]
    BY <1>3, ClaimIs
  <2> HIDE DEF row, row2
  <2> QED
    BY <2>1, <2>2
<1>6. Pot[m] = market[m].collateral /\ Pot' = [Pot EXCEPT ![m] = M.collateral]
  BY MovedPots, PotIs
<1> QED
  BY <1>2, <1>4, <1>5, <1>6

LEMMA BetIsBet ==
    ASSUME LedgerInv, NEW a \in Agents, NEW m \in MarketIds, NEW M \in MarketType,
           NEW P \in ProfileType, Moved(a, m, M, P), Entered(a, m, P)
    PROVE  E!Bet(a, m)
<1> DEFINE stake == Free[a] - Free'[a]
<1>1. /\ Stage' = Stage /\ Stage[m] = "trading"
      /\ Free[a] = agent[a].balance /\ Free' = [Free EXCEPT ![a] = P.balance]
      /\ Claim[a][m] = Position(agent[a], m)
      /\ Claim' = [Claim EXCEPT ![a][m] = Position(P, m)]
      /\ Pot[m] = market[m].collateral /\ Pot' = [Pot EXCEPT ![m] = M.collateral]
  BY TradeEscrow
<1>2. /\ P.balance \in Nat /\ agent[a].balance \in Nat
      /\ M.collateral \in Nat /\ market[m].collateral \in Nat
      /\ P.balance < agent[a].balance
      /\ P.balance + M.collateral = agent[a].balance + market[m].collateral
  BY LedgerFacts DEF ProfileType, MarketType, Entered, Moved
<1>3. Free'[a] = P.balance /\ a \in DOMAIN Free /\ m \in DOMAIN Pot
  BY <1>1 DEF Free, Pot
<1>4. /\ 0 < stake /\ stake <= Free[a]
      /\ Free[a] - stake = P.balance /\ Pot[m] + stake = M.collateral
  BY <1>1, <1>2, <1>3
<1> HIDE DEF stake
<1>5. /\ Free' = [Free EXCEPT ![a] = @ - stake] /\ Pot' = [Pot EXCEPT ![m] = @ + stake]
  BY <1>1, <1>4
<1>6. PICK s \in Sides :
          /\ Position(P, m)[s] > Position(agent[a], m)[s]
          /\ Position(P, m) = [Position(agent[a], m) EXCEPT ![s] = Position(P, m)[s]]
  BY DEF Entered
<1>7. Claim'[a][m] = Position(P, m)
  BY <1>1 DEF Claim
<1>8. /\ Claim'[a][m][s] > Claim[a][m][s]
      /\ Claim' = [Claim EXCEPT ![a][m][s] = Claim'[a][m][s]]
  BY <1>1, <1>6, <1>7
<1> QED
  BY <1>1, <1>4, <1>5, <1>8 DEF E!Bet, Free, Claim, Pot, Stage, stake

LEMMA SaleIsRefund ==
    ASSUME LedgerInv, NEW a \in Agents, NEW m \in MarketIds, NEW M \in MarketType,
           NEW P \in ProfileType, Moved(a, m, M, P), Left(a, m, P)
    PROVE  E!Refund(a, m)
<1> DEFINE refund == Free'[a] - Free[a]
<1>1. /\ Stage' = Stage /\ Stage[m] = "trading"
      /\ Free[a] = agent[a].balance /\ Free' = [Free EXCEPT ![a] = P.balance]
      /\ Claim[a][m] = Position(agent[a], m)
      /\ Claim' = [Claim EXCEPT ![a][m] = Position(P, m)]
      /\ Pot[m] = market[m].collateral /\ Pot' = [Pot EXCEPT ![m] = M.collateral]
  BY TradeEscrow
<1>2. /\ P.balance \in Nat /\ agent[a].balance \in Nat
      /\ M.collateral \in Nat /\ market[m].collateral \in Nat
      /\ P.balance >= agent[a].balance
      /\ P.balance + M.collateral = agent[a].balance + market[m].collateral
  BY LedgerFacts DEF ProfileType, MarketType, Left, Moved
<1>3. Free'[a] = P.balance
  BY <1>1 DEF Free
<1>4. /\ 0 <= refund /\ refund <= Pot[m]
      /\ Free[a] + refund = P.balance /\ Pot[m] - refund = M.collateral
  BY <1>1, <1>2, <1>3
<1> HIDE DEF refund
<1>5. /\ Free' = [Free EXCEPT ![a] = @ + refund] /\ Pot' = [Pot EXCEPT ![m] = @ - refund]
  BY <1>1, <1>4
<1>6. Claim'[a][m] = Position(P, m)
  BY <1>1 DEF Claim
<1>7. Position(P, m) \in [Sides -> Nat] /\ Position(agent[a], m) \in [Sides -> Nat]
  BY LedgerFacts, PositionTyped
<1>8. \A s \in Sides : Claim'[a][m][s] \in 0..Claim[a][m][s]
  <2> SUFFICES ASSUME NEW s \in Sides
               PROVE  Position(P, m)[s] \in 0..Position(agent[a], m)[s]
    BY <1>1, <1>6
  <2> QED
    BY <1>7 DEF Left
<1>9. Claim' = [Claim EXCEPT ![a][m] = Claim'[a][m]]
  BY <1>1, <1>6
<1> QED
  BY <1>1, <1>4, <1>5, <1>8, <1>9 DEF E!Refund, Free, Claim, Pot, Stage, refund

\* What the winners get is what the profiles held and no longer hold.
LEMMA WinningsAre ==
    ASSUME LedgerInv, NEW m \in MarketIds, NEW W \in SUBSET Agents, Settled(m, W),
           NEW due, due = [a \in W |-> Position(agent[a], m)[market[m].winner]]
    PROVE  SumOn(due, W) = Held(agent, m, market[m].winner)
                           - Held(agent', m, market[m].winner)
<1> DEFINE w == market[m].winner
           f == [a \in Agents |-> Position(agent[a], m)[w]]
           g == [a \in Agents |-> Position(agent'[a], m)[w]]
           d == [a \in Agents |-> IF a \in W THEN f[a] ELSE 0]
<1>0. /\ agent \in [Agents -> ProfileType] /\ agent' \in [Agents -> ProfileType]
      /\ w \in Sides
  BY LedgerFacts, SettledProfiles
<1>1. ASSUME NEW a \in Agents
      PROVE  f[a] \in Nat /\ g[a] \in Nat /\ d[a] \in Nat /\ f[a] = d[a] + g[a]
  <2>1. /\ Position(agent[a], m)[w] \in Nat /\ Position(agent'[a], m)[w] \in Nat
        /\ a \in W => Position(agent'[a], m)[w] = 0
        /\ a \notin W => agent'[a] = agent[a]
    BY <1>0, PositionTyped, SettledProfiles DEF NoShares
  <2> HIDE DEF w
  <2>2. /\ f[a] = Position(agent[a], m)[w] /\ g[a] = Position(agent'[a], m)[w]
        /\ d[a] = IF a \in W THEN f[a] ELSE 0
    OBVIOUS
  <2> HIDE DEF f, g, d
  <2> QED
    BY <2>1, <2>2
<1>2. /\ \A a \in W : due[a] = d[a]
      /\ \A a \in Agents \ W : d[a] = 0
  OBVIOUS
<1>3. Held(agent, m, w) = SumOn(f, Agents) /\ Held(agent', m, w) = SumOn(g, Agents)
  BY DEF Held
<1> HIDE DEF f, g, d, w
<1>4. /\ Summable(f, Agents) /\ Summable(g, Agents) /\ Summable(d, Agents)
      /\ Summable(d, W)
  BY <1>1, FiniteAssumption, FS_Subset DEF Summable
<1>5. SumOn(f, Agents) = SumOn(d, Agents) + SumOn(g, Agents)
  BY <1>1, <1>4, SumAdd
<1>6. SumOn(d, Agents) = SumOn(d, W)
  BY <1>2, <1>4, SumZeroOutside
<1>7. SumOn(due, W) = SumOn(d, W)
  BY <1>2, <1>4, SumSame
<1>8. SumOn(d, W) \in Int /\ SumOn(g, Agents) \in Int
  BY <1>4, SumRemove
<1> QED
  BY <1>3, <1>5, <1>6, <1>7, <1>8 DEF w

LEMMA SettlementPays ==
    ASSUME LedgerInv, NEW m \in MarketIds, NEW W \in SUBSET Agents, Settled(m, W)
    PROVE  E!Pay(W, m)
<1> DEFINE w == market[m].winner
           due == [a \in W |-> Claim[a][m][Stage[m]]]
<1>0. /\ agent \in [Agents -> ProfileType] /\ agent' \in [Agents -> ProfileType]
      /\ w \in Sides /\ market' = market /\ market[m].status = "closed"
      /\ market[m] \in MarketType
  BY LedgerFacts, SettledProfiles DEF Settled
<1>1. Stage' = Stage /\ Stage[m] = w
  BY <1>0 DEF Stage, StageOf
<1>2. due = [a \in W |-> Position(agent[a], m)[w]]
  BY <1>1, ClaimIs
<1>3. /\ E!SumFunction(due) = SumOn(due, W)
      /\ SumOn(due, W) = Held(agent, m, w) - Held(agent', m, w)
  BY <1>2, SumsAgree, WinningsAre
<1>4. /\ Held(agent, m, w) \in Nat /\ Held(agent', m, w) \in Nat
      /\ market[m].collateral \in Nat /\ market[m].shares[w] \in Nat
  BY <1>0, HeldFacts DEF MarketType
<1>5. /\ Pot[m] = market[m].collateral - (market[m].shares[w] - Held(agent, m, w))
      /\ Pot'[m] = market[m].collateral - (market[m].shares[w] - Held(agent', m, w))
      /\ \A n \in MarketIds \ {m} : Pot'[n] = Pot[n]
  BY SettledPots, PotIs
<1>6. E!SumFunction(due) <= Pot[m]
  <2>1. Liability(m) = Held(agent, m, w)
    BY <1>0, HeldSharesAre DEF Liability
  <2>2. Held(agent, m, w) <= Pot[m]
    BY <2>1, PotCovers, PotIs
  <2> HIDE DEF w, due
  <2> QED
    BY <1>3, <1>4, <1>5, <2>2
<1>7. Pot' = [Pot EXCEPT ![m] = @ - E!SumFunction(due)]
  <2>1. Pot'[m] = Pot[m] - E!SumFunction(due)
    <3> HIDE DEF w, due
    <3> QED
      BY <1>3, <1>4, <1>5
  <2>2. Pot = [n \in MarketIds |-> Pot[n]] /\ Pot' = [n \in MarketIds |-> Pot'[n]]
    BY DEF Pot
  <2> HIDE DEF due
  <2> QED
    BY ONLY <1>5, <2>1, <2>2, m \in MarketIds
<1>8. Free' = [a \in Agents |-> IF a \in W THEN Free[a] + due[a] ELSE Free[a]]
  <2>1. Free' = [a \in Agents |-> agent'[a].balance]
    BY DEF Free
  <2>2. ASSUME NEW a \in Agents
        PROVE  agent'[a].balance = IF a \in W THEN Free[a] + due[a] ELSE Free[a]
    BY <1>2, SettledProfiles DEF Free
  <2> HIDE DEF due
  <2> QED
    BY <2>1, <2>2
<1>9. Claim' = [a \in Agents |->
          IF a \in W THEN [Claim[a] EXCEPT ![m] = NoShares] ELSE Claim[a]]
  <2>1. ASSUME NEW a \in W
        PROVE  [n \in MarketIds |-> Position(agent'[a], n)]
                 = [[n \in MarketIds |-> Position(agent[a], n)] EXCEPT ![m] = NoShares]
    BY SettledProfiles
  <2>2. ASSUME NEW a \in Agents \ W PROVE agent'[a] = agent[a]
    BY SettledProfiles
  <2> QED
    BY <2>1, <2>2, ClaimIs
<1> QED
  BY <1>0, <1>1, <1>6, <1>7, <1>8, <1>9
  DEF E!Pay, E!NoClaim, NoShares, Free, Claim, Pot, Stage

\* Every step of the program is one of the escrow, or none of it.
LEMMA EscrowStep ==
    ASSUME LedgerInv, [Next]_vars
    PROVE  \/ UNCHANGED E!vars
           \/ \E a \in Agents : E!Fund(a) \/ \E m \in MarketIds : E!Bet(a, m) \/ E!Refund(a, m)
           \/ \E m \in MarketIds : E!Start(m) \/ E!Resolve(m)
           \/ \E m \in MarketIds, W \in SUBSET Agents : E!Pay(W, m)
<1>0. IInv'
  BY Inductive DEF LedgerInv
<1>1. ASSUME Quiet, Stage' = Stage PROVE UNCHANGED E!vars
  BY <1>0, <1>1, QuietStutters
<1>2. CASE UNCHANGED vars
  <2>1. UNCHANGED <<market, agent, registered, money>>
    BY <1>2 DEF vars
  <2>2. Stage' = Stage
    BY <2>1, SameStage
  <2> QED
    BY <1>1, <2>1, <2>2, StillQuiet
<1>3. CASE Environment
  <2>1. Stage' = Stage
    BY <1>3, SameStage DEF Environment, Tick, Publish, FinishUndelegate
  <2> QED
    BY <1>1, <1>3, <2>1, QuietActions
<1>4. ASSUME NEW m \in MarketIds, MarketStep(m)
      PROVE  \/ UNCHANGED E!vars \/ E!Start(m) \/ E!Resolve(m)
             \/ \E W \in SUBSET Agents : E!Pay(W, m)
  <2>1. CASE \E w \in Windows : CreateMarket(m, w[1], w[2])
    <3>1. PICK w \in Windows : CreateMarket(m, w[1], w[2])
      BY <2>1
    <3> DEFINE M == [BlankMarket EXCEPT !.status = "pending",
                                        !.openTs = w[1], !.closeTs = w[2]]
    <3>2. market' = [market EXCEPT ![m] = M] /\ market[m].status = "none"
      BY <3>1 DEF CreateMarket
    <3>3. StageOf(M) = StageOf(market[m])
      BY <3>2 DEF StageOf, BlankMarket
    <3> HIDE DEF M
    <3> QED
      BY <1>1, <2>1, <3>2, <3>3, OneStage, QuietActions
  <2>2. CASE \E seed \in Seeds : OpenMarket(m, seed)
    BY <1>0, <2>2, OpenIsStart
  <2>3. CASE HaltMarket(m) \/ ResumeMarket(m)
    <3>1. PICK st \in {"open", "halted"} :
              market' = [market EXCEPT ![m] = [market[m] EXCEPT !.status = st]]
      BY <2>3 DEF HaltMarket, ResumeMarket
    <3> DEFINE M == [market[m] EXCEPT !.status = st]
    <3>2. StageOf(M) = StageOf(market[m])
      BY <2>3, LedgerFacts DEF HaltMarket, ResumeMarket, StageOf, MarketType
    <3>3. market' = [market EXCEPT ![m] = M]
      BY <3>1
    <3> HIDE DEF M
    <3> QED
      BY <1>1, <2>3, <3>2, <3>3, OneStage, QuietActions
  <2>4. CASE CloseMarket(m)
    BY <1>0, <2>4, CloseIsResolve
  <2>5. CASE DelegateMarket(m) \/ CommitAndUndelegateMarket(m)
    <3>1. Stage' = Stage
      BY <2>5, SameStage DEF DelegateMarket, CommitAndUndelegateMarket
    <3> QED
      BY <1>1, <2>5, <3>1, QuietActions
  <2>6. CASE \E batch \in SUBSET Agents : SettlePositions(m, batch)
    <3>1. PICK batch \in SUBSET Agents : SettlePositions(m, batch)
      BY <2>6
    <3> DEFINE W == {a \in batch : Holding(agent[a], m) # {}}
    <3>2. W \in SUBSET Agents /\ Settled(m, W)
      BY <3>1, SettlePositionsSettle
    <3> HIDE DEF W
    <3> QED
      BY <3>2, SettlementPays
  <2> QED
    BY <1>4, <2>1, <2>2, <2>3, <2>4, <2>5, <2>6 DEF MarketStep
<1>5. ASSUME NEW a \in Agents, AgentStep(a) PROVE UNCHANGED E!vars \/ E!Fund(a)
  <2>1. CASE \E amount \in Transfers : Deposit(a, amount) \/ Withdraw(a, amount)
    BY <2>1, DepositIsCustody, WithdrawIsCustody, CustodyIsFund
  <2>2. CASE ~\E amount \in Transfers : Deposit(a, amount) \/ Withdraw(a, amount)
    <3>1. \/ \E p \in Policies : RegisterAgent(a, p) \/ UpdatePolicy(a, p)
          \/ DelegateAgent(a) \/ CommitAndUndelegateAgent(a)
      BY <1>5, <2>2 DEF AgentStep
    <3>2. Stage' = Stage
      BY <3>1, SameStage DEF RegisterAgent, UpdatePolicy, DelegateAgent,
                             CommitAndUndelegateAgent
    <3> QED
      BY <1>1, <3>1, <3>2, QuietActions
  <2> QED
    BY <2>1, <2>2
<1>6. ASSUME NEW a \in Agents, NEW m \in MarketIds, Trade(a, m)
      PROVE  \/ E!Bet(a, m) \/ E!Refund(a, m) \/ \E W \in SUBSET Agents : E!Pay(W, m)
  <2>1. CASE Trades(a, m)
    BY <2>1, BetIsBet, SaleIsRefund DEF Trades
  <2>2. CASE \E W \in SUBSET Agents : Settles(m, W)
    BY <2>2, SettlementPays DEF Settles
  <2> QED
    BY <1>6, <2>1, <2>2, TradeKinds
<1> QED
  BY <1>2, <1>3, <1>4, <1>5, <1>6 DEF Next

\* Whatever the prices, the rounding and the order of the calls, stakes, refunds
\* and winnings go between the right balance and the right market's pot, winners
\* are paid once, and the pots always cover the claims.
THEOREM ProgramImplementsEscrow == Spec => ImplementsEscrow
<1>1. Init => E!Init
  BY EscrowInit
<1>2. LedgerInv => E!Covered
  BY EscrowCovered
<1>3. LedgerInv /\ [Next]_vars /\ E!Covered' => [E!Next]_(E!vars)
  BY EscrowStep DEF E!Next
<1> QED
  BY <1>1, <1>2, <1>3, LedgerInvariance, PTL DEF Spec, ImplementsEscrow, E!Spec

=============================================================================
