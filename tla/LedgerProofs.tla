---------------------------- MODULE LedgerProofs -----------------------------
(***************************************************************************)
(* Theorems about the program's books, for any number of markets, profiles *)
(* and slots: what the profiles hold is what the markets sold, and what    *)
(* the vault holds is what the profiles own and the markets still owe.     *)
(***************************************************************************)
EXTENDS KestrelProofs

-----------------------------------------------------------------------------
(* The slots of a profile.                                                 *)

Position(P, m) ==
    IF Holding(P, m) = {} THEN NoShares ELSE P.slots[Min(Holding(P, m))].shares

Used(P) == {i \in Slots : ~IsEmpty(P.slots[i])}

\* No market has two slots, and the length covers every slot in use.
SlotsOK(P) ==
    /\ \A i, j \in Used(P) : P.slots[i].mkt = P.slots[j].mkt => i = j
    /\ \A i \in Used(P) : i <= P.len

LEMMA PositionTyped ==
    ASSUME NEW P \in ProfileType, NEW m PROVE Position(P, m) \in [Sides -> Nat]
<1>1. CASE Holding(P, m) = {}
  BY <1>1 DEF Position, NoShares
<1>2. CASE Holding(P, m) # {}
  <2>1. Min(Holding(P, m)) \in Slots
    BY <1>2, SlotChoices, FirstSlot
  <2>2. P.slots[Min(Holding(P, m))].shares \in [Sides -> Nat]
    BY <2>1, SlotFacts
  <2> QED
    BY <1>2, <2>2 DEF Position
<1> QED
  BY <1>1, <1>2

\* A position is found wherever its slot is.
LEMMA PositionAt ==
    ASSUME NEW P \in ProfileType, SlotsOK(P), NEW m, NEW i \in Candidates(P, m)
    PROVE  Position(P, m) = P.slots[i].shares
<1>1. CASE Holding(P, m) = {}
  BY <1>1 DEF Position, Candidates, IsEmpty
<1>2. CASE Holding(P, m) # {}
  <2>1. i \in Holding(P, m) /\ Min(Holding(P, m)) \in Holding(P, m)
    BY <1>2, SlotChoices, FirstSlot DEF Candidates
  <2>2. i = Min(Holding(P, m))
    BY <2>1 DEF SlotsOK, Used, Holding
  <2> QED
    BY <1>2, <2>2 DEF Position
<1> QED
  BY <1>1, <1>2

\* All that a profile's positions depend on is its slots.
LEMMA SameSlots ==
    ASSUME NEW P, NEW Q, Q.slots = P.slots, Q.len = P.len
    PROVE  /\ Used(Q) = Used(P)
           /\ SlotsOK(P) => SlotsOK(Q)
           /\ \A m : Holding(Q, m) = Holding(P, m) /\ Position(Q, m) = Position(P, m)
<1>1. Used(Q) = Used(P)
  BY DEF Used
<1>2. \A m : Holding(Q, m) = Holding(P, m)
  BY DEF Holding
<1> QED
  BY <1>1, <1>2 DEF SlotsOK, Position

\* Q is P with another slot for its position in m.
Wrote(P, Q, m, i, S) ==
    /\ i \in Candidates(P, m)
    /\ S \in SlotType /\ (S.mkt = m \/ IsEmpty(S))
    /\ Q.slots = [P.slots EXCEPT ![i] = S]
    /\ P.len <= Q.len /\ i <= Q.len

\* Writing the slot that find_or_alloc_slot gives keeps one slot to a market,
\* sets the position in that market and leaves all others alone.
LEMMA WritePosition ==
    ASSUME NEW P \in ProfileType, NEW Q \in ProfileType, SlotsOK(P),
           NEW m \in MarketIds, NEW i, NEW S, Wrote(P, Q, m, i, S)
    PROVE  /\ SlotsOK(Q)
           /\ Position(Q, m) = S.shares
           /\ \A n \in MarketIds \ {m} : Position(Q, n) = Position(P, n)
           /\ Used(Q) \subseteq Used(P) \cup {i}
<1>1. i \in Slots /\ S \in SlotType /\ (S.mkt = m \/ IsEmpty(S))
  BY SlotChoices DEF Wrote
<1>2. Q.slots[i] = S /\ \A j \in Slots \ {i} : Q.slots[j] = P.slots[j]
  BY <1>1 DEF Wrote, ProfileType
<1>3. \A j \in Slots : ~IsEmpty(P.slots[j]) /\ P.slots[j].mkt = m => j = i
  <2>1. CASE Holding(P, m) = {}
    BY <2>1 DEF Holding
  <2>2. CASE Holding(P, m) # {}
    BY <2>2 DEF Wrote, Candidates, Holding, SlotsOK, Used
  <2> QED
    BY <2>1, <2>2
<1>4. Used(Q) \subseteq Used(P) \cup {i}
  BY <1>2 DEF Used
<1>5. SlotsOK(Q)
  <2>1. ASSUME NEW j \in Used(Q), NEW k \in Used(Q), Q.slots[j].mkt = Q.slots[k].mkt
        PROVE  j = k
    BY <1>1, <1>2, <1>3, <2>1 DEF SlotsOK, Used
  <2>2. ASSUME NEW j \in Used(Q) PROVE j <= Q.len
    <3>1. CASE j = i
      BY <3>1 DEF Wrote
    <3>2. CASE j # i
      <4>1. j \in Used(P) /\ j \in Nat
        BY <1>4, <3>2 DEF Used, Slots
      <4>2. j <= P.len /\ P.len <= Q.len /\ P.len \in Nat /\ Q.len \in Nat
        BY <4>1 DEF SlotsOK, Wrote, ProfileType
      <4> QED
        BY <4>1, <4>2
    <3> QED
      BY <3>1, <3>2
  <2> QED
    BY <2>1, <2>2 DEF SlotsOK
<1>6. Position(Q, m) = S.shares
  <2>1. CASE IsEmpty(S)
    <3>1. Holding(Q, m) = {}
      BY <1>2, <1>3, <2>1 DEF Holding
    <3> QED
      BY <2>1, <3>1 DEF Position, IsEmpty
  <2>2. CASE ~IsEmpty(S)
    <3>1. i \in Candidates(Q, m)
      BY <1>1, <1>2, <2>2 DEF Candidates, Holding
    <3> QED
      BY <1>2, <1>5, <3>1, PositionAt
  <2> QED
    BY <2>1, <2>2
<1>7. ASSUME NEW n \in MarketIds \ {m} PROVE Position(Q, n) = Position(P, n)
  <2>1. \A j \in Slots : j \in Holding(Q, n) <=> j \in Holding(P, n)
    <3> TAKE j \in Slots
    <3>1. CASE j # i
      BY <1>2, <3>1 DEF Holding
    <3>2. CASE j = i
      <4>1. i \notin Holding(Q, n)
        BY <1>1, <1>2 DEF Holding
      <4>2. i \notin Holding(P, n)
        BY DEF Wrote, Candidates, Holding
      <4> QED
        BY <3>2, <4>1, <4>2
    <3> QED
      BY <3>1, <3>2
  <2>2. Holding(Q, n) = Holding(P, n)
    BY <2>1 DEF Holding
  <2>3. i \notin Holding(Q, n)
    BY <1>1, <1>2 DEF Holding
  <2>4. Holding(Q, n) # {} =>
            Min(Holding(Q, n)) \in Slots /\ Min(Holding(Q, n)) # i
    BY <2>3, SlotChoices, FirstSlot
  <2> QED
    BY <1>2, <2>2, <2>4 DEF Position
<1> QED
  BY <1>4, <1>5, <1>6, <1>7
-----------------------------------------------------------------------------
(* What the profiles hold, own and are owed, as sums over the accounts ag   *)
(* and mk of all profiles and all markets.                                 *)

Held(ag, m, s) == SumOn([a \in Agents |-> Position(ag[a], m)[s]], Agents)

Balances(ag) == SumOn([a \in Agents |-> ag[a].balance], Agents)

\* What is left of a market's collateral: none of it is paid before it closes.
PotOf(mk, ag, m) ==
    mk[m].collateral - IF mk[m].status = "closed"
                       THEN mk[m].shares[mk[m].winner] - Held(ag, m, mk[m].winner)
                       ELSE 0

Pots(mk, ag) == SumOn([m \in MarketIds |-> PotOf(mk, ag, m)], MarketIds)

Returned(w, ag) == SumOn([a \in Agents |-> w[a] + ag[a].deposited - Funds], Agents)

Books(mk, ag) ==
    \A m \in MarketIds, s \in Sides :
        IF mk[m].status = "closed" THEN Held(ag, m, s) <= mk[m].shares[s]
                                   ELSE Held(ag, m, s) = mk[m].shares[s]

LEMMA SumIs ==
    ASSUME NEW S, NEW f, DOMAIN f = S PROVE Sum(f) = SumOn(f, S)
  BY DEF Sum, SumFunction, SumOn

LEMMA HeldSharesAre ==
    ASSUME NEW m, NEW s
    PROVE  HeldShares(m, s) = Held(agent, m, s) /\ HeldShares(m, s)' = Held(agent', m, s)
<1>1. HeldShares(m, s) = Sum([a \in Agents |-> Position(agent[a], m)[s]])
  BY DEF HeldShares, PositionOf, Position
<1>2. HeldShares(m, s)' = Sum([a \in Agents |-> Position(agent'[a], m)[s]])
  BY DEF HeldShares, PositionOf, Position
<1> QED
  BY <1>1, <1>2, SumIs DEF Held

LEMMA HeldFacts ==
    ASSUME NEW ag \in [Agents -> ProfileType], NEW m \in MarketIds, NEW s \in Sides
    PROVE  /\ Held(ag, m, s) \in Nat
           /\ \A a \in Agents : Position(ag[a], m)[s] <= Held(ag, m, s)
<1> DEFINE f == [a \in Agents |-> Position(ag[a], m)[s]]
<1>1. \A a \in Agents : f[a] \in Nat
  BY PositionTyped
<1>2. SumOn(f, Agents) \in Nat /\ \A a \in Agents : f[a] <= SumOn(f, Agents)
  <2> HIDE DEF f
  <2> QED
    BY <1>1, SumOfNats, FiniteAssumption
<1> QED
  BY <1>2 DEF Held

\* One profile written: its position is the difference.
LEMMA HeldWritten ==
    ASSUME NEW ag \in [Agents -> ProfileType], NEW a \in Agents, NEW P \in ProfileType,
           NEW bg, bg = [ag EXCEPT ![a] = P], NEW m \in MarketIds, NEW s \in Sides
    PROVE  Held(bg, m, s) = Held(ag, m, s) + Position(P, m)[s] - Position(ag[a], m)[s]
<1> DEFINE f == [b \in Agents |-> Position(ag[b], m)[s]]
           g == [b \in Agents |-> Position(bg[b], m)[s]]
<1>1. Summable(f, Agents)
  BY PositionTyped, FiniteAssumption DEF Summable
<1>2. g[a] = Position(P, m)[s] /\ g[a] \in Int /\ f[a] = Position(ag[a], m)[s]
  BY PositionTyped
<1>3. \A b \in Agents \ {a} : g[b] = f[b]
  OBVIOUS
<1>4. SumOn(g, Agents) = SumOn(f, Agents) + g[a] - f[a]
  <2> HIDE DEF f, g
  <2> QED
    BY <1>1, <1>2, <1>3, SumChange
<1> QED
  BY <1>2, <1>4 DEF Held

LEMMA HeldSame ==
    ASSUME NEW ag \in [Agents -> ProfileType], NEW bg, NEW m \in MarketIds, NEW s \in Sides,
           \A a \in Agents : Position(bg[a], m) = Position(ag[a], m)
    PROVE  Held(bg, m, s) = Held(ag, m, s)
<1> DEFINE f == [a \in Agents |-> Position(ag[a], m)[s]]
           g == [a \in Agents |-> Position(bg[a], m)[s]]
<1>1. Summable(f, Agents) /\ \A a \in Agents : g[a] = f[a]
  BY PositionTyped, FiniteAssumption DEF Summable
<1>2. SumOn(g, Agents) = SumOn(f, Agents)
  <2> HIDE DEF f, g
  <2> QED
    BY <1>1, SumSame
<1> QED
  BY <1>2 DEF Held

LEMMA BalancesWritten ==
    ASSUME NEW ag \in [Agents -> ProfileType], NEW a \in Agents, NEW P \in ProfileType
    PROVE  /\ Balances(ag) \in Nat
           /\ Balances([ag EXCEPT ![a] = P]) = Balances(ag) + P.balance - ag[a].balance
<1> DEFINE f == [b \in Agents |-> ag[b].balance]
           g == [b \in Agents |-> [ag EXCEPT ![a] = P][b].balance]
<1>1. \A b \in Agents : f[b] \in Nat
  BY DEF ProfileType
<1>2. g[a] = P.balance /\ g[a] \in Int /\ f[a] = ag[a].balance
  BY DEF ProfileType
<1>3. \A b \in Agents \ {a} : g[b] = f[b]
  OBVIOUS
<1>4. SumOn(f, Agents) \in Nat /\ SumOn(g, Agents) = SumOn(f, Agents) + g[a] - f[a]
  <2> HIDE DEF f, g
  <2>1. Summable(f, Agents)
    BY <1>1, FiniteAssumption DEF Summable
  <2> QED
    BY <1>1, <1>2, <1>3, <2>1, SumOfNats, SumChange, FiniteAssumption
<1> QED
  BY <1>2, <1>4 DEF Balances

LEMMA PotTyped ==
    ASSUME NEW mk \in [MarketIds -> MarketType], NEW ag \in [Agents -> ProfileType],
           NEW m \in MarketIds, mk[m].status = "closed" => mk[m].winner \in Sides
    PROVE  PotOf(mk, ag, m) \in Int
<1>1. mk[m].collateral \in Nat /\ mk[m].shares \in [Sides -> Nat]
  BY DEF MarketType
<1>2. CASE mk[m].status = "closed"
  <2>1. mk[m].winner \in Sides
    BY <1>2
  <2>2. mk[m].shares[mk[m].winner] \in Nat
    BY <1>1, <2>1
  <2>3. Held(ag, m, mk[m].winner) \in Nat
    BY <2>1, HeldFacts
  <2> QED
    BY <1>1, <1>2, <2>2, <2>3 DEF PotOf
<1>3. CASE mk[m].status # "closed"
  BY <1>1, <1>3 DEF PotOf
<1> QED
  BY <1>2, <1>3

\* One pot changed.
LEMMA PotsWritten ==
    ASSUME NEW mk, NEW ag, NEW nk, NEW bg, NEW m \in MarketIds,
           \A n \in MarketIds : PotOf(mk, ag, n) \in Int,
           PotOf(nk, bg, m) \in Int,
           \A n \in MarketIds \ {m} : PotOf(nk, bg, n) = PotOf(mk, ag, n)
    PROVE  /\ Pots(mk, ag) \in Int
           /\ Pots(nk, bg) = Pots(mk, ag) + PotOf(nk, bg, m) - PotOf(mk, ag, m)
<1> DEFINE f == [n \in MarketIds |-> PotOf(mk, ag, n)]
           g == [n \in MarketIds |-> PotOf(nk, bg, n)]
<1>1. /\ Summable(f, MarketIds) /\ g[m] \in Int /\ g[m] = PotOf(nk, bg, m)
      /\ f[m] = PotOf(mk, ag, m)
      /\ \A n \in MarketIds \ {m} : g[n] = f[n]
  BY FiniteAssumption DEF Summable
<1>2. /\ SumOn(f, MarketIds) \in Int
      /\ SumOn(g, MarketIds) = SumOn(f, MarketIds) + g[m] - f[m]
  <2> HIDE DEF f, g
  <2>1. SumOn(f, MarketIds) \in Int
    BY <1>1, SumRemove
  <2>2. Summable(f, MarketIds) /\ g[m] \in Int /\ \A n \in MarketIds \ {m} : g[n] = f[n]
    BY <1>1
  <2>3. SumOn(g, MarketIds) = SumOn(f, MarketIds) + g[m] - f[m]
    BY ONLY <2>2, m \in MarketIds, SumChange
  <2> QED
    BY <2>1, <2>3
<1> QED
  BY <1>1, <1>2 DEF Pots

LEMMA PotsSame ==
    ASSUME NEW mk, NEW ag, NEW nk, NEW bg,
           \A n \in MarketIds : PotOf(mk, ag, n) \in Int,
           \A n \in MarketIds : PotOf(nk, bg, n) = PotOf(mk, ag, n)
    PROVE  Pots(nk, bg) = Pots(mk, ag)
<1>1. 0 \in MarketIds
  BY MarketsAssumption
<1>2. PotOf(nk, bg, 0) = PotOf(mk, ag, 0) /\ PotOf(mk, ag, 0) \in Int
  BY <1>1
<1>3. /\ Pots(mk, ag) \in Int
      /\ Pots(nk, bg) = Pots(mk, ag) + PotOf(nk, bg, 0) - PotOf(mk, ag, 0)
  BY <1>1, <1>2, PotsWritten
<1> QED
  BY <1>2, <1>3

LEMMA ReturnedWritten ==
    ASSUME NEW ag \in [Agents -> ProfileType], NEW a \in Agents, NEW P \in ProfileType,
           NEW w \in [Agents -> Nat], NEW b \in Nat
    PROVE  /\ Returned(w, ag) \in Int
           /\ Returned([w EXCEPT ![a] = b], [ag EXCEPT ![a] = P])
                = Returned(w, ag) + (b + P.deposited) - (w[a] + ag[a].deposited)
<1> DEFINE f == [c \in Agents |-> w[c] + ag[c].deposited - Funds]
           g == [c \in Agents |-> [w EXCEPT ![a] = b][c]
                                  + [ag EXCEPT ![a] = P][c].deposited - Funds]
<1>1. \A c \in Agents : f[c] \in Int
  BY AmountAssumption DEF ProfileType
<1>2. P.deposited \in Nat /\ ag[a].deposited \in Nat /\ w[a] \in Nat
  BY DEF ProfileType
<1>3. /\ g[a] = b + P.deposited - Funds /\ g[a] \in Int
      /\ f[a] = w[a] + ag[a].deposited - Funds
  BY <1>2, AmountAssumption
<1>4. \A c \in Agents \ {a} : g[c] = f[c]
  OBVIOUS
<1>5. SumOn(f, Agents) \in Int /\ SumOn(g, Agents) = SumOn(f, Agents) + g[a] - f[a]
  <2> HIDE DEF f, g
  <2>1. Summable(f, Agents)
    BY <1>1, FiniteAssumption DEF Summable
  <2> QED
    BY <1>3, <1>4, <2>1, SumRemove, SumChange
<1> QED
  BY <1>2, <1>3, <1>5, AmountAssumption DEF Returned
-----------------------------------------------------------------------------
(* The invariant, and what keeps it.  A profile that does not exist yet is  *)
(* blank, so that registering it changes no sum.                           *)

LedgerInv ==
    /\ IInv
    /\ \A a \in Agents : SlotsOK(agent[a])
    /\ \A a \in Agents \ registered : agent[a] = NewProfile(AnyPolicy)
    /\ Books(market, agent)
    /\ vault = Balances(agent) + Pots(market, agent)
    /\ treasury * 10000 <= FeeBps * (Returned(wallet, agent) + treasury)

LEMMA BookOf ==
    ASSUME LedgerInv, NEW m \in MarketIds
    PROVE  /\ market[m].status = "closed" =>
                 /\ market[m].winner \in Sides
                 /\ \A s \in Sides : Held(agent, m, s) <= market[m].shares[s]
           /\ market[m].status # "closed" =>
                 \A s \in Sides : Held(agent, m, s) = market[m].shares[s]
  BY DEF LedgerInv, IInv, BookInv, Books

LEMMA LedgerFacts ==
    ASSUME LedgerInv
    PROVE  /\ market \in [MarketIds -> MarketType] /\ agent \in [Agents -> ProfileType]
           /\ \A m \in MarketIds : PotOf(market, agent, m) \in Int
           /\ Balances(agent) \in Nat /\ Pots(market, agent) \in Int
           /\ Returned(wallet, agent) \in Int
           /\ wallet \in [Agents -> Nat] /\ vault \in Nat /\ treasury \in Nat
<1>1. /\ market \in [MarketIds -> MarketType] /\ agent \in [Agents -> ProfileType]
      /\ wallet \in [Agents -> Nat] /\ vault \in Nat /\ treasury \in Nat
  BY DEF LedgerInv, IInv, TypeOK
<1>2. \A m \in MarketIds : PotOf(market, agent, m) \in Int
  BY <1>1, PotTyped DEF LedgerInv, IInv, BookInv
<1>3. Pots(market, agent) \in Int
  <2>1. 0 \in MarketIds
    BY MarketsAssumption
  <2> QED
    BY <1>2, <2>1, PotsWritten
<1>4. Balances(agent) \in Nat
  <2> DEFINE f == [a \in Agents |-> agent[a].balance]
  <2>1. \A a \in Agents : f[a] \in Nat
    BY <1>1 DEF ProfileType
  <2>2. SumOn(f, Agents) \in Nat
    <3> HIDE DEF f
    <3> QED
      BY <2>1, SumOfNats, FiniteAssumption
  <2> QED
    BY <2>2 DEF Balances
<1>5. Returned(wallet, agent) \in Int
  <2> DEFINE f == [a \in Agents |-> wallet[a] + agent[a].deposited - Funds]
  <2>1. Summable(f, Agents)
    BY <1>1, FiniteAssumption, AmountAssumption DEF Summable, ProfileType
  <2>2. SumOn(f, Agents) \in Int
    <3> HIDE DEF f
    <3> QED
      BY <2>1, SumRemove
  <2> QED
    BY <2>2 DEF Returned
<1> QED
  BY <1>1, <1>2, <1>3, <1>4, <1>5

\* A step after which every profile has its slots, balance and deposits, and
\* every market its shares and stakes.
Quiet ==
    /\ \A a \in Agents : /\ agent'[a].slots = agent[a].slots
                         /\ agent'[a].len = agent[a].len
                         /\ agent'[a].balance = agent[a].balance
                         /\ agent'[a].deposited = agent[a].deposited
    /\ \A a \in Agents \ registered' : agent'[a] = NewProfile(AnyPolicy)
    /\ \A m \in MarketIds : /\ market'[m].shares = market[m].shares
                            /\ market'[m].collateral = market[m].collateral
                            /\ market[m].status = "closed" => market'[m] = market[m]
    /\ UNCHANGED money

LEMMA QuietHeld ==
    ASSUME LedgerInv, IInv', Quiet
    PROVE  \A m \in MarketIds, s \in Sides : /\ Held(agent', m, s) = Held(agent, m, s)
                                             /\ Held(agent, m, s) \in Nat
<1>1. /\ market \in [MarketIds -> MarketType] /\ agent \in [Agents -> ProfileType]
      /\ market' \in [MarketIds -> MarketType] /\ agent' \in [Agents -> ProfileType]
  BY DEF LedgerInv, IInv, TypeOK
<1>2. \A a \in Agents, m \in MarketIds : Position(agent'[a], m) = Position(agent[a], m)
  BY SameSlots DEF Quiet
<1> QED
  BY <1>1, <1>2, HeldSame, HeldFacts

LEMMA QuietPots ==
    ASSUME LedgerInv, IInv', Quiet
    PROVE  \A m \in MarketIds : PotOf(market', agent', m) = PotOf(market, agent, m)
<1>1. /\ market \in [MarketIds -> MarketType] /\ agent \in [Agents -> ProfileType]
      /\ market' \in [MarketIds -> MarketType] /\ agent' \in [Agents -> ProfileType]
  BY DEF LedgerInv, IInv, TypeOK
<1>2. \A m \in MarketIds, s \in Sides : /\ Held(agent', m, s) = Held(agent, m, s)
                                        /\ Held(agent, m, s) \in Nat
  BY QuietHeld
<1>3. ASSUME NEW m \in MarketIds
      PROVE  PotOf(market', agent', m) = PotOf(market, agent, m)
  <2>1. CASE market[m].status = "closed"
    <3>1. market'[m] = market[m] /\ market[m].winner \in Sides
      BY <2>1 DEF Quiet, LedgerInv, IInv, BookInv
    <3> QED
      BY <1>2, <3>1 DEF PotOf
  <2>2. CASE market[m].status # "closed"
    <3>1. /\ market[m].collateral \in Nat
          /\ PotOf(market, agent, m) = market[m].collateral
      BY <1>1, <2>2 DEF PotOf, MarketType
    <3>2. CASE market'[m].status = "closed"
      <4>1. market'[m].winner \in Sides
        BY <3>2 DEF IInv, BookInv
      <4>2. /\ Held(agent', m, market'[m].winner) = market'[m].shares[market'[m].winner]
            /\ market'[m].shares[market'[m].winner] \in Nat
        BY <1>1, <1>2, <2>2, <4>1 DEF LedgerInv, Books, Quiet, MarketType
      <4>3. market'[m].collateral = market[m].collateral
        BY DEF Quiet
      <4>4. PotOf(market', agent', m)
              = market'[m].collateral - (market'[m].shares[market'[m].winner]
                                         - Held(agent', m, market'[m].winner))
        BY <3>2 DEF PotOf
      <4> QED
        BY <3>1, <4>2, <4>3, <4>4
    <3>3. CASE market'[m].status # "closed"
      BY <3>1, <3>3 DEF PotOf, Quiet
    <3> QED
      BY <3>2, <3>3
  <2> QED
    BY <2>1, <2>2
<1> QED
  BY <1>3

LEMMA QuietOK == ASSUME LedgerInv, IInv', Quiet PROVE LedgerInv'
<1>1. /\ market \in [MarketIds -> MarketType] /\ agent \in [Agents -> ProfileType]
      /\ market' \in [MarketIds -> MarketType] /\ agent' \in [Agents -> ProfileType]
  BY DEF LedgerInv, IInv, TypeOK
<1>2. \A a \in Agents : SlotsOK(agent'[a])
  BY SameSlots DEF LedgerInv, Quiet
<1>3. \A m \in MarketIds, s \in Sides : /\ Held(agent', m, s) = Held(agent, m, s)
                                        /\ Held(agent, m, s) \in Nat
  BY QuietHeld
<1>4. Books(market', agent')
  <2> SUFFICES ASSUME NEW m \in MarketIds, NEW s \in Sides
               PROVE  IF market'[m].status = "closed"
                      THEN Held(agent', m, s) <= market'[m].shares[s]
                      ELSE Held(agent', m, s) = market'[m].shares[s]
    BY DEF Books
  <2>1. /\ Held(agent', m, s) = Held(agent, m, s) /\ Held(agent, m, s) \in Nat
        /\ market'[m].shares[s] = market[m].shares[s]
        /\ market[m].status = "closed" => market'[m].status = "closed"
    BY <1>3 DEF Quiet
  <2>2. IF market[m].status = "closed" THEN Held(agent, m, s) <= market[m].shares[s]
                                       ELSE Held(agent, m, s) = market[m].shares[s]
    BY DEF LedgerInv, Books
  <2> QED
    BY <2>1, <2>2
<1>5. Pots(market', agent') = Pots(market, agent)
  BY QuietPots, PotsSame, LedgerFacts
<1>6. Balances(agent') = Balances(agent)
  <2>1. [a \in Agents |-> agent'[a].balance] = [a \in Agents |-> agent[a].balance]
    BY DEF Quiet
  <2> QED
    BY <2>1 DEF Balances
<1>7. Returned(wallet', agent') = Returned(wallet, agent)
  <2>1. [a \in Agents |-> wallet'[a] + agent'[a].deposited - Funds]
          = [a \in Agents |-> wallet[a] + agent[a].deposited - Funds]
    BY DEF Quiet, money
  <2> QED
    BY <2>1 DEF Returned
<1> QED
  BY <1>2, <1>4, <1>5, <1>6, <1>7 DEF LedgerInv, Quiet, money
\* A step that writes one profile's books: what its balance gains the vault
\* does, and what the treasury gains is covered by what the owner got back.
Custody(a, P, w, fee) ==
    /\ agent' = [agent EXCEPT ![a] = P]
    /\ P.slots = agent[a].slots /\ P.len = agent[a].len
    /\ a \in registered /\ UNCHANGED <<registered, market>>
    /\ wallet' = [wallet EXCEPT ![a] = w]
    /\ vault' = vault + P.balance - agent[a].balance
    /\ treasury' = treasury + fee
    /\ fee * 10000
          <= FeeBps * (((w + P.deposited) - (wallet[a] + agent[a].deposited)) + fee)

LEMMA Distributes ==
    ASSUME NEW x \in Int, NEW y \in Int
    PROVE  FeeBps * (x + y) = FeeBps * x + FeeBps * y /\ FeeBps * x \in Int
  BY AmountAssumption, Z3

LEMMA CustodyPots ==
    ASSUME LedgerInv, NEW a \in Agents, NEW P \in ProfileType, NEW w \in Nat,
           NEW fee \in Nat, Custody(a, P, w, fee)
    PROVE  /\ Books(market', agent')
           /\ \A m \in MarketIds : PotOf(market', agent', m) = PotOf(market, agent, m)
<1>1. agent \in [Agents -> ProfileType]
  BY LedgerFacts
<1>2. \A b \in Agents, m \in MarketIds : Position(agent'[b], m) = Position(agent[b], m)
  <2>1. agent'[a] = P /\ \A b \in Agents \ {a} : agent'[b] = agent[b]
    BY <1>1 DEF Custody
  <2> QED
    BY <2>1, SameSlots DEF Custody
<1>3. \A m \in MarketIds, s \in Sides : Held(agent', m, s) = Held(agent, m, s)
  BY <1>1, <1>2, HeldSame
<1>4. market' = market
  BY DEF Custody
<1>5. Books(market', agent')
  BY <1>3, <1>4 DEF Books, LedgerInv
<1>6. \A m \in MarketIds : PotOf(market', agent', m) = PotOf(market, agent, m)
  BY <1>3, <1>4 DEF PotOf, LedgerInv, IInv, BookInv
<1> QED
  BY <1>5, <1>6

LEMMA CustodyOK ==
    ASSUME LedgerInv, IInv', NEW a \in Agents, NEW P \in ProfileType, NEW w \in Nat,
           NEW fee \in Nat, Custody(a, P, w, fee)
    PROVE  LedgerInv'
<1>0. /\ agent \in [Agents -> ProfileType] /\ wallet \in [Agents -> Nat]
      /\ \A m \in MarketIds : PotOf(market, agent, m) \in Int
      /\ Balances(agent) \in Nat /\ Pots(market, agent) \in Int
      /\ Returned(wallet, agent) \in Int /\ vault \in Nat /\ treasury \in Nat
  BY LedgerFacts
<1>1. agent'[a] = P /\ \A b \in Agents \ {a} : agent'[b] = agent[b]
  BY <1>0 DEF Custody
<1> DEFINE ag == [agent EXCEPT ![a] = P]
           wl == [wallet EXCEPT ![a] = w]
<1>13. agent' = ag /\ wallet' = wl
  BY DEF Custody
<1>2. \A b \in Agents : SlotsOK(agent'[b])
  BY <1>1, SameSlots DEF LedgerInv, Custody
<1>3. Books(market', agent')
  BY CustodyPots
<1>8. Pots(market', agent') = Pots(market, agent)
  BY <1>0, CustodyPots, PotsSame
<1>9. Balances(agent') = Balances(agent) + P.balance - agent[a].balance
  <2>1. Balances(ag) = Balances(agent) + P.balance - agent[a].balance
    BY <1>0, BalancesWritten
  <2> HIDE DEF ag
  <2> QED
    BY <1>13, <2>1
<1>10. vault' = Balances(agent') + Pots(market', agent')
  <2>1. P.balance \in Nat /\ agent[a].balance \in Nat
    BY <1>0 DEF ProfileType
  <2>2. vault = Balances(agent) + Pots(market, agent)
    BY DEF LedgerInv
  <2>3. vault' = vault + P.balance - agent[a].balance
    BY DEF Custody
  <2> QED
    BY <1>0, <1>8, <1>9, <2>1, <2>2, <2>3
<1>11. treasury' * 10000 <= FeeBps * (Returned(wallet', agent') + treasury')
  <2> DEFINE back == (w + P.deposited) - (wallet[a] + agent[a].deposited)
             old == Returned(wallet, agent) + treasury
  <2>1. Returned(wallet', agent') = Returned(wallet, agent) + back
    <3>1. /\ P.deposited \in Nat /\ agent[a].deposited \in Nat /\ wallet[a] \in Nat
      BY <1>0 DEF ProfileType
    <3>2. Returned(wl, ag) = Returned(wallet, agent) + (w + P.deposited)
                             - (wallet[a] + agent[a].deposited)
      BY <1>0, ReturnedWritten
    <3>3. Returned(wl, ag) = Returned(wallet, agent) + back
      BY <1>0, <3>1, <3>2
    <3> HIDE DEF ag, wl, back
    <3> QED
      BY <1>13, <3>3
  <2>2. back \in Int /\ treasury' \in Nat
    BY <1>0 DEF ProfileType, IInv, TypeOK
  <2>3. /\ treasury * 10000 <= FeeBps * old
        /\ fee * 10000 <= FeeBps * (back + fee)
    BY DEF LedgerInv, Custody
  <2>4. treasury' = treasury + fee /\ old \in Int /\ old = Returned(wallet, agent) + treasury
    BY <1>0 DEF Custody
  <2> HIDE DEF back, old
  <2>5. Returned(wallet', agent') + treasury' = old + (back + fee)
    BY <1>0, <2>1, <2>2, <2>4
  <2>6. /\ FeeBps * (old + (back + fee)) = FeeBps * old + FeeBps * (back + fee)
        /\ FeeBps * old \in Int /\ FeeBps * (back + fee) \in Int
    BY <2>2, <2>4, Distributes, AmountAssumption
  <2>7. treasury' * 10000 <= FeeBps * (old + (back + fee))
    BY <1>0, <2>3, <2>4, <2>6
  <2> QED
    BY <2>5, <2>7
<1>12. \A b \in Agents \ registered' : agent'[b] = NewProfile(AnyPolicy)
  BY <1>1 DEF LedgerInv, Custody
<1> QED
  BY <1>2, <1>3, <1>10, <1>11, <1>12 DEF LedgerInv
\* A step that moves shares and USDC between one profile and one market's book.
Moved(a, m, M, P) ==
    /\ OneOfEach(m, M, a, P)
    /\ market[m].status \in {"open", "halted"} /\ M.status = market[m].status
    /\ SlotsOK(P)
    /\ \A n \in MarketIds \ {m} : Position(P, n) = Position(agent[a], n)
    /\ \A s \in Sides :
           M.shares[s] = market[m].shares[s] + Position(P, m)[s] - Position(agent[a], m)[s]
    /\ P.balance + M.collateral = agent[a].balance + market[m].collateral
    /\ P.deposited = agent[a].deposited
    /\ a \in registered

LEMMA MovedPots ==
    ASSUME LedgerInv, NEW a \in Agents, NEW m \in MarketIds,
           NEW M \in MarketType, NEW P \in ProfileType, Moved(a, m, M, P)
    PROVE  /\ Books(market', agent')
           /\ PotOf(market', agent', m) = M.collateral
           /\ PotOf(market, agent, m) = market[m].collateral
           /\ \A n \in MarketIds \ {m} :
                  PotOf(market', agent', n) = PotOf(market, agent, n)
<1> DEFINE ag == [agent EXCEPT ![a] = P]
<1>0. /\ market \in [MarketIds -> MarketType] /\ agent \in [Agents -> ProfileType]
      /\ \A n \in MarketIds : PotOf(market, agent, n) \in Int
      /\ Balances(agent) \in Nat /\ Pots(market, agent) \in Int
      /\ Returned(wallet, agent) \in Int /\ vault \in Nat /\ treasury \in Nat
      /\ wallet \in [Agents -> Nat]
  BY LedgerFacts
<1>1. /\ agent' = ag /\ agent'[a] = P /\ \A b \in Agents \ {a} : agent'[b] = agent[b]
      /\ market'[m] = M /\ \A n \in MarketIds \ {m} : market'[n] = market[n]
  BY <1>0 DEF Moved, OneOfEach
<1>3. \A n \in MarketIds \ {m}, s \in Sides : Held(agent', n, s) = Held(agent, n, s)
  <2>1. \A b \in Agents, n \in MarketIds \ {m} :
            Position(agent'[b], n) = Position(agent[b], n)
    BY <1>1 DEF Moved
  <2> QED
    BY <1>0, <2>1, HeldSame
<1>4. ASSUME NEW s \in Sides PROVE Held(agent', m, s) = M.shares[s]
  <2>0. agent \in [Agents -> ProfileType] /\ agent' = [agent EXCEPT ![a] = P]
    BY <1>0, <1>1
  <2>1. Held(agent', m, s)
          = Held(agent, m, s) + Position(P, m)[s] - Position(agent[a], m)[s]
    BY <2>0, HeldWritten
  <2>2. Held(agent, m, s) = market[m].shares[s]
    <3>1. market[m].status # "closed"
      BY DEF Moved
    <3> QED
      BY <3>1, BookOf
  <2>3. M.shares[s] = market[m].shares[s] + Position(P, m)[s] - Position(agent[a], m)[s]
    BY DEF Moved
  <2> HIDE DEF ag
  <2> QED
    BY <1>1, <2>1, <2>2, <2>3
<1>5. Books(market', agent')
  <2>1. M.status # "closed"
    BY DEF Moved
  <2>2. ASSUME NEW n \in MarketIds, NEW s \in Sides
        PROVE  IF market'[n].status = "closed"
               THEN Held(agent', n, s) <= market'[n].shares[s]
               ELSE Held(agent', n, s) = market'[n].shares[s]
    <3>1. CASE n = m
      BY <1>1, <1>4, <2>1, <3>1
    <3>2. CASE n # m
      <4>1. market'[n] = market[n] /\ Held(agent', n, s) = Held(agent, n, s)
        BY <1>1, <1>3, <3>2
      <4> QED
        BY <4>1, BookOf
    <3> QED
      BY <3>1, <3>2
  <2> QED
    BY <2>2 DEF Books
<1>6. /\ PotOf(market', agent', m) = M.collateral
      /\ PotOf(market, agent, m) = market[m].collateral
      /\ M.collateral \in Nat /\ market[m].collateral \in Nat
  BY <1>0, <1>1 DEF PotOf, Moved, MarketType
<1>7. \A n \in MarketIds \ {m} : PotOf(market', agent', n) = PotOf(market, agent, n)
  <2> TAKE n \in MarketIds \ {m}
  <2>1. market'[n] = market[n]
    BY <1>1
  <2>2. market[n].status = "closed" =>
            Held(agent', n, market[n].winner) = Held(agent, n, market[n].winner)
    BY <1>3, BookOf
  <2> QED
    BY <2>1, <2>2 DEF PotOf
<1> QED
  BY <1>5, <1>6, <1>7

LEMMA MovedOK ==
    ASSUME LedgerInv, IInv', NEW a \in Agents, NEW m \in MarketIds,
           NEW M \in MarketType, NEW P \in ProfileType, Moved(a, m, M, P)
    PROVE  LedgerInv'
<1> DEFINE ag == [agent EXCEPT ![a] = P]
<1>0. /\ market \in [MarketIds -> MarketType] /\ agent \in [Agents -> ProfileType]
      /\ \A n \in MarketIds : PotOf(market, agent, n) \in Int
      /\ Balances(agent) \in Nat /\ Pots(market, agent) \in Int
      /\ Returned(wallet, agent) \in Int /\ vault \in Nat /\ treasury \in Nat
      /\ wallet \in [Agents -> Nat]
  BY LedgerFacts
<1>1. /\ agent' = ag /\ agent'[a] = P /\ \A b \in Agents \ {a} : agent'[b] = agent[b]
      /\ market'[m] = M /\ \A n \in MarketIds \ {m} : market'[n] = market[n]
  BY <1>0 DEF Moved, OneOfEach
<1>2. \A b \in Agents : SlotsOK(agent'[b])
  BY <1>1 DEF LedgerInv, Moved
<1>3. Books(market', agent')
  BY MovedPots
<1>6. /\ PotOf(market', agent', m) = M.collateral
      /\ PotOf(market, agent, m) = market[m].collateral
      /\ M.collateral \in Nat /\ market[m].collateral \in Nat
  BY <1>0, MovedPots DEF MarketType
<1>7. \A n \in MarketIds \ {m} : PotOf(market', agent', n) = PotOf(market, agent, n)
  BY MovedPots
<1>8. Pots(market', agent') = Pots(market, agent) + M.collateral - market[m].collateral
  BY <1>0, <1>6, <1>7, PotsWritten
<1>9. Balances(agent') = Balances(agent) + P.balance - agent[a].balance
  <2>1. Balances(ag) = Balances(agent) + P.balance - agent[a].balance
    BY <1>0, BalancesWritten
  <2> HIDE DEF ag
  <2> QED
    BY <1>1, <2>1
<1>10. vault' = Balances(agent') + Pots(market', agent')
  <2>1. P.balance \in Nat /\ agent[a].balance \in Nat
    BY <1>0 DEF ProfileType
  <2>2. /\ vault = Balances(agent) + Pots(market, agent) /\ vault' = vault
        /\ P.balance + M.collateral = agent[a].balance + market[m].collateral
    BY DEF LedgerInv, Moved, OneOfEach, money
  <2> QED
    BY <1>0, <1>6, <1>8, <1>9, <2>1, <2>2
<1>11. Returned(wallet', agent') = Returned(wallet, agent)
  <2>1. \A b \in Agents : agent'[b].deposited = agent[b].deposited
    BY <1>1 DEF Moved
  <2>2. [b \in Agents |-> wallet'[b] + agent'[b].deposited - Funds]
          = [b \in Agents |-> wallet[b] + agent[b].deposited - Funds]
    BY <2>1 DEF Moved, OneOfEach, money
  <2> QED
    BY <2>2 DEF Returned
<1>12. /\ \A b \in Agents \ registered' : agent'[b] = NewProfile(AnyPolicy)
       /\ treasury' = treasury
  BY <1>1 DEF LedgerInv, Moved, OneOfEach, money
<1> QED
  BY <1>2, <1>3, <1>10, <1>11, <1>12 DEF LedgerInv

\* A step that pays a set of profiles their positions in a closed market.
Settled(m, W) ==
    /\ market[m].status = "closed"
    /\ W \subseteq registered /\ \A a \in W : Holding(agent[a], m) # {}
    /\ agent' = [a \in Agents |->
                    IF a \in W THEN Paid(market[m], agent[a], Min(Holding(agent[a], m)))
                    ELSE agent[a]]
    /\ UNCHANGED <<now, oracle, marketCount, market, registered, places, money>>

LEMMA PaidFacts ==
    ASSUME NEW M \in MarketType, M.winner \in Sides, NEW P \in ProfileType, SlotsOK(P),
           NEW m \in MarketIds, Holding(P, m) # {}
    PROVE  LET Q == Paid(M, P, Min(Holding(P, m)))
           IN  /\ Q \in ProfileType /\ SlotsOK(Q)
               /\ Position(Q, m) = NoShares
               /\ \A n \in MarketIds \ {m} : Position(Q, n) = Position(P, n)
               /\ Q.balance = P.balance + Position(P, m)[M.winner]
               /\ Q.deposited = P.deposited
               /\ Used(Q) \subseteq Used(P) /\ Q.policy = P.policy
               /\ PayoutOf(M, P, Min(Holding(P, m))) = Position(P, m)[M.winner]
<1> DEFINE i == Min(Holding(P, m))
           Q == Paid(M, P, i)
<1>1. i \in Holding(P, m) /\ i \in Slots
  BY SlotChoices, FirstSlot
<1>2. /\ Position(P, m) = P.slots[i].shares
      /\ PayoutOf(M, P, i) = Position(P, m)[M.winner]
  BY DEF Position, PayoutOf
<1> HIDE DEF i
<1>3. Q \in ProfileType
  BY <1>1, PaidOK
<1>4. /\ Q.slots = [P.slots EXCEPT ![i] = DefaultSlot] /\ Q.len = P.len
      /\ Q.balance = P.balance + PayoutOf(M, P, i) /\ Q.deposited = P.deposited
      /\ Q.policy = P.policy
  BY DEF Paid, ProfileType
<1> HIDE DEF Q
<1>5. i \in Used(P)
  BY <1>1 DEF Used, Holding
<1>6. DefaultSlot \in SlotType /\ IsEmpty(DefaultSlot) /\ DefaultSlot.shares = NoShares
  BY MarketsAssumption DEF DefaultSlot, SlotType, NoShares, IsEmpty
<1>7. Wrote(P, Q, m, i, DefaultSlot)
  <2>1. P.len <= Q.len /\ i <= Q.len
    BY <1>4, <1>5 DEF SlotsOK, ProfileType
  <2>2. i \in Candidates(P, m)
    BY <1>1 DEF Candidates
  <2> QED
    BY <1>4, <1>6, <2>1, <2>2 DEF Wrote
<1>8. Used(Q) \subseteq Used(P)
  BY <1>3, <1>5, <1>7, WritePosition
<1> QED
  BY <1>2, <1>3, <1>4, <1>6, <1>7, <1>8, WritePosition DEF i, Q
\* Two ways to split the same amounts have the same two sums together.
LEMMA SumShift ==
    ASSUME NEW S, NEW f, NEW g, NEW p, NEW q,
           Summable(f, S), Summable(g, S), Summable(p, S), Summable(q, S),
           \A x \in S : f[x] + g[x] = p[x] + q[x]
    PROVE  SumOn(f, S) + SumOn(g, S) = SumOn(p, S) + SumOn(q, S)
<1> DEFINE h == [x \in S |-> f[x] + g[x]]
<1>1. \A x \in S : h[x] = f[x] + g[x]
  OBVIOUS
<1>2. \A x \in S : h[x] = p[x] + q[x]
  OBVIOUS
<1> HIDE DEF h
<1>3. SumOn(h, S) = SumOn(f, S) + SumOn(g, S)
  BY <1>1, SumAdd
<1>4. SumOn(h, S) = SumOn(p, S) + SumOn(q, S)
  BY <1>2, SumAdd
<1> QED
  BY <1>3, <1>4

\* What each profile has after a settlement.
LEMMA SettledProfiles ==
    ASSUME LedgerInv, NEW m \in MarketIds, NEW W, Settled(m, W)
    PROVE  /\ market[m].winner \in Sides
           /\ agent' \in [Agents -> ProfileType]
           /\ \A a \in Agents :
                 /\ SlotsOK(agent'[a]) /\ Used(agent'[a]) \subseteq Used(agent[a])
                 /\ \A n \in MarketIds \ {m} :
                        Position(agent'[a], n) = Position(agent[a], n)
                 /\ agent'[a].deposited = agent[a].deposited
           /\ \A a \in W : /\ Position(agent'[a], m) = NoShares
                           /\ agent'[a].balance = agent[a].balance
                                  + Position(agent[a], m)[market[m].winner]
           /\ \A a \in Agents \ W : agent'[a] = agent[a]
<1>1. market \in [MarketIds -> MarketType] /\ agent \in [Agents -> ProfileType]
  BY LedgerFacts
<1>2. market[m].winner \in Sides /\ market[m] \in MarketType
  BY <1>1, BookOf DEF Settled
<1>3. \A a \in W : agent'[a] = Paid(market[m], agent[a], Min(Holding(agent[a], m)))
                   /\ a \in Agents /\ Holding(agent[a], m) # {}
  BY DEF Settled, LedgerInv, IInv, TypeOK
<1>4. \A a \in Agents \ W : agent'[a] = agent[a]
  BY DEF Settled
<1>5. ASSUME NEW a \in W
      PROVE  /\ agent'[a] \in ProfileType /\ SlotsOK(agent'[a])
             /\ Used(agent'[a]) \subseteq Used(agent[a])
             /\ \A n \in MarketIds \ {m} : Position(agent'[a], n) = Position(agent[a], n)
             /\ agent'[a].deposited = agent[a].deposited
             /\ Position(agent'[a], m) = NoShares
             /\ agent'[a].balance = agent[a].balance
                                        + Position(agent[a], m)[market[m].winner]
  <2>1. agent[a] \in ProfileType /\ SlotsOK(agent[a])
    BY <1>1, <1>3 DEF LedgerInv
  <2> QED
    BY <1>2, <1>3, <2>1, PaidFacts
<1>6. agent' \in [Agents -> ProfileType]
  <2>1. agent' = [a \in Agents |-> agent'[a]]
    BY DEF Settled
  <2>2. \A a \in Agents : agent'[a] \in ProfileType
    BY <1>1, <1>4, <1>5
  <2> QED
    BY <2>1, <2>2
<1> QED
  BY <1>2, <1>4, <1>5, <1>6 DEF LedgerInv

LEMMA SettledPots ==
    ASSUME LedgerInv, NEW m \in MarketIds, NEW W, Settled(m, W)
    PROVE  /\ Books(market', agent')
           /\ \A s \in Sides : Held(agent', m, s) <= Held(agent, m, s)
           /\ PotOf(market', agent', m)
                = market[m].collateral - (market[m].shares[market[m].winner]
                                          - Held(agent', m, market[m].winner))
           /\ PotOf(market, agent, m)
                = market[m].collateral - (market[m].shares[market[m].winner]
                                          - Held(agent, m, market[m].winner))
           /\ \A n \in MarketIds \ {m} :
                  PotOf(market', agent', n) = PotOf(market, agent, n)
<1> DEFINE w == market[m].winner
<1>0. /\ market \in [MarketIds -> MarketType] /\ agent \in [Agents -> ProfileType]
      /\ \A n \in MarketIds : PotOf(market, agent, n) \in Int
      /\ Balances(agent) \in Nat /\ Pots(market, agent) \in Int
      /\ market' = market /\ agent' \in [Agents -> ProfileType] /\ w \in Sides
  BY LedgerFacts, SettledProfiles DEF Settled
<1>1. \A n \in MarketIds \ {m}, s \in Sides : Held(agent', n, s) = Held(agent, n, s)
  BY <1>0, SettledProfiles, HeldSame
<1>2. ASSUME NEW s \in Sides PROVE Held(agent', m, s) <= Held(agent, m, s)
  <2> DEFINE u == [a \in Agents |-> Position(agent'[a], m)[s]]
             v == [a \in Agents |-> Position(agent[a], m)[s]]
  <2>1. \A a \in Agents : Position(agent[a], m)[s] \in Nat
    BY <1>0, PositionTyped
  <2>2. \A a \in Agents : u[a] \in Nat /\ v[a] \in Nat /\ u[a] <= v[a]
    <3> TAKE a \in Agents
    <3>1. CASE a \in W
      <4>1. Position(agent'[a], m)[s] = 0
        BY <3>1, SettledProfiles DEF NoShares
      <4> QED
        BY <2>1, <4>1
    <3>2. CASE a \notin W
      BY <2>1, <3>2, SettledProfiles
    <3> QED
      BY <3>1, <3>2
  <2>3. SumOn(u, Agents) <= SumOn(v, Agents)
    <3> HIDE DEF u, v
    <3>1. Summable(u, Agents) /\ Summable(v, Agents)
      BY <2>2, FiniteAssumption DEF Summable
    <3> QED
      BY <2>2, <3>1, SumMonotone
  <2> QED
    BY <2>3 DEF Held
<1>3. Books(market', agent')
  <2>1. ASSUME NEW n \in MarketIds, NEW s \in Sides
        PROVE  IF market[n].status = "closed" THEN Held(agent', n, s) <= market[n].shares[s]
                                              ELSE Held(agent', n, s) = market[n].shares[s]
    <3>1. CASE n = m
      <4>1. market[m].status = "closed" /\ Held(agent, m, s) <= market[m].shares[s]
        BY BookOf DEF Settled
      <4>2. Held(agent', m, s) \in Nat /\ Held(agent, m, s) \in Nat
            /\ market[m].shares[s] \in Nat
        BY <1>0, HeldFacts DEF MarketType
      <4> QED
        BY <1>2, <3>1, <4>1, <4>2
    <3>2. CASE n # m
      <4>1. Held(agent', n, s) = Held(agent, n, s)
        BY <1>1, <3>2
      <4> QED
        BY <4>1, BookOf
    <3> QED
      BY <3>1, <3>2
  <2> QED
    BY <1>0, <2>1 DEF Books
<1>6. /\ PotOf(market', agent', m) = market[m].collateral
                                     - (market[m].shares[w] - Held(agent', m, w))
      /\ PotOf(market, agent, m) = market[m].collateral
                                   - (market[m].shares[w] - Held(agent, m, w))
  BY <1>0 DEF PotOf, Settled
<1>7. \A n \in MarketIds \ {m} : PotOf(market', agent', n) = PotOf(market, agent, n)
  <2> TAKE n \in MarketIds \ {m}
  <2>1. market[n].status = "closed" =>
            Held(agent', n, market[n].winner) = Held(agent, n, market[n].winner)
    BY <1>1, BookOf
  <2> QED
    BY <1>0, <2>1 DEF PotOf
<1> QED
  BY <1>2, <1>3, <1>6, <1>7

LEMMA SettledOK ==
    ASSUME LedgerInv, IInv', NEW m \in MarketIds, NEW W, Settled(m, W)
    PROVE  LedgerInv'
<1> DEFINE w == market[m].winner
           f == [a \in Agents |-> agent[a].balance]
           g == [a \in Agents |-> Position(agent[a], m)[w]]
           p == [a \in Agents |-> agent'[a].balance]
           q == [a \in Agents |-> Position(agent'[a], m)[w]]
<1>0. /\ market \in [MarketIds -> MarketType] /\ agent \in [Agents -> ProfileType]
      /\ \A n \in MarketIds : PotOf(market, agent, n) \in Int
      /\ Balances(agent) \in Nat /\ Pots(market, agent) \in Int
      /\ market' = market /\ agent' \in [Agents -> ProfileType] /\ w \in Sides
  BY LedgerFacts, SettledProfiles DEF Settled
<1>3. Books(market', agent')
  BY SettledPots
<1>4. Balances(agent') + Held(agent', m, w) = Balances(agent) + Held(agent, m, w)
  <2>1. \A a \in Agents : /\ f[a] \in Int /\ g[a] \in Int /\ p[a] \in Int /\ q[a] \in Int
                          /\ p[a] + q[a] = f[a] + g[a]
    <3> TAKE a \in Agents
    <3>1. /\ agent[a].balance \in Nat /\ agent'[a].balance \in Nat
          /\ Position(agent[a], m)[w] \in Nat /\ Position(agent'[a], m)[w] \in Nat
      BY <1>0, PositionTyped DEF ProfileType
    <3>2. CASE a \in W
      <4>1. /\ Position(agent'[a], m)[w] = 0
            /\ agent'[a].balance = agent[a].balance + Position(agent[a], m)[w]
        BY <1>0, <3>2, SettledProfiles DEF NoShares
      <4> HIDE DEF w
      <4> QED
        BY <3>1, <4>1
    <3>3. CASE a \notin W
      BY <3>1, <3>3, SettledProfiles
    <3> QED
      BY <3>2, <3>3
  <2>2. SumOn(p, Agents) + SumOn(q, Agents) = SumOn(f, Agents) + SumOn(g, Agents)
    <3> HIDE DEF f, g, p, q
    <3>1. /\ Summable(f, Agents) /\ Summable(g, Agents)
          /\ Summable(p, Agents) /\ Summable(q, Agents)
      BY <2>1, FiniteAssumption DEF Summable
    <3> QED
      BY <2>1, <3>1, SumShift
  <2> QED
    BY <2>2 DEF Held, Balances
<1>5. /\ Held(agent, m, w) \in Nat /\ Held(agent', m, w) \in Nat
      /\ market[m].shares[w] \in Nat /\ market[m].collateral \in Nat
      /\ Balances(agent') \in Int
  <2>1. Held(agent, m, w) \in Nat /\ Held(agent', m, w) \in Nat
        /\ market[m].shares[w] \in Nat /\ market[m].collateral \in Nat
    <3> HIDE DEF w
    <3> QED
      BY <1>0, HeldFacts DEF MarketType
  <2>2. Summable(p, Agents)
    BY <1>0, FiniteAssumption DEF Summable, ProfileType
  <2>3. SumOn(p, Agents) \in Int
    <3> HIDE DEF p
    <3> QED
      BY <2>2, SumRemove
  <2> QED
    BY <2>1, <2>3 DEF Balances
<1>6. /\ PotOf(market', agent', m) = market[m].collateral
                                     - (market[m].shares[w] - Held(agent', m, w))
      /\ PotOf(market, agent, m) = market[m].collateral
                                   - (market[m].shares[w] - Held(agent, m, w))
      /\ \A n \in MarketIds \ {m} :
             PotOf(market', agent', n) = PotOf(market, agent, n)
  BY SettledPots
<1>8. Pots(market', agent')
        = Pots(market, agent) + PotOf(market', agent', m) - PotOf(market, agent, m)
  <2>1. PotOf(market', agent', m) \in Int
    <3> HIDE DEF w
    <3> QED
      BY <1>5, <1>6
  <2> QED
    BY <1>0, <1>6, <2>1, PotsWritten
<1>9. vault' = Balances(agent') + Pots(market', agent')
  <2>1. vault' = vault /\ vault = Balances(agent) + Pots(market, agent)
    BY DEF Settled, LedgerInv, money
  <2> HIDE DEF w
  <2> QED
    BY <1>0, <1>4, <1>5, <1>6, <1>8, <2>1
<1>10. Returned(wallet', agent') = Returned(wallet, agent)
  <2>1. [b \in Agents |-> wallet'[b] + agent'[b].deposited - Funds]
          = [b \in Agents |-> wallet[b] + agent[b].deposited - Funds]
    BY SettledProfiles DEF Settled, money
  <2> QED
    BY <2>1 DEF Returned
<1>11. \A a \in Agents \ registered' : agent'[a] = NewProfile(AnyPolicy)
  BY SettledProfiles DEF Settled, LedgerInv
<1>12. \A a \in Agents : SlotsOK(agent'[a])
  BY SettledProfiles
<1>13. treasury' = treasury
  BY DEF Settled, money
<1> QED
  BY <1>3, <1>9, <1>10, <1>11, <1>12, <1>13 DEF LedgerInv
-----------------------------------------------------------------------------
(* What each action is: quiet, custody, a trade or a settlement.            *)

LEMMA BlankProfile ==
    ASSUME NEW p PROVE  /\ Used(NewProfile(p)) = {} /\ SlotsOK(NewProfile(p))
                        /\ \A m : Position(NewProfile(p), m) = NoShares
                        /\ NewProfile(p).balance = 0 /\ NewProfile(p).deposited = 0
<1>1. \A i \in Slots : IsEmpty(NewProfile(p).slots[i])
  BY DEF NewProfile, DefaultSlot, IsEmpty
<1>2. Used(NewProfile(p)) = {} /\ \A m : Holding(NewProfile(p), m) = {}
  BY <1>1 DEF Used, Holding
<1> QED
  BY <1>2 DEF SlotsOK, Position, NewProfile

LEMMA LedgerInit == Init => LedgerInv
<1> SUFFICES ASSUME Init PROVE LedgerInv
  OBVIOUS
<1>0. IInv
  BY InitOK
<1>1. /\ \A a \in Agents : agent[a] = NewProfile(AnyPolicy) /\ wallet[a] = Funds
      /\ \A m \in MarketIds : market[m] = BlankMarket
      /\ vault = 0 /\ treasury = 0
  BY DEF Init
<1>2. \A m \in MarketIds, s \in Sides : Held(agent, m, s) = 0
  <2> TAKE m \in MarketIds, s \in Sides
  <2> DEFINE f == [a \in Agents |-> Position(agent[a], m)[s]]
  <2>1. \A a \in Agents : f[a] = 0
    BY <1>1, BlankProfile DEF NoShares
  <2>2. SumOn(f, Agents) = 0
    <3> HIDE DEF f
    <3> QED
      BY <2>1, FiniteAssumption, SumOfZeros
  <2> QED
    BY <2>2 DEF Held
<1>3. Books(market, agent)
  BY <1>1, <1>2 DEF Books, BlankMarket, NoShares
<1>4. Balances(agent) = 0
  <2> DEFINE f == [a \in Agents |-> agent[a].balance]
  <2>1. \A a \in Agents : f[a] = 0
    BY <1>1, BlankProfile
  <2>2. SumOn(f, Agents) = 0
    <3> HIDE DEF f
    <3> QED
      BY <2>1, FiniteAssumption, SumOfZeros
  <2> QED
    BY <2>2 DEF Balances
<1>5. Pots(market, agent) = 0
  <2> DEFINE f == [m \in MarketIds |-> PotOf(market, agent, m)]
  <2>1. \A m \in MarketIds : f[m] = 0
    BY <1>1 DEF PotOf, BlankMarket
  <2>2. SumOn(f, MarketIds) = 0
    <3> HIDE DEF f
    <3> QED
      BY <2>1, FiniteAssumption, SumOfZeros
  <2> QED
    BY <2>2 DEF Pots
<1>6. Returned(wallet, agent) = 0
  <2> DEFINE f == [a \in Agents |-> wallet[a] + agent[a].deposited - Funds]
  <2>1. \A a \in Agents : f[a] = 0
    BY <1>1, BlankProfile, AmountAssumption
  <2>2. SumOn(f, Agents) = 0
    <3> HIDE DEF f
    <3> QED
      BY <2>1, FiniteAssumption, SumOfZeros
  <2> QED
    BY <2>2 DEF Returned
<1>7. treasury * 10000 <= FeeBps * (Returned(wallet, agent) + treasury)
  BY <1>1, <1>6, AmountAssumption
<1>8. vault = Balances(agent) + Pots(market, agent)
  BY <1>1, <1>4, <1>5
<1>9. \A a \in Agents : SlotsOK(agent[a])
  BY <1>1, BlankProfile
<1> QED
  BY <1>0, <1>1, <1>3, <1>7, <1>8, <1>9 DEF LedgerInv

\* A step that leaves the profiles and the money alone, and a market's shares and
\* stakes, is quiet.
LEMMA QuietMarket ==
    ASSUME LedgerInv, NEW m \in MarketIds, NEW M,
           market' = [market EXCEPT ![m] = M], market[m].status # "closed",
           M.shares = market[m].shares, M.collateral = market[m].collateral,
           UNCHANGED <<agent, registered, money>>
    PROVE  Quiet
<1>1. market'[m] = M /\ \A n \in MarketIds \ {m} : market'[n] = market[n]
  BY LedgerFacts
<1> QED
  BY <1>1 DEF Quiet, LedgerInv

LEMMA StillQuiet ==
    ASSUME LedgerInv, UNCHANGED <<market, agent, registered, money>> PROVE Quiet
  BY DEF Quiet, LedgerInv

LEMMA QuietActions ==
    ASSUME LedgerInv,
           \/ Environment
           \/ \E m \in MarketIds :
                 \/ \E w \in Windows : CreateMarket(m, w[1], w[2])
                 \/ DelegateMarket(m)
                 \/ \E seed \in Seeds : OpenMarket(m, seed)
                 \/ HaltMarket(m) \/ ResumeMarket(m) \/ CloseMarket(m)
                 \/ CommitAndUndelegateMarket(m)
           \/ \E a \in Agents :
                 \/ \E p \in Policies : RegisterAgent(a, p) \/ UpdatePolicy(a, p)
                 \/ DelegateAgent(a) \/ CommitAndUndelegateAgent(a)
    PROVE  Quiet
<1>1. CASE Environment
  BY <1>1, StillQuiet DEF Environment, Tick, Publish, FinishUndelegate
<1>2. ASSUME NEW m \in MarketIds, NEW w \in Windows, CreateMarket(m, w[1], w[2])
      PROVE  Quiet
  <2> DEFINE M == [BlankMarket EXCEPT !.status = "pending",
                                      !.openTs = w[1], !.closeTs = w[2]]
  <2>1. market[m].status = "none" /\ market[m].shares = NoShares /\ market[m].collateral = 0
    <3>1. market[m].status = "none"
      BY ONLY <1>2 DEF CreateMarket
    <3>2. BookInv(market[m])
      BY DEF LedgerInv, IInv
    <3> QED
      BY <3>1, <3>2 DEF BookInv
  <2>2. M.shares = NoShares /\ M.collateral = 0
    BY DEF BlankMarket
  <2>3. market' = [market EXCEPT ![m] = M] /\ UNCHANGED <<agent, registered, money>>
    BY <1>2 DEF CreateMarket
  <2> HIDE DEF M
  <2> QED
    BY <2>1, <2>2, <2>3, QuietMarket
<1>3. ASSUME NEW m \in MarketIds, NEW seed \in Seeds, OpenMarket(m, seed) PROVE Quiet
  <2> DEFINE M == Opened(market[m], oracle.price, seed)
  <2>1. /\ market' = [market EXCEPT ![m] = M] /\ UNCHANGED <<agent, registered, money>>
        /\ market[m].status # "closed"
    BY <1>3 DEF OpenMarket
  <2>2. M.shares = market[m].shares /\ M.collateral = market[m].collateral
    BY LedgerFacts DEF Opened, MarketType
  <2> HIDE DEF M
  <2> QED
    BY <2>1, <2>2, QuietMarket
<1>4. ASSUME NEW m \in MarketIds, HaltMarket(m) \/ ResumeMarket(m) PROVE Quiet
  <2>1. PICK st : market' = [market EXCEPT ![m] = [market[m] EXCEPT !.status = st]]
    BY <1>4 DEF HaltMarket, ResumeMarket
  <2> DEFINE M == [market[m] EXCEPT !.status = st]
  <2>2. UNCHANGED <<agent, registered, money>> /\ market[m].status # "closed"
    BY <1>4 DEF HaltMarket, ResumeMarket
  <2>3. M.shares = market[m].shares /\ M.collateral = market[m].collateral
    BY LedgerFacts DEF MarketType
  <2> HIDE DEF M
  <2> QED
    BY <2>1, <2>2, <2>3, QuietMarket DEF M
<1>5. ASSUME NEW m \in MarketIds, CloseMarket(m) PROVE Quiet
  <2> DEFINE M == Closed(market[m], oracle.price)
  <2>1. /\ market' = [market EXCEPT ![m] = M] /\ UNCHANGED <<agent, registered, money>>
        /\ market[m].status # "closed"
    BY <1>5 DEF CloseMarket, Closable
  <2>2. M.shares = market[m].shares /\ M.collateral = market[m].collateral
    BY LedgerFacts DEF Closed, MarketType
  <2> HIDE DEF M
  <2> QED
    BY <2>1, <2>2, QuietMarket
<1>6. ASSUME NEW m \in MarketIds, DelegateMarket(m) \/ CommitAndUndelegateMarket(m)
      PROVE  Quiet
  BY <1>6, StillQuiet DEF DelegateMarket, CommitAndUndelegateMarket
<1>7. ASSUME NEW a \in Agents, NEW p \in Policies, RegisterAgent(a, p) PROVE Quiet
  <2>1. /\ agent[a] = NewProfile(AnyPolicy) /\ agent'[a] = NewProfile(p)
        /\ \A b \in Agents \ {a} : agent'[b] = agent[b]
        /\ registered' = registered \cup {a} /\ market' = market /\ UNCHANGED money
    BY <1>7, LedgerFacts DEF RegisterAgent, LedgerInv
  <2>2. /\ agent'[a].slots = agent[a].slots /\ agent'[a].len = agent[a].len
        /\ agent'[a].balance = agent[a].balance /\ agent'[a].deposited = agent[a].deposited
    BY <2>1 DEF NewProfile
  <2> QED
    BY <2>1, <2>2 DEF Quiet, LedgerInv
<1>8. ASSUME NEW a \in Agents, NEW p \in Policies, UpdatePolicy(a, p) PROVE Quiet
  <2> DEFINE P == [agent[a] EXCEPT !.policy = p]
  <2>1. agent' = [agent EXCEPT ![a] = P] /\ a \in registered
        /\ UNCHANGED <<market, registered, money>>
    BY <1>8 DEF UpdatePolicy
  <2>2. /\ P.slots = agent[a].slots /\ P.len = agent[a].len
        /\ P.balance = agent[a].balance /\ P.deposited = agent[a].deposited
    BY LedgerFacts DEF ProfileType
  <2> HIDE DEF P
  <2>3. agent'[a] = P /\ \A b \in Agents \ {a} : agent'[b] = agent[b]
    BY <2>1, LedgerFacts
  <2> QED
    BY <2>1, <2>2, <2>3 DEF Quiet, LedgerInv
<1>9. ASSUME NEW a \in Agents, DelegateAgent(a) \/ CommitAndUndelegateAgent(a) PROVE Quiet
  BY <1>9, StillQuiet DEF DelegateAgent, CommitAndUndelegateAgent
<1> QED
  BY <1>1, <1>2, <1>3, <1>4, <1>5, <1>6, <1>7, <1>8, <1>9
LEMMA FeeOfGain ==
    ASSUME NEW P \in ProfileType, NEW amount \in Nat
    PROVE  FeeOn(P, amount) * 10000 <= FeeBps * (amount - PrincipalOf(P, amount))
<1> DEFINE gain == amount - PrincipalOf(P, amount)
           q == (gain * FeeBps) \div 10000
<1>1. gain \in Nat
  BY DEF PrincipalOf, AtMost, ProfileType
<1> HIDE DEF gain
<1>2. gain * FeeBps \in Nat /\ FeeBps * gain = gain * FeeBps
  BY <1>1, AmountAssumption, Z3
<1>3. q \in Nat /\ q * 10000 <= gain * FeeBps
  BY <1>2, FloorBounds
<1> HIDE DEF q
<1>4. q % (U64Max + 1) \in Nat /\ q % (U64Max + 1) <= q
  BY <1>3, AmountAssumption
<1>5. FeeOn(P, amount) = q % (U64Max + 1)
  BY DEF FeeOn, q, gain
<1>6. FeeOn(P, amount) * 10000 <= FeeBps * gain
  BY <1>2, <1>3, <1>4, <1>5
<1> QED
  BY <1>6 DEF gain

LEMMA DepositIsCustody ==
    ASSUME LedgerInv, NEW a \in Agents, NEW amount \in Transfers, Deposit(a, amount)
    PROVE  \E P \in ProfileType, w \in Nat, fee \in Nat : Custody(a, P, w, fee)
<1> DEFINE P == [agent[a] EXCEPT !.balance = @ + amount, !.deposited = @ + amount,
                                 !.highWater = @ + amount]
           w == wallet[a] - amount
<1>0. IInv
  BY DEF LedgerInv
<1>1. /\ amount \in Nat /\ wallet[a] \in Nat /\ amount <= wallet[a]
      /\ agent[a] \in ProfileType /\ agent[a].balance \in Nat /\ agent[a].deposited \in Nat
      /\ agent[a].highWater \in Nat /\ vault \in Nat /\ treasury \in Nat
  BY <1>0, AmountAssumption, AgentFacts DEF Deposit
<1>2. P \in ProfileType
  <2>1. /\ agent[a].balance + amount \in Nat /\ agent[a].deposited + amount \in Nat
        /\ agent[a].highWater + amount \in Nat
    BY <1>1
  <2> QED
    BY <1>1, <2>1 DEF ProfileType
<1>3. /\ P.balance = agent[a].balance + amount
      /\ P.deposited = agent[a].deposited + amount
      /\ P.slots = agent[a].slots /\ P.len = agent[a].len
  BY <1>1 DEF ProfileType
<1>4. /\ agent' = [agent EXCEPT ![a] = P] /\ wallet' = [wallet EXCEPT ![a] = w]
      /\ vault' = vault + amount /\ treasury' = treasury
      /\ a \in registered /\ UNCHANGED <<registered, market>>
  BY DEF Deposit, InCustody, WrittenOnBase
<1>5. w \in Nat /\ w = wallet[a] - amount
  BY <1>1
<1> HIDE DEF P, w
<1>6. /\ vault' = vault + P.balance - agent[a].balance
      /\ treasury' = treasury + 0
      /\ (w + P.deposited) - (wallet[a] + agent[a].deposited) = 0
  BY <1>1, <1>3, <1>4, <1>5
<1>7. 0 * 10000 <= FeeBps * (((w + P.deposited) - (wallet[a] + agent[a].deposited)) + 0)
  BY <1>6, AmountAssumption
<1>8. Custody(a, P, w, 0)
  BY <1>3, <1>4, <1>6, <1>7 DEF Custody
<1> QED
  BY <1>2, <1>5, <1>8

LEMMA WithdrawIsCustody ==
    ASSUME LedgerInv, NEW a \in Agents, NEW amount \in Transfers, Withdraw(a, amount)
    PROVE  \E P \in ProfileType, w \in Nat, fee \in Nat : Custody(a, P, w, fee)
<1> DEFINE fee == FeeOn(agent[a], amount)
           back == PrincipalOf(agent[a], amount)
           P == [agent[a] EXCEPT !.balance = @ - amount, !.deposited = @ - back,
                                 !.highWater = SatSub(@, amount)]
           w == wallet[a] + (amount - fee)
<1>0. IInv
  BY DEF LedgerInv
<1>1. /\ amount \in Nat /\ wallet[a] \in Nat
      /\ agent[a] \in ProfileType /\ agent[a].balance \in Nat /\ agent[a].deposited \in Nat
      /\ agent[a].highWater \in Nat /\ vault \in Nat /\ treasury \in Nat
  BY <1>0, AmountAssumption, AgentFacts
<1>2. /\ fee \in Nat /\ fee <= amount /\ amount <= agent[a].balance
      /\ back \in Nat /\ back <= agent[a].deposited
      /\ fee * 10000 <= FeeBps * (amount - back)
  BY <1>1, FeeFacts, FeeOfGain DEF Withdraw
<1>3. /\ agent' = [agent EXCEPT ![a] = P] /\ wallet' = [wallet EXCEPT ![a] = w]
      /\ vault' = vault - amount /\ treasury' = treasury + fee
      /\ a \in registered /\ UNCHANGED <<registered, market>>
  BY DEF Withdraw, InCustody, WrittenOnBase
<1> HIDE DEF fee, back
<1>4. P \in ProfileType
  <2>1. /\ agent[a].balance - amount \in Nat /\ agent[a].deposited - back \in Nat
        /\ SatSub(agent[a].highWater, amount) \in Nat
    BY <1>1, <1>2 DEF SatSub
  <2> QED
    BY <1>1, <2>1 DEF ProfileType
<1>5. /\ P.balance = agent[a].balance - amount
      /\ P.deposited = agent[a].deposited - back
      /\ P.slots = agent[a].slots /\ P.len = agent[a].len
  BY <1>1 DEF ProfileType
<1>6. w \in Nat /\ w = wallet[a] + (amount - fee)
  BY <1>1, <1>2
<1> HIDE DEF P, w
<1>7. /\ vault' = vault + P.balance - agent[a].balance
      /\ ((w + P.deposited) - (wallet[a] + agent[a].deposited)) + fee = amount - back
  BY <1>1, <1>2, <1>3, <1>5, <1>6
<1>8. fee * 10000 <= FeeBps * (((w + P.deposited) - (wallet[a] + agent[a].deposited)) + fee)
  BY <1>2, <1>7
<1>9. Custody(a, P, w, fee)
  BY <1>3, <1>5, <1>7, <1>8 DEF Custody
<1> QED
  BY <1>2, <1>4, <1>6, <1>9
\* What a bet does to the better, and what a sale does to the seller.
Entered(a, m, P) ==
    /\ \E s \in Sides :
          /\ Position(P, m)[s] > Position(agent[a], m)[s]
          /\ Position(P, m) = [Position(agent[a], m) EXCEPT ![s] = Position(P, m)[s]]
    /\ P.balance < agent[a].balance
    /\ P.policy = agent[a].policy
    /\ \E i \in Slots : /\ Used(P) \subseteq Used(agent[a]) \cup {i}
                        /\ i \notin Used(agent[a]) => OpenCount(agent[a]) < P.policy.maxOpen

Left(a, m, P) ==
    /\ \A s \in Sides : Position(P, m)[s] <= Position(agent[a], m)[s]
    /\ P.balance >= agent[a].balance
    /\ P.policy = agent[a].policy
    /\ Used(P) \subseteq Used(agent[a])

LEMMA BetMoves ==
    ASSUME LedgerInv, NEW a \in Agents, NEW m \in MarketIds, NEW s \in Sides,
           NEW amount \in Bets, PlaceBet(a, m, s, amount)
    PROVE  \E M \in MarketType, P \in ProfileType : Moved(a, m, M, P) /\ Entered(a, m, P)
<1> DEFINE out == BoughtShares(market[m], s, amount)
           M == Bought(market[m], s, amount)
           i == Min(Candidates(agent[a], m))
           S == agent[a].slots[i]
           S2 == [mkt |-> m, shares |-> [S.shares EXCEPT ![s] = @ + out],
                  stake |-> S.stake + amount]
           P == [agent[a] EXCEPT !.slots[i] = S2, !.balance = @ - amount,
                                 !.len = LenAfter(@, i)]
<1>0. /\ agent \in [Agents -> ProfileType] /\ agent[a] \in ProfileType
      /\ market[m] \in MarketType /\ BookInv(market[m]) /\ SlotsOK(agent[a])
      /\ agent[a].balance \in Nat /\ agent[a].len \in 0..MaxPositions
      /\ market[m].collateral \in Nat /\ market[m].shares \in [Sides -> Nat]
  <2>1. /\ agent \in [Agents -> ProfileType] /\ agent[a] \in ProfileType
        /\ market[m] \in MarketType /\ BookInv(market[m]) /\ SlotsOK(agent[a])
    BY LedgerFacts DEF LedgerInv, IInv
  <2> QED
    BY <2>1 DEF ProfileType, MarketType
<1>1. /\ amount \in Nat /\ amount > 0 /\ out > 0 /\ a \in registered
      /\ market[m].status = "open" /\ amount <= agent[a].balance
      /\ Candidates(agent[a], m) # {} /\ UnderCap(agent[a], i)
  BY AmountAssumption DEF PlaceBet, CanBet
<1>2. out \in Nat /\ M \in MarketType
  BY <1>0, <1>1, BoughtOK
<1>3. i \in Slots /\ i \in Candidates(agent[a], m) /\ i \in Nat /\ i \in 0..MaxPositions
  BY <1>1, SlotChoices, FirstSlot, SlotsAssumption DEF Slots
<1>4. agent' = [agent EXCEPT ![a] = P] /\ market' = [market EXCEPT ![m] = M]
  BY <1>0 DEF PlaceBet, ProfileType
<1>5. OneOfEach(m, M, a, P)
  BY <1>4 DEF OneOfEach, PlaceBet
<1>6. /\ M.status = market[m].status
      /\ M.shares = [market[m].shares EXCEPT ![s] = @ + out]
      /\ M.collateral = market[m].collateral + amount
  BY <1>0 DEF Bought, MarketType
<1> HIDE DEF out, i, M
<1>7. S.shares \in [Sides -> Nat] /\ S.stake \in Nat
  BY <1>0, <1>3, SlotFacts
<1>8. /\ S2 \in SlotType /\ S2.mkt = m
      /\ S2.shares = [S.shares EXCEPT ![s] = @ + out]
  <2> HIDE DEF S
  <2>1. [S.shares EXCEPT ![s] = @ + out] \in [Sides -> Nat] /\ S.stake + amount \in Nat
    BY <1>1, <1>2, <1>7
  <2> QED
    BY <2>1 DEF SlotType
<1> HIDE DEF S2
<1>9. /\ P \in ProfileType
      /\ P.slots = [agent[a].slots EXCEPT ![i] = S2]
      /\ P.balance = agent[a].balance - amount
      /\ P.len = LenAfter(agent[a].len, i)
      /\ P.policy = agent[a].policy /\ P.deposited = agent[a].deposited
  <2>1. agent[a].balance - amount \in Nat
    BY <1>0, <1>1
  <2> QED
    BY <1>0, <1>3, <1>8, <2>1 DEF ProfileType, LenAfter
<1> HIDE DEF P
<1>10. Wrote(agent[a], P, m, i, S2)
  <2>1. agent[a].len <= P.len /\ i <= P.len
    BY <1>0, <1>3, <1>9 DEF LenAfter
  <2> QED
    BY <1>3, <1>8, <1>9, <2>1 DEF Wrote
<1>11. Position(agent[a], m) = S.shares
  BY <1>0, <1>3, PositionAt
<1> HIDE DEF S
<1>12. /\ SlotsOK(P) /\ Position(P, m) = S2.shares
       /\ \A n \in MarketIds \ {m} : Position(P, n) = Position(agent[a], n)
       /\ Used(P) \subseteq Used(agent[a]) \cup {i}
  BY <1>0, <1>9, <1>10, WritePosition
<1>13. ASSUME NEW x \in Sides
       PROVE  M.shares[x] = market[m].shares[x] + Position(P, m)[x]
                            - Position(agent[a], m)[x]
  <2>1. market[m].shares[x] \in Nat /\ S.shares[x] \in Nat
    BY <1>0, <1>7
  <2>2. CASE x = s
    BY <1>0, <1>2, <1>6, <1>7, <1>8, <1>11, <1>12, <2>1, <2>2
  <2>3. CASE x # s
    <3>1. M.shares[x] = market[m].shares[x] /\ S2.shares[x] = S.shares[x]
      BY <1>0, <1>6, <1>7, <1>8, <2>3
    <3> QED
      BY <1>11, <1>12, <2>1, <3>1
  <2> QED
    BY <2>2, <2>3
<1>14. Moved(a, m, M, P)
  <2>1. P.balance + M.collateral = agent[a].balance + market[m].collateral
    BY <1>0, <1>1, <1>6, <1>9
  <2> QED
    BY <1>1, <1>5, <1>6, <1>9, <1>12, <1>13, <2>1 DEF Moved
<1>15. Entered(a, m, P)
  <2>1. Position(P, m)[s] > Position(agent[a], m)[s]
    BY <1>1, <1>2, <1>7, <1>8, <1>11, <1>12
  <2>2. Position(P, m) = [Position(agent[a], m) EXCEPT ![s] = Position(P, m)[s]]
    BY <1>7, <1>8, <1>11, <1>12
  <2>3. P.balance < agent[a].balance
    BY <1>0, <1>1, <1>9
  <2>4. i \notin Used(agent[a]) => OpenCount(agent[a]) < P.policy.maxOpen
    BY <1>1, <1>3, <1>9 DEF UnderCap, Used, IsEmpty
  <2> QED
    BY <1>3, <1>9, <1>12, <2>1, <2>2, <2>3, <2>4 DEF Entered
<1> QED
  BY <1>2, <1>9, <1>14, <1>15

\* One sale, seen from the profile and from the book.
LEMMA SideEffect ==
    ASSUME NEW M \in MarketType, BookInv(M), M.status \in {"open", "halted"},
           NEW P \in ProfileType, NEW i \in Slots, NEW s \in Sides, NEW n \in Nat,
           n > 0 => Sellable(M, P, i, s, n)
    PROVE  LET N == SideMarket(M, s, n)
               Q == SideSeller(M, P, i, s, n)
           IN  /\ Q.slots = [P.slots EXCEPT ![i] = Q.slots[i]]
               /\ Q.slots[i].mkt = P.slots[i].mkt
               /\ Q.slots[i].shares = [P.slots[i].shares EXCEPT ![s] = @ - n]
               /\ n <= P.slots[i].shares[s]
               /\ Q.len = P.len /\ Q.policy = P.policy /\ Q.deposited = P.deposited
               /\ Q.balance + N.collateral = P.balance + M.collateral
               /\ Q.balance >= P.balance
               /\ N.shares = [M.shares EXCEPT ![s] = @ - n]
<1> DEFINE N == SideMarket(M, s, n)
           Q == SideSeller(M, P, i, s, n)
           S == P.slots[i]
           out == Proceeds(M, s, n)
<1>0. /\ S \in SlotType /\ S.shares \in [Sides -> Nat] /\ M.shares \in [Sides -> Nat]
      /\ P.balance \in Nat /\ M.collateral \in Nat /\ P.slots \in [Slots -> SlotType]
  BY SlotFacts DEF ProfileType, MarketType
<1>1. CASE n = 0
  <2>1. N = M /\ Q = P
    BY <1>1 DEF SideMarket, SideSeller
  <2>2. \A f \in [Sides -> Nat] : f = [f EXCEPT ![s] = @ - n] /\ n <= f[s]
    BY <1>1
  <2> HIDE DEF N, Q
  <2> QED
    BY <1>0, <2>1, <2>2 DEF N, Q
<1>2. CASE n > 0
  <2>1. n <= S.shares[s] /\ n <= M.shares[s] /\ out >= 0
    BY <1>2 DEF Sellable
  <2>2. out \in Nat
    BY <1>2, <2>1, SoldOK
  <2>3. N = Sold(M, s, n) /\ Q = Seller(M, P, i, s, n)
    BY <1>2 DEF SideMarket, SideSeller
  <2> HIDE DEF out
  <2>4. /\ Q.slots = [P.slots EXCEPT ![i] = Reduced(S, s, n, out)]
        /\ Q.balance = P.balance + out
        /\ Q.len = P.len /\ Q.policy = P.policy /\ Q.deposited = P.deposited
    BY <2>3 DEF Seller, ProfileType, out
  <2>5. /\ N.shares = [M.shares EXCEPT ![s] = @ - n]
        /\ N.collateral = M.collateral - out
    BY <2>3 DEF Sold, MarketType, out
  <2>6. /\ Reduced(S, s, n, out).mkt = S.mkt
        /\ Reduced(S, s, n, out).shares = [S.shares EXCEPT ![s] = @ - n]
    BY <1>0 DEF Reduced, SlotType
  <2> HIDE DEF N, Q
  <2>7. Q.slots[i] = Reduced(S, s, n, out)
    BY <1>0, <2>4
  <2>8. Q.balance + N.collateral = P.balance + M.collateral /\ Q.balance >= P.balance
    BY <1>0, <2>2, <2>4, <2>5
  <2> HIDE DEF S
  <2> QED
    BY <2>1, <2>4, <2>5, <2>6, <2>7, <2>8 DEF N, Q, S
<1> QED
  BY <1>1, <1>2
\* A sale of part of what slot i holds, however it was computed.
Sale(a, m, i, M, P) ==
    LET old == agent[a].slots[i].shares
    IN  /\ OneOfEach(m, M, a, P)
        /\ a \in registered /\ i \in Holding(agent[a], m)
        /\ market[m].status \in {"open", "halted"} /\ M.status = market[m].status
        /\ P.slots = [agent[a].slots EXCEPT ![i] = P.slots[i]]
        /\ P.slots[i].mkt = agent[a].slots[i].mkt
        /\ \A s \in Sides :
              /\ P.slots[i].shares[s] <= old[s]
              /\ M.shares[s] = market[m].shares[s] + P.slots[i].shares[s] - old[s]
        /\ P.len = agent[a].len /\ P.policy = agent[a].policy
        /\ P.deposited = agent[a].deposited
        /\ P.balance + M.collateral = agent[a].balance + market[m].collateral
        /\ P.balance >= agent[a].balance

LEMMA SaleMoves ==
    ASSUME LedgerInv, NEW a \in Agents, NEW m \in MarketIds, NEW i \in Slots,
           NEW M \in MarketType, NEW P \in ProfileType, Sale(a, m, i, M, P)
    PROVE  Moved(a, m, M, P) /\ Left(a, m, P)
<1>1. agent[a] \in ProfileType /\ SlotsOK(agent[a])
  BY LedgerFacts DEF LedgerInv
<1>2. /\ i \in Holding(agent[a], m) /\ i \in Candidates(agent[a], m) /\ i \in Used(agent[a])
      /\ agent[a].slots[i].mkt = m
  BY DEF Sale, Candidates, Holding, Used
<1>3. P.slots[i] \in SlotType /\ P.slots[i].mkt = m
  BY <1>2, SlotFacts DEF Sale
<1>4. Wrote(agent[a], P, m, i, P.slots[i])
  <2>1. agent[a].len <= P.len /\ i <= P.len
    BY <1>1, <1>2 DEF Sale, SlotsOK, ProfileType
  <2>2. P.slots = [agent[a].slots EXCEPT ![i] = P.slots[i]]
    BY DEF Sale
  <2> QED
    BY <1>2, <1>3, <2>1, <2>2 DEF Wrote
<1>5. /\ SlotsOK(P) /\ Position(P, m) = P.slots[i].shares
      /\ \A n \in MarketIds \ {m} : Position(P, n) = Position(agent[a], n)
      /\ Used(P) \subseteq Used(agent[a])
  <2>1. Used(P) \subseteq Used(agent[a]) \cup {i}
    BY <1>1, <1>4, WritePosition
  <2> QED
    BY <1>1, <1>2, <1>4, <2>1, WritePosition
<1>6. Position(agent[a], m) = agent[a].slots[i].shares
  BY <1>1, <1>2, PositionAt
<1> QED
  BY <1>5, <1>6 DEF Moved, Left, Sale

LEMMA ClosePositionMoves ==
    ASSUME LedgerInv, NEW a \in Agents, NEW m \in MarketIds, NEW s \in Sides,
           NEW n \in Nat, ClosePosition(a, m, s, n)
    PROVE  \E M \in MarketType, P \in ProfileType : Moved(a, m, M, P) /\ Left(a, m, P)
<1>1. PICK i \in Holding(agent[a], m) :
          /\ Sellable(market[m], agent[a], i, s, n)
          /\ market' = [market EXCEPT ![m] = Sold(@, s, n)]
          /\ agent' = [agent EXCEPT ![a] = Seller(market[m], @, i, s, n)]
  BY DEF ClosePosition
<1> DEFINE M == SideMarket(market[m], s, n)
           P == SideSeller(market[m], agent[a], i, s, n)
<1>2. /\ i \in Slots /\ n > 0 /\ market[m].status \in {"open", "halted"}
      /\ a \in registered
  BY <1>1, SlotChoices DEF ClosePosition, Exitable
<1>3. market[m] \in MarketType /\ BookInv(market[m]) /\ agent[a] \in ProfileType
  BY LedgerFacts DEF LedgerInv, IInv
<1>4. /\ M \in MarketType /\ P \in ProfileType /\ M.status = market[m].status
  BY <1>1, <1>2, <1>3, SideOK
<1>5. M = Sold(market[m], s, n) /\ P = Seller(market[m], agent[a], i, s, n)
  BY <1>2 DEF SideMarket, SideSeller
<1>6. /\ P.slots = [agent[a].slots EXCEPT ![i] = P.slots[i]]
      /\ P.slots[i].mkt = agent[a].slots[i].mkt
      /\ P.slots[i].shares = [agent[a].slots[i].shares EXCEPT ![s] = @ - n]
      /\ n <= agent[a].slots[i].shares[s]
      /\ P.len = agent[a].len /\ P.policy = agent[a].policy
      /\ P.deposited = agent[a].deposited
      /\ P.balance + M.collateral = agent[a].balance + market[m].collateral
      /\ P.balance >= agent[a].balance
      /\ M.shares = [market[m].shares EXCEPT ![s] = @ - n]
  BY <1>1, <1>2, <1>3, SideEffect
<1>7. OneOfEach(m, M, a, P)
  BY <1>1, <1>5 DEF OneOfEach, ClosePosition
<1> HIDE DEF M, P
<1>8. ASSUME NEW x \in Sides
      PROVE  /\ P.slots[i].shares[x] <= agent[a].slots[i].shares[x]
             /\ M.shares[x] = market[m].shares[x] + P.slots[i].shares[x]
                              - agent[a].slots[i].shares[x]
  <2>1. /\ agent[a].slots[i].shares \in [Sides -> Nat]
        /\ market[m].shares \in [Sides -> Nat]
    BY <1>2, <1>3, SlotFacts DEF MarketType
  <2> QED
    BY <1>6, <2>1
<1>9. Sale(a, m, i, M, P)
  BY <1>1, <1>2, <1>4, <1>6, <1>7, <1>8 DEF Sale
<1> QED
  BY <1>2, <1>4, <1>9, SaleMoves

LEMMA CancelBetMoves ==
    ASSUME LedgerInv, NEW a \in Agents, NEW m \in MarketIds, CancelBet(a, m)
    PROVE  \E M \in MarketType, P \in ProfileType : Moved(a, m, M, P) /\ Left(a, m, P)
<1>1. PICK i \in Holding(agent[a], m) :
          LET yes == agent[a].slots[i].shares["yes"]
              no  == agent[a].slots[i].shares["no"]
              M   == SideMarket(market[m], "yes", yes)
              P   == SideSeller(market[m], agent[a], i, "yes", yes)
          IN  /\ yes > 0 => Sellable(market[m], agent[a], i, "yes", yes)
              /\ no > 0 => Sellable(M, P, i, "no", no)
              /\ market' = [market EXCEPT ![m] = SideMarket(M, "no", no)]
              /\ agent' = [agent EXCEPT ![a] = SideSeller(M, P, i, "no", no)]
  BY DEF CancelBet
<1> DEFINE yes == agent[a].slots[i].shares["yes"]
           no  == agent[a].slots[i].shares["no"]
           M   == SideMarket(market[m], "yes", yes)
           P   == SideSeller(market[m], agent[a], i, "yes", yes)
           M2  == SideMarket(M, "no", no)
           P2  == SideSeller(M, P, i, "no", no)
<1>2. /\ i \in Slots /\ market[m].status \in {"open", "halted"} /\ a \in registered
  BY <1>1, SlotChoices DEF CancelBet, Exitable
<1>3. /\ market[m] \in MarketType /\ BookInv(market[m]) /\ agent[a] \in ProfileType
      /\ agent[a].balance \in Nat /\ market[m].collateral \in Nat
  <2>1. market[m] \in MarketType /\ BookInv(market[m]) /\ agent[a] \in ProfileType
    BY LedgerFacts DEF LedgerInv, IInv
  <2> QED
    BY <2>1 DEF MarketType, ProfileType
<1>17. agent[a].slots[i].shares \in [Sides -> Nat] /\ market[m].shares \in [Sides -> Nat]
  BY <1>2, <1>3, SlotFacts DEF MarketType
<1>4. yes \in Nat /\ no \in Nat /\ "yes" \in Sides /\ "no" \in Sides
  BY <1>17 DEF Sides
<1>5. OneOfEach(m, M2, a, P2)
  BY <1>1 DEF OneOfEach, CancelBet
<1>6. /\ yes > 0 => Sellable(market[m], agent[a], i, "yes", yes)
      /\ no > 0 => Sellable(M, P, i, "no", no)
  BY <1>1
<1>7. yes = agent[a].slots[i].shares["yes"] /\ no = agent[a].slots[i].shares["no"]
  OBVIOUS
<1> HIDE DEF yes, no
<1>8. /\ M \in MarketType /\ BookInv(M) /\ M.status = market[m].status
      /\ P \in ProfileType
  BY <1>2, <1>3, <1>4, <1>6, SideOK
<1>9. /\ P.slots = [agent[a].slots EXCEPT ![i] = P.slots[i]]
      /\ P.slots[i].mkt = agent[a].slots[i].mkt
      /\ P.slots[i].shares = [agent[a].slots[i].shares EXCEPT !["yes"] = @ - yes]
      /\ P.len = agent[a].len /\ P.policy = agent[a].policy
      /\ P.deposited = agent[a].deposited
      /\ P.balance + M.collateral = agent[a].balance + market[m].collateral
      /\ P.balance >= agent[a].balance
      /\ M.shares = [market[m].shares EXCEPT !["yes"] = @ - yes]
  <2>1. /\ agent[a] \in ProfileType /\ market[m] \in MarketType /\ BookInv(market[m])
        /\ yes > 0 => Sellable(market[m], agent[a], i, "yes", yes)
    BY <1>3, <1>6
  <2> QED
    BY <1>2, <1>4, <2>1, SideEffect
<1> HIDE DEF M, P
<1>10. M.status \in {"open", "halted"}
  BY <1>2, <1>8
<1>11. /\ M2 \in MarketType /\ M2.status = M.status /\ P2 \in ProfileType
  <2>1. no > 0 => Sellable(M, P, i, "no", no)
    BY <1>6
  <2> QED
    BY <1>2, <1>4, <1>8, <1>10, <2>1, SideOK
<1>12. /\ P2.slots = [P.slots EXCEPT ![i] = P2.slots[i]]
       /\ P2.slots[i].mkt = P.slots[i].mkt
       /\ P2.slots[i].shares = [P.slots[i].shares EXCEPT !["no"] = @ - no]
       /\ P2.len = P.len /\ P2.policy = P.policy /\ P2.deposited = P.deposited
       /\ P2.balance + M2.collateral = P.balance + M.collateral
       /\ P2.balance >= P.balance
       /\ M2.shares = [M.shares EXCEPT !["no"] = @ - no]
  <2>1. no > 0 => Sellable(M, P, i, "no", no)
    BY <1>6
  <2> QED
    BY <1>2, <1>4, <1>8, <1>10, <2>1, SideEffect
<1> HIDE DEF M2, P2
<1>13. P2.slots = [agent[a].slots EXCEPT ![i] = P2.slots[i]]
  BY <1>2, <1>3, <1>9, <1>12 DEF ProfileType
<1>14. ASSUME NEW x \in Sides
       PROVE  /\ P2.slots[i].shares[x] <= agent[a].slots[i].shares[x]
              /\ M2.shares[x] = market[m].shares[x] + P2.slots[i].shares[x]
                                - agent[a].slots[i].shares[x]
  <2>1. /\ P2.slots[i].shares["yes"] = 0 /\ P2.slots[i].shares["no"] = 0
        /\ M2.shares["yes"] = market[m].shares["yes"] - yes
        /\ M2.shares["no"] = market[m].shares["no"] - no
    BY <1>17, <1>4, <1>7, <1>9, <1>12
  <2>2. /\ agent[a].slots[i].shares[x] \in Nat /\ market[m].shares[x] \in Nat
        /\ x = "yes" \/ x = "no"
    BY <1>17 DEF Sides
  <2> QED
    BY <1>7, <2>1, <2>2
<1>15. /\ P2.balance + M2.collateral = agent[a].balance + market[m].collateral
       /\ P2.balance >= agent[a].balance
  <2>1. P.balance \in Nat /\ P2.balance \in Nat
    BY <1>8, <1>11 DEF ProfileType
  <2> QED
    BY <1>3, <1>9, <1>12, <2>1
<1>16. Sale(a, m, i, M2, P2)
  BY <1>1, <1>2, <1>5, <1>8, <1>9, <1>11, <1>12, <1>13, <1>14, <1>15 DEF Sale
<1> QED
  BY <1>2, <1>11, <1>16, SaleMoves

LEMMA SettlePositionSettles ==
    ASSUME LedgerInv, NEW a \in Agents, NEW m \in MarketIds, SettlePosition(a, m)
    PROVE  Settled(m, {a}) /\ Together(a, m)
<1>1. agent' = [agent EXCEPT ![a] = Paid(market[m], @, Min(Holding(agent[a], m)))]
  BY DEF SettlePosition
<1>2. agent' = [b \in Agents |->
                   IF b \in {a} THEN Paid(market[m], agent[b], Min(Holding(agent[b], m)))
                   ELSE agent[b]]
  BY <1>1, LedgerFacts
<1> QED
  BY <1>2 DEF Settled, SettlePosition

LEMMA SettlePositionsSettle ==
    ASSUME LedgerInv, NEW m \in MarketIds, NEW batch \in SUBSET Agents,
           SettlePositions(m, batch)
    PROVE  LET W == {a \in batch : Holding(agent[a], m) # {}}
           IN  Settled(m, W) /\ \A a \in W : Together(a, m)
  BY DEF SettlePositions, Settled
\* Every step of the program.
Trades(a, m) ==
    /\ Together(a, m)
    /\ \E M \in MarketType, P \in ProfileType :
           Moved(a, m, M, P) /\ (Entered(a, m, P) \/ Left(a, m, P))

\* A settlement of profiles that are on the market's layer.
Settles(m, W) == Settled(m, W) /\ \A a \in W : Together(a, m)

LEMMA TradeKinds ==
    ASSUME LedgerInv, NEW a \in Agents, NEW m \in MarketIds, Trade(a, m)
    PROVE  Trades(a, m) \/ \E W \in SUBSET Agents : Settles(m, W)
<1>1. CASE \E s \in Sides, amount \in Bets : PlaceBet(a, m, s, amount)
  BY <1>1, BetMoves DEF Trades, PlaceBet
<1>2. CASE \E s \in Sides, i \in Slots : \E n \in 1..agent[a].slots[i].shares[s] :
               ClosePosition(a, m, s, n)
  <2>1. PICK s \in Sides, n \in Nat : ClosePosition(a, m, s, n)
    BY <1>2
  <2> QED
    BY <2>1, ClosePositionMoves DEF Trades, ClosePosition
<1>3. CASE CancelBet(a, m)
  BY <1>3, CancelBetMoves DEF Trades, CancelBet
<1>4. CASE SettlePosition(a, m)
  <2>1. {a} \in SUBSET Agents /\ Settles(m, {a})
    BY <1>4, SettlePositionSettles DEF Settles
  <2> QED
    BY ONLY <2>1
<1> QED
  BY <1>1, <1>2, <1>3, <1>4 DEF Trade

LEMMA StepKinds ==
    ASSUME LedgerInv, [Next]_vars
    PROVE  \/ Quiet
           \/ \E a \in Agents, P \in ProfileType, w \in Nat, fee \in Nat :
                  Custody(a, P, w, fee)
           \/ \E a \in Agents, m \in MarketIds : Trades(a, m)
           \/ \E m \in MarketIds, W \in SUBSET Agents : Settles(m, W)
<1>1. CASE UNCHANGED vars
  BY <1>1, StillQuiet DEF vars
<1>2. CASE Environment
  BY <1>2, QuietActions
<1>3. ASSUME NEW m \in MarketIds, MarketStep(m)
      PROVE  Quiet \/ \E W \in SUBSET Agents : Settles(m, W)
  <2>1. CASE \E batch \in SUBSET Agents : SettlePositions(m, batch)
    <3>1. PICK batch \in SUBSET Agents : SettlePositions(m, batch)
      BY <2>1
    <3> DEFINE W == {a \in batch : Holding(agent[a], m) # {}}
    <3>2. W \in SUBSET Agents /\ Settles(m, W)
      BY <3>1, SettlePositionsSettle DEF Settles
    <3> QED
      BY <3>2
  <2> QED
    BY <1>3, <2>1, QuietActions DEF MarketStep
<1>4. ASSUME NEW a \in Agents, AgentStep(a)
      PROVE  Quiet \/ \E P \in ProfileType, w \in Nat, fee \in Nat : Custody(a, P, w, fee)
  <2>1. CASE \E amount \in Transfers : Deposit(a, amount)
    BY <2>1, DepositIsCustody
  <2>2. CASE \E amount \in Transfers : Withdraw(a, amount)
    BY <2>2, WithdrawIsCustody
  <2> QED
    BY <1>4, <2>1, <2>2, QuietActions DEF AgentStep
<1>5. ASSUME NEW a \in Agents, NEW m \in MarketIds, Trade(a, m)
      PROVE  Trades(a, m) \/ \E W \in SUBSET Agents : Settles(m, W)
  BY <1>5, TradeKinds
<1> QED
  BY <1>1, <1>2, <1>3, <1>4, <1>5 DEF Next

LEMMA LedgerInductive == LedgerInv /\ [Next]_vars => LedgerInv'
<1> SUFFICES ASSUME LedgerInv, [Next]_vars PROVE LedgerInv'
  OBVIOUS
<1>1. IInv'
  BY Inductive DEF LedgerInv
<1>2. CASE Quiet
  BY <1>1, <1>2, QuietOK
<1>3. CASE \E a \in Agents, P \in ProfileType, w \in Nat, fee \in Nat :
               Custody(a, P, w, fee)
  BY <1>1, <1>3, CustodyOK
<1>4. CASE \E a \in Agents, m \in MarketIds : Trades(a, m)
  BY <1>1, <1>4, MovedOK DEF Trades
<1>5. CASE \E m \in MarketIds, W \in SUBSET Agents : Settles(m, W)
  BY <1>1, <1>5, SettledOK DEF Settles
<1> QED
  BY <1>2, <1>3, <1>4, <1>5, StepKinds

LEMMA LedgerInvariance == Spec => []LedgerInv
  BY LedgerInit, LedgerInductive, PTL DEF Spec

-----------------------------------------------------------------------------
(* What follows.                                                           *)

\* For any number of profiles, what they hold of a market is what the market
\* counts as sold, until it closes; then it is never more.
THEOREM BooksAlwaysMatch == Spec => []BookMatchesPositions
<1>1. LedgerInv => BookMatchesPositions
  <2> SUFFICES ASSUME LedgerInv, NEW m \in MarketIds, NEW s \in Sides
               PROVE  IF market[m].status = "closed"
                      THEN HeldShares(m, s) <= market[m].shares[s]
                      ELSE HeldShares(m, s) = market[m].shares[s]
    BY DEF BookMatchesPositions
  <2>1. HeldShares(m, s) = Held(agent, m, s)
    BY HeldSharesAre
  <2> QED
    BY <2>1, BookOf
<1> QED
  BY <1>1, LedgerInvariance, PTL

\* No profile ever has two slots for one market.
THEOREM OneSlotEach == Spec => []OneSlotPerMarket
<1>1. LedgerInv => OneSlotPerMarket
  <2> SUFFICES ASSUME LedgerInv, NEW a \in Agents, NEW m \in MarketIds
               PROVE  Cardinality(Holding(agent[a], m)) <= 1
    BY DEF OneSlotPerMarket
  <2>1. \A i, j \in Holding(agent[a], m) : i = j
    BY DEF LedgerInv, SlotsOK, Used, Holding
  <2>2. CASE Holding(agent[a], m) = {}
    BY <2>2, FS_EmptySet
  <2>3. CASE Holding(agent[a], m) # {}
    <3>1. PICK i \in Holding(agent[a], m) : Holding(agent[a], m) = {i}
      BY <2>1, <2>3
    <3>2. Cardinality({i}) = 1
      BY FS_Singleton
    <3>3. Cardinality(Holding(agent[a], m)) = 1
      BY ONLY <3>1, <3>2
    <3> QED
      BY <3>3
  <2> QED
    BY <2>2, <2>3
<1> QED
  BY <1>1, LedgerInvariance, PTL

\* The length a profile stores covers every position it has.
THEOREM LengthCoversAll == Spec => []LenCoversPositions
<1>1. LedgerInv => LenCoversPositions
  BY DEF LedgerInv, LenCoversPositions, SlotsOK, Used
<1> QED
  BY <1>1, LedgerInvariance, PTL

\* Whatever the order of deposits, wins, losses and withdrawals and whatever the
\* rate, fees never exceed their share of what owners took out above deposits.
THEOREM FeesAreOnProfit == Spec => []FeesComeFromProfit
<1>1. LedgerInv => FeesComeFromProfit
  <2>1. Sum([a \in Agents |-> wallet[a] + agent[a].deposited - Funds])
          = Returned(wallet, agent)
    BY SumIs DEF Returned
  <2> QED
    BY <2>1 DEF LedgerInv, FeesComeFromProfit
<1> QED
  BY <1>1, LedgerInvariance, PTL
\* What a market may still have to pay is in its pot.
LEMMA PotCovers ==
    ASSUME LedgerInv, NEW m \in MarketIds
    PROVE  Liability(m) \in Nat /\ Liability(m) <= PotOf(market, agent, m)
<1> DEFINE M == market[m]
           held(s) == Held(agent, m, s)
<1>1. /\ M \in MarketType /\ M.collateral \in Nat
      /\ \A s \in Sides : M.shares[s] \in Nat /\ held(s) \in Nat /\ HeldShares(m, s) = held(s)
  BY LedgerFacts, HeldFacts, HeldSharesAre DEF MarketType
<1>2. Traded(M) => M.shares["yes"] + M.shares["no"] <= M.collateral
  BY BooksSolvent DEF LedgerInv, Solvent
<1>3. M.shares["yes"] \in Nat /\ M.shares["no"] \in Nat
  BY <1>1 DEF Sides
<1>4. CASE M.status = "closed"
  <2>1. M.winner \in Sides /\ held(M.winner) <= M.shares[M.winner]
    BY <1>4, BookOf
  <2>2. M.shares[M.winner] <= M.collateral
    BY <1>1, <1>2, <1>3, <1>4, <2>1 DEF Sides, Traded
  <2>3. Liability(m) = held(M.winner)
    BY <1>1, <1>4, <2>1 DEF Liability
  <2>4. PotOf(market, agent, m) = M.collateral - (M.shares[M.winner] - held(M.winner))
    BY <1>4 DEF PotOf
  <2>5. M.shares[M.winner] \in Nat /\ held(M.winner) \in Nat
    BY <1>1, <2>1
  <2> HIDE DEF M, held
  <2> QED
    BY <1>1, <2>2, <2>3, <2>4, <2>5
<1>5. CASE M.status \in {"open", "halted"}
  <2> DEFINE owed == {HeldShares(m, s) : s \in Sides}
  <2>1. owed = {M.shares["yes"], M.shares["no"]}
    BY <1>1, <1>5, BookOf DEF Sides
  <2>2. Liability(m) = Max(owed) /\ PotOf(market, agent, m) = M.collateral
    <3>1. market[m].status # "closed" /\ market[m].status \in {"open", "halted"}
      BY <1>5
    <3>2. PotOf(market, agent, m) = M.collateral
      BY <1>1, <3>1 DEF PotOf
    <3>3. Liability(m) = Max(owed)
      BY ONLY <3>1 DEF Liability
    <3> QED
      BY <3>2, <3>3
  <2>3. M.shares["yes"] + M.shares["no"] <= M.collateral
    BY <1>2, <1>5 DEF Traded
  <2> HIDE DEF owed, M
  <2>4. \E x \in owed : \A y \in owed : x >= y
    BY <1>3, <2>1
  <2>5. Max(owed) \in owed
    BY <2>4 DEF Max
  <2> QED
    BY <1>1, <1>3, <2>1, <2>2, <2>3, <2>5
<1>6. CASE M.status \notin {"open", "halted", "closed"}
  BY <1>1, <1>6 DEF Liability, PotOf
<1> QED
  BY <1>4, <1>5, <1>6

\* Whatever is bet, sold, resolved and paid, and in whatever order, the vault
\* holds every free balance and on top of it what every market may have to pay.
THEOREM VaultAlwaysCovers == Spec => []VaultCoversClaims
<1>1. LedgerInv => VaultCoversClaims
  <2> SUFFICES ASSUME LedgerInv PROVE VaultCoversClaims
    OBVIOUS
  <2> DEFINE f == [m \in MarketIds |-> Liability(m)]
             g == [m \in MarketIds |-> PotOf(market, agent, m)]
  <2>1. \A m \in MarketIds : f[m] \in Int /\ g[m] \in Int /\ f[m] <= g[m]
    BY PotCovers, LedgerFacts
  <2>2. SumOn(f, MarketIds) <= SumOn(g, MarketIds) /\ SumOn(f, MarketIds) \in Int
    <3> HIDE DEF f, g
    <3>1. Summable(f, MarketIds) /\ Summable(g, MarketIds)
      BY <2>1, FiniteAssumption DEF Summable
    <3> QED
      BY <2>1, <3>1, SumMonotone, SumRemove
  <2>3. Sum(f) = SumOn(f, MarketIds)
    BY SumIs
  <2>4. Sum([a \in Agents |-> agent[a].balance]) = Balances(agent)
    BY SumIs DEF Balances
  <2>5. SumOn(g, MarketIds) = Pots(market, agent)
    BY DEF Pots
  <2>6. vault = Balances(agent) + Pots(market, agent)
    BY DEF LedgerInv
  <2>7. vault >= Sum([a \in Agents |-> agent[a].balance]) + Sum(f)
    <3> HIDE DEF f, g
    <3> QED
      BY <2>2, <2>3, <2>4, <2>5, <2>6, LedgerFacts
  <2> QED
    BY <2>7 DEF VaultCoversClaims
<1> QED
  BY <1>1, LedgerInvariance, PTL

\* Every position is part of what its market counts as sold, and so within what
\* the market can pay and take back: no sale, cancel or settlement of it meets a
\* solvency check.  A sale whose proceeds the rounding makes negative is refused
\* all the same (close_position.rs: the checked_sub of the reserve).
THEOREM NoTraderIsRefused == Spec => []SolvencyChecksNeverFire
<1>1. ASSUME LedgerInv, NEW a \in registered, NEW m \in MarketIds,
             NEW i \in Holding(agent[a], m)
      PROVE  IF market[m].status = "closed"
             THEN PayoutOf(market[m], agent[a], i) <= Budget(market[m])
             ELSE \A s \in Sides : agent[a].slots[i].shares[s] <= market[m].shares[s]
  <2>1. /\ a \in Agents /\ agent[a] \in ProfileType /\ SlotsOK(agent[a])
        /\ i \in Slots /\ i \in Candidates(agent[a], m)
    BY <1>1, LedgerFacts DEF LedgerInv, IInv, TypeOK, Holding, Candidates
  <2>2. agent[a].slots[i].shares = Position(agent[a], m)
    BY <2>1, PositionAt
  <2>3. /\ agent[a].slots[i].shares \in [Sides -> Nat] /\ market[m] \in MarketType
        /\ market[m].shares \in [Sides -> Nat] /\ market[m].seed \in Nat
        /\ market[m].collateral \in Nat
    BY <1>1, <2>1, LedgerFacts, SlotFacts DEF MarketType
  <2>4. ASSUME NEW s \in Sides PROVE agent[a].slots[i].shares[s] <= Held(agent, m, s)
    BY <1>1, <2>1, <2>2, LedgerFacts, HeldFacts
  <2>5. ASSUME NEW s \in Sides PROVE Held(agent, m, s) \in Nat
    BY <1>1, LedgerFacts, HeldFacts
  <2>6. CASE market[m].status # "closed"
    BY <1>1, <2>4, <2>6, BookOf
  <2>7. CASE market[m].status = "closed"
    <3> DEFINE w == market[m].winner
    <3>1. w \in Sides /\ Held(agent, m, w) <= market[m].shares[w]
      BY <1>1, <2>7, BookOf
    <3>2. market[m].shares["yes"] + market[m].shares["no"] <= market[m].collateral
      BY <1>1, <2>7, BooksSolvent DEF LedgerInv, Solvent, Traded
    <3>3. market[m].shares["yes"] \in Nat /\ market[m].shares["no"] \in Nat
      BY <2>3 DEF Sides
    <3>4. market[m].shares[w] <= market[m].collateral
      BY <2>3, <3>1, <3>2, <3>3 DEF Sides
    <3>5. /\ agent[a].slots[i].shares[w] \in Nat /\ market[m].shares[w] \in Nat
          /\ Held(agent, m, w) \in Nat
          /\ agent[a].slots[i].shares[w] <= Held(agent, m, w)
      BY <2>3, <2>4, <2>5, <3>1
    <3>6. /\ PayoutOf(market[m], agent[a], i) = agent[a].slots[i].shares[w]
          /\ Budget(market[m]) = market[m].seed + market[m].collateral
      BY DEF PayoutOf, Budget
    <3> HIDE DEF w
    <3> QED
      BY <2>3, <2>7, <3>1, <3>4, <3>5, <3>6
  <2> QED
    BY <2>6, <2>7
<1>2. LedgerInv => SolvencyChecksNeverFire
  BY <1>1, BooksCoverSales DEF LedgerInv, SolvencyChecksNeverFire
<1> QED
  BY <1>2, LedgerInvariance, PTL

-----------------------------------------------------------------------------
(* The cap on open positions.                                              *)

LEMMA OpenCounts ==
    ASSUME NEW P \in ProfileType
    PROVE  /\ OpenCount(P) = Cardinality(Used(P)) /\ IsFiniteSet(Used(P))
           /\ OpenCount(P) \in Nat
<1>1. IsFiniteSet(Slots)
  BY SlotsAssumption, FS_Interval DEF Slots
<1>2. IsFiniteSet(Used(P))
  BY <1>1, FS_Subset DEF Used
<1> QED
  BY <1>2, FS_CardinalityType DEF OpenCount, Used

LEMMA FewerOpen ==
    ASSUME NEW P \in ProfileType, NEW Q \in ProfileType, Used(Q) \subseteq Used(P)
    PROVE  OpenCount(Q) <= OpenCount(P)
  BY OpenCounts, FS_Subset

LEMMA StepKeepsCap == LedgerInv /\ [Next]_vars => [CapKept]_vars
<1> SUFFICES ASSUME LedgerInv, [Next]_vars PROVE CapKept
  OBVIOUS
<1>0. LedgerInv' /\ agent \in [Agents -> ProfileType] /\ agent' \in [Agents -> ProfileType]
  BY LedgerInductive, LedgerFacts DEF LedgerInv, IInv, TypeOK
<1>1. ASSUME NEW a \in Agents, Used(agent'[a]) \subseteq Used(agent[a])
      PROVE  ~(OpenCount(agent'[a]) > OpenCount(agent[a]))
  BY <1>0, <1>1, FewerOpen, OpenCounts
<1>2. CASE Quiet
  <2>1. \A a \in Agents : Used(agent'[a]) = Used(agent[a])
    BY <1>2 DEF Quiet, Used
  <2> QED
    BY <1>1, <2>1 DEF CapKept
<1>3. ASSUME NEW a \in Agents, NEW P \in ProfileType, NEW w \in Nat, NEW fee \in Nat,
             Custody(a, P, w, fee)
      PROVE  CapKept
  <2>1. \A b \in Agents : Used(agent'[b]) = Used(agent[b])
    BY <1>0, <1>3 DEF Custody, Used
  <2> QED
    BY <1>1, <2>1 DEF CapKept
<1>4. ASSUME NEW m \in MarketIds, NEW W \in SUBSET Agents, Settled(m, W) PROVE CapKept
  <2>1. \A b \in Agents : Used(agent'[b]) \subseteq Used(agent[b])
    BY <1>4, SettledProfiles
  <2> QED
    BY <1>1, <2>1 DEF CapKept
<1>5. ASSUME NEW a \in Agents, NEW m \in MarketIds, NEW M \in MarketType,
             NEW P \in ProfileType, Moved(a, m, M, P), Entered(a, m, P) \/ Left(a, m, P)
      PROVE  CapKept
  <2>1. agent'[a] = P /\ \A b \in Agents \ {a} : agent'[b] = agent[b]
    BY <1>0, <1>5 DEF Moved, OneOfEach
  <2>2. \A b \in Agents \ {a} : ~(OpenCount(agent'[b]) > OpenCount(agent[b]))
    BY <1>1, <2>1
  <2>3. OpenCount(P) > OpenCount(agent[a]) => OpenCount(P) <= agent[a].policy.maxOpen
    <3>1. CASE Used(P) \subseteq Used(agent[a])
      BY <1>1, <2>1, <3>1
    <3>2. CASE ~(Used(P) \subseteq Used(agent[a]))
      <4>1. Entered(a, m, P)
        BY <1>5, <3>2 DEF Left
      <4>2. PICK i \in Slots : /\ Used(P) \subseteq Used(agent[a]) \cup {i}
                               /\ i \notin Used(agent[a]) =>
                                      OpenCount(agent[a]) < P.policy.maxOpen
        BY <4>1 DEF Entered
      <4>3. i \notin Used(agent[a]) /\ P.policy = agent[a].policy
        BY <3>2, <4>1, <4>2 DEF Entered
      <4>4. OpenCount(agent[a]) < agent[a].policy.maxOpen
        BY <4>2, <4>3
      <4>5. /\ IsFiniteSet(Used(agent[a]) \cup {i})
            /\ Cardinality(Used(agent[a]) \cup {i}) = Cardinality(Used(agent[a])) + 1
        BY <1>0, <4>3, OpenCounts, FS_AddElement
      <4>6. Cardinality(Used(P)) <= Cardinality(Used(agent[a])) + 1
        BY <4>2, <4>5, FS_Subset
      <4>7. /\ OpenCount(P) <= OpenCount(agent[a]) + 1
            /\ OpenCount(P) \in Nat /\ OpenCount(agent[a]) \in Nat
        BY <1>0, <4>6, OpenCounts
      <4>8. agent[a].policy.maxOpen \in Nat
        BY <1>0 DEF ProfileType, PolicyType
      <4> QED
        BY <4>4, <4>7, <4>8
    <3> QED
      BY <3>1, <3>2
  <2> QED
    BY <2>1, <2>2, <2>3 DEF CapKept
<1> QED
  BY <1>2, <1>3, <1>4, <1>5, StepKinds DEF Trades, Settles

\* For any number of slots, and with emptied slots and a lowered cap among them.
THEOREM CapIsRespected == Spec => CapRespected
  BY LedgerInvariance, StepKeepsCap, PTL DEF Spec, CapRespected
=============================================================================
