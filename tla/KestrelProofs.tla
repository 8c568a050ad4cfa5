---------------------------- MODULE KestrelProofs ----------------------------
(***************************************************************************)
(* Theorems about the program, for any number of markets, profiles, slots  *)
(* and any amounts: its accounts keep their types, and every market stays  *)
(* solvent.                                                                *)
(***************************************************************************)
EXTENDS Kestrel, Arithmetic

USE MarketsAssumption, SeedAssumption, SlotsAssumption, AmountAssumption,
    TimeAssumption, PriceAssumption, PolicyAssumption

\* What holds of one market's book.  Before trading nothing was staked.  From
\* then on the constant is the seed's square; reserves and shares together are
\* the two seeds and the stakes; and the reserves alone never fall below the
\* two seeds, so that the shares never outgrow the stakes.
BookInv(M) ==
    /\ M.status \in {"none", "pending"} =>
           M.shares = NoShares /\ M.reserve = NoShares /\ M.collateral = 0
    /\ Traded(M) =>
           /\ M.k = M.seed * M.seed
           /\ M.reserve["yes"] + M.reserve["no"] >= 2 * M.seed
           /\ M.reserve["yes"] + M.reserve["no"] + M.shares["yes"] + M.shares["no"]
                = 2 * M.seed + M.collateral
    /\ M.status = "closed" => M.winner \in Sides

IInv == TypeOK /\ \A m \in MarketIds : BookInv(market[m])

-----------------------------------------------------------------------------
(* One market's book, one step of it at a time.                            *)

LEMMA BlankOK == BlankMarket \in MarketType /\ BookInv(BlankMarket)
  BY DEF BlankMarket, MarketType, BookInv, NoShares, Sides, Outcomes, Traded

LEMMA PendingOK ==
    ASSUME NEW M \in MarketType, BookInv(M), M.status = "none",
           NEW openTs \in Nat, NEW closeTs \in Nat
    PROVE  LET N == [M EXCEPT !.status = "pending", !.openTs = openTs, !.closeTs = closeTs]
           IN  N \in MarketType /\ BookInv(N)
  BY DEF MarketType, BookInv, Traded

LEMMA OpenedOK ==
    ASSUME NEW M \in MarketType, BookInv(M), M.status = "pending",
           NEW price \in Prices, NEW seed \in Nat
    PROVE  Opened(M, price, seed) \in MarketType /\ BookInv(Opened(M, price, seed))
<1>1. seed * seed \in Nat
  BY Z3
<1>2. Opened(M, price, seed) \in MarketType
  BY <1>1 DEF Opened, MarketType
<1> QED
  BY <1>2 DEF Opened, MarketType, BookInv, NoShares, Sides, Traded

LEMMA ClosedOK ==
    ASSUME NEW M \in MarketType, BookInv(M), M.status \in {"open", "halted"},
           NEW price \in Prices
    PROVE  Closed(M, price) \in MarketType /\ BookInv(Closed(M, price))
  BY DEF Closed, MarketType, BookInv, Sides, Outcomes, Traded

\* The book of M with other reserves, shares and collateral.
Rebooked(M, R, S, c) == [M EXCEPT !.reserve = R, !.shares = S, !.collateral = c]

LEMMA RebookedOK ==
    ASSUME NEW M \in MarketType, BookInv(M), Traded(M),
           NEW R \in [Sides -> Nat], NEW S \in [Sides -> Nat], NEW c \in Nat,
           NEW s \in Sides,
           R[s] + R[Other(s)] >= 2 * M.seed,
           R[s] + R[Other(s)] + S[s] + S[Other(s)] = 2 * M.seed + c
    PROVE  Rebooked(M, R, S, c) \in MarketType /\ BookInv(Rebooked(M, R, S, c))
<1>1. Rebooked(M, R, S, c) \in MarketType
  BY DEF Rebooked, MarketType
<1>2. /\ Rebooked(M, R, S, c).reserve = R
      /\ Rebooked(M, R, S, c).shares = S
      /\ Rebooked(M, R, S, c).collateral = c
      /\ Rebooked(M, R, S, c).k = M.k
      /\ Rebooked(M, R, S, c).seed = M.seed
      /\ Rebooked(M, R, S, c).status = M.status
      /\ Rebooked(M, R, S, c).winner = M.winner
  BY DEF Rebooked, MarketType
<1>3. M.status \notin {"none", "pending"}
  BY DEF Traded
<1>4. M.seed \in Nat
  BY DEF MarketType
<1>5. /\ R["yes"] + R["no"] >= 2 * M.seed
      /\ R["yes"] + R["no"] + S["yes"] + S["no"] = 2 * M.seed + c
  BY <1>4 DEF Sides, Other
<1> QED
  BY <1>1, <1>2, <1>3, <1>5 DEF BookInv, Traded

LEMMA BookFacts ==
    ASSUME NEW M \in MarketType, BookInv(M), Traded(M), NEW s \in Sides
    PROVE  /\ Other(s) \in Sides /\ Other(s) # s
           /\ \A x \in Sides : x = s \/ x = Other(s)
           /\ M.reserve \in [Sides -> Nat] /\ M.shares \in [Sides -> Nat]
           /\ M.k \in Nat /\ M.seed \in Nat /\ M.collateral \in Nat
           /\ M.k = M.seed * M.seed
           /\ M.reserve[s] + M.reserve[Other(s)] >= 2 * M.seed
           /\ M.reserve[s] + M.reserve[Other(s)] + M.shares[s] + M.shares[Other(s)]
                = 2 * M.seed + M.collateral
<1>1. M.reserve \in [Sides -> Nat] /\ M.shares \in [Sides -> Nat] /\ M.seed \in Nat
  BY DEF MarketType
<1> QED
  BY <1>1 DEF Sides, Other, MarketType, BookInv

\* A buyer's shares are covered by what he pays: the reserve they come from
\* cannot fall so far that the two reserves miss the seeds.
LEMMA BoughtOK ==
    ASSUME NEW M \in MarketType, BookInv(M), M.status = "open",
           NEW s \in Sides, NEW amount \in Nat, amount > 0,
           BoughtShares(M, s, amount) > 0
    PROVE  /\ BoughtShares(M, s, amount) \in Nat
           /\ Bought(M, s, amount) \in MarketType
           /\ BookInv(Bought(M, s, amount))
<1> DEFINE t == Other(s)
           paid == M.reserve[t] + amount
           left == M.k \div paid
           out == BoughtShares(M, s, amount)
           R == [x \in Sides |-> IF x = s THEN left ELSE paid]
           S == [M.shares EXCEPT ![s] = @ + out]
           c == M.collateral + amount
<1>1. Traded(M)
  BY DEF Traded
<1>2. /\ t \in Sides /\ t # s /\ \A x \in Sides : x = s \/ x = t
      /\ M.reserve \in [Sides -> Nat] /\ M.shares \in [Sides -> Nat]
      /\ M.k \in Nat /\ M.seed \in Nat /\ M.collateral \in Nat
      /\ M.k = M.seed * M.seed
      /\ M.reserve[s] + M.reserve[t] + M.shares[s] + M.shares[t]
           = 2 * M.seed + M.collateral
  BY <1>1, BookFacts
<1> HIDE DEF t
<1>3. paid \in Nat /\ paid > 0
  BY <1>2
<1>4. left \in Nat /\ paid + left >= 2 * M.seed
  BY <1>2, <1>3, FloorBounds, BalancedSumIsLeast
<1>5. out = M.reserve[s] - left /\ out \in Nat
  <2>1. out = M.reserve[s] - left
    BY DEF BoughtShares, SharesOut, t
  <2> QED
    BY <2>1, <1>2, <1>4
<1> HIDE DEF left, out
<1>6. R \in [Sides -> Nat] /\ S \in [Sides -> Nat] /\ c \in Nat
  BY <1>2, <1>3, <1>4, <1>5
<1>7. /\ R[s] = left /\ R[t] = paid
      /\ S[s] = M.shares[s] + out /\ S[t] = M.shares[t]
  BY <1>2
<1>8. R = [x \in Sides |-> IF x = s THEN M.reserve[x] - out ELSE M.reserve[x] + amount]
  BY <1>2, <1>4, <1>5
<1>9. Bought(M, s, amount) = Rebooked(M, R, S, c)
  BY <1>8 DEF Bought, Rebooked, MarketType, out
<1>10. c = M.collateral + amount /\ paid = M.reserve[t] + amount
  OBVIOUS
<1> HIDE DEF R, S, c, paid
<1>11. /\ R[s] + R[t] >= 2 * M.seed
       /\ R[s] + R[t] + S[s] + S[t] = 2 * M.seed + c
  <2>1. /\ M.reserve[s] \in Nat /\ M.reserve[t] \in Nat
        /\ M.shares[s] \in Nat /\ M.shares[t] \in Nat
        /\ M.seed \in Nat /\ M.collateral \in Nat
        /\ M.reserve[s] + M.reserve[t] + M.shares[s] + M.shares[t]
             = 2 * M.seed + M.collateral
    BY <1>2
  <2> QED
    BY <2>1, <1>3, <1>4, <1>5, <1>7, <1>10
<1> QED
  BY <1>1, <1>5, <1>6, <1>9, <1>11, RebookedOK DEF out, t

\* A seller is never paid more than the market's stakes, and his sale leaves
\* the rest covered: rounding the reserve up is at least rounding it down.
LEMMA SoldOK ==
    ASSUME NEW M \in MarketType, BookInv(M), M.status \in {"open", "halted"},
           NEW s \in Sides, NEW n \in Nat, n > 0, n <= M.shares[s],
           Proceeds(M, s, n) >= 0
    PROVE  /\ Proceeds(M, s, n) \in Nat
           /\ Proceeds(M, s, n) <= M.collateral
           /\ Sold(M, s, n) \in MarketType
           /\ BookInv(Sold(M, s, n))
           /\ Sold(M, s, n).status = M.status
<1> DEFINE t == Other(s)
           back == M.reserve[s] + n
           left == CeilDiv(M.k, back)
           out == Proceeds(M, s, n)
           R == [x \in Sides |-> IF x = s THEN back ELSE left]
           S == [M.shares EXCEPT ![s] = @ - n]
           c == M.collateral - out
<1>1. Traded(M)
  BY DEF Traded
<1>2. /\ t \in Sides /\ t # s /\ \A x \in Sides : x = s \/ x = t
      /\ M.reserve \in [Sides -> Nat] /\ M.shares \in [Sides -> Nat]
      /\ M.k \in Nat /\ M.seed \in Nat /\ M.collateral \in Nat
      /\ M.k = M.seed * M.seed
      /\ M.reserve[s] + M.reserve[t] + M.shares[s] + M.shares[t]
           = 2 * M.seed + M.collateral
  BY <1>1, BookFacts
<1> HIDE DEF t
<1>3. back \in Nat /\ back > 0
  BY <1>2
<1>4. left \in Nat /\ back + left >= 2 * M.seed
  <2>1. left \in Nat /\ M.k \div back <= left /\ M.k \div back \in Nat
    BY <1>2, <1>3, CeilBounds, FloorBounds
  <2>2. back + (M.k \div back) >= 2 * M.seed
    BY <1>2, <1>3, BalancedSumIsLeast
  <2> HIDE DEF left, back
  <2> QED
    BY <2>1, <2>2, <1>2, <1>3
<1>5. out = M.reserve[t] - left /\ out \in Nat
  <2>1. out = M.reserve[t] - left
    BY DEF Proceeds, UsdcOut, t
  <2> QED
    BY <2>1, <1>2, <1>4
<1>6. back = M.reserve[s] + n /\ c = M.collateral - out
  OBVIOUS
<1>7. /\ R[s] = back /\ R[t] = left
      /\ S[s] = M.shares[s] - n /\ S[t] = M.shares[t]
  BY <1>2
<1> HIDE DEF left, out, back
<1>8. /\ M.reserve[s] \in Nat /\ M.reserve[t] \in Nat
      /\ M.shares[s] \in Nat /\ M.shares[t] \in Nat
      /\ M.seed \in Nat /\ M.collateral \in Nat
      /\ M.reserve[s] + M.reserve[t] + M.shares[s] + M.shares[t]
           = 2 * M.seed + M.collateral
  BY <1>2
<1>9. out <= M.collateral
  BY <1>3, <1>4, <1>5, <1>6, <1>8
<1>10. R \in [Sides -> Nat] /\ S \in [Sides -> Nat] /\ c \in Nat
  BY <1>2, <1>3, <1>4, <1>5, <1>9
<1>11. R = [x \in Sides |-> IF x = s THEN M.reserve[x] + n ELSE M.reserve[x] - out]
  BY <1>2, <1>3, <1>4, <1>5, <1>6
<1>12. Sold(M, s, n) = Rebooked(M, R, S, c)
  BY <1>11 DEF Sold, Rebooked, MarketType, out
<1> HIDE DEF R, S, c
<1>13. /\ R[s] + R[t] >= 2 * M.seed
       /\ R[s] + R[t] + S[s] + S[t] = 2 * M.seed + c
  BY <1>3, <1>4, <1>5, <1>6, <1>7, <1>8
<1>14. Rebooked(M, R, S, c).status = M.status
  BY DEF Rebooked, MarketType
<1> QED
  BY <1>1, <1>5, <1>9, <1>10, <1>12, <1>13, <1>14, RebookedOK DEF out, t

LEMMA ProceedsInt ==
    ASSUME NEW M \in MarketType, NEW s \in Sides, NEW n \in Nat, n > 0
    PROVE  Proceeds(M, s, n) \in Int
<1>1. /\ M.reserve[s] + n \in Nat /\ M.reserve[s] + n > 0 /\ M.k \in Nat
      /\ M.reserve[Other(s)] \in Nat
  BY DEF MarketType, Other, Sides
<1>2. CeilDiv(M.k, M.reserve[s] + n) \in Nat
  BY <1>1, CeilBounds
<1> QED
  BY <1>1, <1>2 DEF Proceeds, UsdcOut

-----------------------------------------------------------------------------
(* Slots and profiles.                                                     *)

\* The first slot of a choice of slots is one of them.
LEMMA FirstSlot ==
    ASSUME NEW T, T \subseteq Slots, T # {}
    PROVE  Min(T) \in T /\ \A i \in T : Min(T) <= i
<1>1. T \subseteq Nat
  BY DEF Slots
<1>2. \E x \in T : \A y \in T : x <= y
  BY <1>1, LeastElement
<1> QED
  BY <1>2 DEF Min

LEMMA NewProfileOK ==
    ASSUME NEW p \in Policies PROVE NewProfile(p) \in ProfileType
  BY DEF NewProfile, ProfileType, SlotType, DefaultSlot, NoShares

LEMMA SlotFacts ==
    ASSUME NEW P \in ProfileType, NEW i \in Slots
    PROVE  /\ P.slots[i] \in SlotType
           /\ P.slots[i].mkt \in MarketIds /\ P.slots[i].stake \in Nat
           /\ P.slots[i].shares \in [Sides -> Nat]
  BY DEF ProfileType, SlotType

\* The profile P with another slot i and another balance.
Rewritten(P, i, S, b) == [P EXCEPT !.slots[i] = S, !.balance = b]

LEMMA ProfileWritten ==
    ASSUME NEW P \in ProfileType, NEW i \in Slots, NEW S \in SlotType, NEW b \in Nat
    PROVE  Rewritten(P, i, S, b) \in ProfileType
  BY DEF Rewritten, ProfileType

LEMMA SellerOK ==
    ASSUME NEW M \in MarketType, NEW P \in ProfileType, NEW i \in Slots, NEW s \in Sides,
           NEW n \in Nat, n <= P.slots[i].shares[s], Proceeds(M, s, n) \in Nat
    PROVE  Seller(M, P, i, s, n) \in ProfileType
<1> DEFINE out == Proceeds(M, s, n)
           S == P.slots[i]
<1>1. /\ S \in SlotType /\ S.stake \in Nat /\ S.shares \in [Sides -> Nat]
  BY SlotFacts
<1>2. P.balance + out \in Nat
  BY DEF ProfileType
<1>3. Seller(M, P, i, s, n) = Rewritten(P, i, Reduced(S, s, n, out), P.balance + out)
  BY DEF Seller, Rewritten, ProfileType
<1>4. S.shares[s] - n \in Nat
  BY <1>1
<1> HIDE DEF S, out
<1>5. [S.shares EXCEPT ![s] = @ - n] \in [Sides -> Nat] /\ SatSub(S.stake, out) \in Nat
  BY <1>1, <1>4 DEF SatSub, out
<1>6. Reduced(S, s, n, out) \in SlotType
  BY <1>1, <1>5 DEF SlotType, Reduced
<1> QED
  BY <1>2, <1>3, <1>6, ProfileWritten

LEMMA PaidOK ==
    ASSUME NEW M \in MarketType, M.winner \in Sides,
           NEW P \in ProfileType, NEW i \in Slots
    PROVE  Paid(M, P, i) \in ProfileType
<1>1. PayoutOf(M, P, i) \in Nat
  BY SlotFacts DEF PayoutOf
<1>2. P.balance + PayoutOf(M, P, i) \in Nat
  BY <1>1 DEF ProfileType
<1>3. DefaultSlot \in SlotType
  BY DEF DefaultSlot, SlotType, NoShares
<1> QED
  BY <1>2, <1>3 DEF Paid, ProfileType

-----------------------------------------------------------------------------
(* The invariant is inductive: one lemma per action.                       *)

Markets == market \in [MarketIds -> MarketType] /\ \A m \in MarketIds : BookInv(market[m])

\* A step that writes one market, and a step that writes one profile.
LEMMA MarketWritten ==
    ASSUME Markets, NEW m \in MarketIds, NEW M \in MarketType, BookInv(M),
           market' = [market EXCEPT ![m] = M]
    PROVE  Markets'
<1>1. market' \in [MarketIds -> MarketType]
  BY DEF Markets
<1>2. \A n \in MarketIds : market'[n] = M \/ market'[n] = market[n]
  BY DEF Markets
<1> QED
  BY <1>1, <1>2 DEF Markets

LEMMA AgentWritten ==
    ASSUME agent \in [Agents -> ProfileType], NEW a \in Agents, NEW P \in ProfileType
    PROVE  [agent EXCEPT ![a] = P] \in [Agents -> ProfileType]
  OBVIOUS

LEMMA StatusOK ==
    ASSUME NEW M \in MarketType, BookInv(M), M.status \in {"open", "halted"},
           NEW st \in {"open", "halted"}
    PROVE  /\ [M EXCEPT !.status = st] \in MarketType
           /\ BookInv([M EXCEPT !.status = st])
  BY DEF MarketType, BookInv, Traded

LEMMA InitOK == Init => IInv
<1> SUFFICES ASSUME Init PROVE IInv
  OBVIOUS
<1>1. AnyPolicy \in Policies
  BY DEF AnyPolicy
<1>2. agent \in [Agents -> ProfileType]
  BY <1>1, NewProfileOK DEF Init
<1>3. \A m \in MarketIds : market[m] = BlankMarket
  BY DEF Init
<1> QED
  BY <1>2, <1>3, BlankOK DEF Init, IInv, TypeOK, Locations

LEMMA EnvironmentOK == IInv /\ Environment => IInv'
<1> SUFFICES ASSUME IInv, Environment PROVE IInv'
  OBVIOUS
<1> USE DEF IInv, TypeOK, money, places
<1>1. CASE Tick
  BY <1>1 DEF Tick
<1>2. CASE \E price \in Prices, skew \in 0..MaxSkew : Publish(price, skew)
  <2>1. PICK price \in Prices, skew \in 0..MaxSkew : Publish(price, skew)
    BY <1>2
  <2>2. now + skew \in Nat
    OBVIOUS
  <2> QED
    BY <2>1, <2>2 DEF Publish
<1>3. CASE FinishUndelegate
  BY <1>3 DEF FinishUndelegate, Locations
<1> QED
  BY <1>1, <1>2, <1>3 DEF Environment

\* A step that writes one market's account and nothing else.
OneMarket(m, M) ==
    /\ market' = [market EXCEPT ![m] = M]
    /\ UNCHANGED <<now, oracle, agent, registered, places, money>>

LEMMA OneMarketOK ==
    ASSUME IInv, NEW m \in MarketIds, NEW M \in MarketType, BookInv(M),
           OneMarket(m, M), marketCount' \in Nat
    PROVE  IInv'
<1>1. Markets'
  BY MarketWritten DEF IInv, TypeOK, Markets, OneMarket
<1> QED
  BY <1>1 DEF IInv, TypeOK, Markets, OneMarket, money, places

LEMMA MarketFacts ==
    ASSUME IInv, NEW m \in MarketIds
    PROVE  /\ market[m] \in MarketType /\ BookInv(market[m])
           /\ marketCount \in Nat /\ marketCount + 1 \in Nat
  BY DEF IInv, TypeOK

LEMMA CreateMarketOK ==
    ASSUME IInv, NEW m \in MarketIds, NEW w \in Windows, CreateMarket(m, w[1], w[2])
    PROVE  IInv'
<1> DEFINE M == [BlankMarket EXCEPT !.status = "pending",
                                    !.openTs = w[1], !.closeTs = w[2]]
<1>1. w[1] \in Nat /\ w[2] \in Nat
  OBVIOUS
<1>2. M \in MarketType /\ BookInv(M)
  <2>1. BlankMarket \in MarketType /\ BookInv(BlankMarket) /\ BlankMarket.status = "none"
    BY BlankOK DEF BlankMarket
  <2> QED
    BY <1>1, <2>1, PendingOK
<1>3. OneMarket(m, M) /\ marketCount' \in Nat
  BY MarketFacts DEF CreateMarket, OneMarket
<1> HIDE DEF M
<1> QED
  BY <1>2, <1>3, OneMarketOK

LEMMA OpenMarketOK ==
    ASSUME IInv, NEW m \in MarketIds, NEW seed \in Seeds, OpenMarket(m, seed)
    PROVE  IInv'
<1> DEFINE M == Opened(market[m], oracle.price, seed)
<1>1. M \in MarketType /\ BookInv(M)
  BY MarketFacts, OpenedOK DEF OpenMarket, IInv, TypeOK
<1>2. OneMarket(m, M) /\ marketCount' \in Nat
  BY MarketFacts DEF OpenMarket, OneMarket
<1> HIDE DEF M
<1> QED
  BY <1>1, <1>2, OneMarketOK

LEMMA CloseMarketOK ==
    ASSUME IInv, NEW m \in MarketIds, CloseMarket(m)
    PROVE  IInv'
<1> DEFINE M == Closed(market[m], oracle.price)
<1>1. M \in MarketType /\ BookInv(M)
  BY MarketFacts, ClosedOK DEF CloseMarket, Closable, IInv, TypeOK
<1>2. OneMarket(m, M) /\ marketCount' \in Nat
  BY MarketFacts DEF CloseMarket, OneMarket
<1> HIDE DEF M
<1> QED
  BY <1>1, <1>2, OneMarketOK

LEMMA HaltAndResumeOK ==
    ASSUME IInv, NEW m \in MarketIds, HaltMarket(m) \/ ResumeMarket(m)
    PROVE  IInv'
<1>1. PICK st \in {"open", "halted"} :
          market' = [market EXCEPT ![m] = [market[m] EXCEPT !.status = st]]
  BY DEF HaltMarket, ResumeMarket
<1> DEFINE M == [market[m] EXCEPT !.status = st]
<1>2. M \in MarketType /\ BookInv(M)
  BY MarketFacts, StatusOK DEF HaltMarket, ResumeMarket
<1>3. OneMarket(m, M) /\ marketCount' \in Nat
  BY <1>1, MarketFacts DEF HaltMarket, ResumeMarket, OneMarket
<1> HIDE DEF M
<1> QED
  BY <1>2, <1>3, OneMarketOK

-----------------------------------------------------------------------------

\* A step that writes one profile and the money accounts.
OneAgent(a, P) ==
    /\ agent' = [agent EXCEPT ![a] = P]
    /\ UNCHANGED <<now, oracle, marketCount, market, places>>

LEMMA OneAgentOK ==
    ASSUME IInv, NEW a \in Agents, NEW P \in ProfileType, OneAgent(a, P),
           registered' \subseteq Agents,
           wallet' \in [Agents -> Nat], vault' \in Nat, treasury' \in Nat
    PROVE  IInv'
<1>1. agent' \in [Agents -> ProfileType]
  BY AgentWritten DEF IInv, TypeOK, OneAgent
<1> QED
  BY <1>1 DEF IInv, TypeOK, OneAgent, places

LEMMA AgentFacts ==
    ASSUME IInv, NEW a \in Agents
    PROVE  /\ agent[a] \in ProfileType
           /\ agent[a].balance \in Nat /\ agent[a].deposited \in Nat
           /\ agent[a].highWater \in Nat
           /\ wallet \in [Agents -> Nat] /\ vault \in Nat /\ treasury \in Nat
           /\ registered \subseteq Agents
<1>1. agent[a] \in ProfileType
  BY DEF IInv, TypeOK
<1> QED
  BY <1>1 DEF IInv, TypeOK, ProfileType

LEMMA RegisterAgentOK ==
    ASSUME IInv, NEW a \in Agents, NEW p \in Policies, RegisterAgent(a, p)
    PROVE  IInv'
<1>1. NewProfile(p) \in ProfileType
  BY NewProfileOK
<1>2. OneAgent(a, NewProfile(p)) /\ registered' \subseteq Agents
  BY AgentFacts DEF RegisterAgent, OneAgent
<1>3. wallet' \in [Agents -> Nat] /\ vault' \in Nat /\ treasury' \in Nat
  BY AgentFacts DEF RegisterAgent, money
<1> QED
  BY <1>1, <1>2, <1>3, OneAgentOK

LEMMA UpdatePolicyOK ==
    ASSUME IInv, NEW a \in Agents, NEW p \in Policies, UpdatePolicy(a, p)
    PROVE  IInv'
<1> DEFINE P == [agent[a] EXCEPT !.policy = p]
<1>1. P \in ProfileType
  BY AgentFacts DEF ProfileType
<1>2. OneAgent(a, P) /\ registered' \subseteq Agents
  BY AgentFacts DEF UpdatePolicy, OneAgent
<1>3. wallet' \in [Agents -> Nat] /\ vault' \in Nat /\ treasury' \in Nat
  BY AgentFacts DEF UpdatePolicy, money
<1> HIDE DEF P
<1> QED
  BY <1>1, <1>2, <1>3, OneAgentOK

LEMMA DepositOK ==
    ASSUME IInv, NEW a \in Agents, NEW amount \in Transfers, Deposit(a, amount)
    PROVE  IInv'
<1> DEFINE P == [agent[a] EXCEPT !.balance = @ + amount, !.deposited = @ + amount,
                                 !.highWater = @ + amount]
<1>1. amount \in Nat /\ wallet[a] \in Nat /\ amount <= wallet[a]
  BY AgentFacts DEF Deposit
<1>2. P \in ProfileType
  <2>1. /\ agent[a] \in ProfileType
        /\ agent[a].balance + amount \in Nat /\ agent[a].deposited + amount \in Nat
        /\ agent[a].highWater + amount \in Nat
    BY <1>1, AgentFacts
  <2> QED
    BY <2>1 DEF ProfileType
<1>3. OneAgent(a, P) /\ registered' \subseteq Agents
  BY AgentFacts DEF Deposit, InCustody, WrittenOnBase, OneAgent, places
<1>4. wallet' \in [Agents -> Nat] /\ vault' \in Nat /\ treasury' \in Nat
  BY <1>1, AgentFacts DEF Deposit
<1> HIDE DEF P
<1> QED
  BY <1>2, <1>3, <1>4, OneAgentOK

LEMMA FeeFacts ==
    ASSUME NEW P \in ProfileType, NEW amount \in Nat
    PROVE  /\ PrincipalOf(P, amount) \in Nat /\ PrincipalOf(P, amount) <= P.deposited
           /\ FeeOn(P, amount) \in Nat
<1> DEFINE gain == amount - PrincipalOf(P, amount)
<1>1. P.deposited \in Nat
  BY DEF ProfileType
<1>2. /\ PrincipalOf(P, amount) \in Nat /\ PrincipalOf(P, amount) <= P.deposited
      /\ gain \in Nat
  BY <1>1 DEF PrincipalOf, AtMost
<1> HIDE DEF gain
<1>3. gain * FeeBps \in Nat
  BY <1>2, Z3
<1>4. (gain * FeeBps) \div 10000 \in Nat
  BY <1>3, FloorBounds
<1>5. ((gain * FeeBps) \div 10000) % (U64Max + 1) \in Nat
  BY <1>4
<1> QED
  BY <1>2, <1>5 DEF FeeOn, gain

LEMMA WithdrawOK ==
    ASSUME IInv, NEW a \in Agents, NEW amount \in Transfers, Withdraw(a, amount)
    PROVE  IInv'
<1> DEFINE fee == FeeOn(agent[a], amount)
           back == PrincipalOf(agent[a], amount)
           P == [agent[a] EXCEPT !.balance = @ - amount, !.deposited = @ - back,
                                 !.highWater = SatSub(@, amount)]
<1>1. /\ fee \in Nat /\ fee <= amount /\ amount \in Nat /\ amount <= vault
      /\ amount <= agent[a].balance
      /\ back \in Nat /\ back <= agent[a].deposited
  BY AgentFacts, FeeFacts DEF Withdraw
<1>2. OneAgent(a, P) /\ registered' \subseteq Agents
  BY AgentFacts DEF Withdraw, InCustody, WrittenOnBase, OneAgent, places
<1>3. /\ wallet' = [wallet EXCEPT ![a] = @ + (amount - fee)]
      /\ vault' = vault - amount /\ treasury' = treasury + fee
  BY DEF Withdraw
<1> HIDE DEF fee, back
<1>4. P \in ProfileType
  <2>1. /\ agent[a] \in ProfileType
        /\ agent[a].balance - amount \in Nat /\ agent[a].deposited - back \in Nat
        /\ SatSub(agent[a].highWater, amount) \in Nat
    BY <1>1, AgentFacts DEF SatSub
  <2> QED
    BY <2>1 DEF ProfileType
<1>5. wallet' \in [Agents -> Nat] /\ vault' \in Nat /\ treasury' \in Nat
  BY <1>1, <1>3, AgentFacts
<1> HIDE DEF P
<1> QED
  BY <1>2, <1>4, <1>5, OneAgentOK

-----------------------------------------------------------------------------

\* A step that writes one market and one profile.
OneOfEach(m, M, a, P) ==
    /\ market' = [market EXCEPT ![m] = M]
    /\ agent' = [agent EXCEPT ![a] = P]
    /\ UNCHANGED <<now, oracle, marketCount, registered, places, money>>

LEMMA OneOfEachOK ==
    ASSUME IInv, NEW m \in MarketIds, NEW M \in MarketType, BookInv(M),
           NEW a \in Agents, NEW P \in ProfileType, OneOfEach(m, M, a, P)
    PROVE  IInv'
<1>1. Markets'
  BY MarketWritten DEF IInv, TypeOK, Markets, OneOfEach
<1>2. agent' \in [Agents -> ProfileType]
  BY AgentWritten DEF IInv, TypeOK, OneOfEach
<1> QED
  BY <1>1, <1>2 DEF IInv, TypeOK, Markets, OneOfEach, money, places

LEMMA SlotChoices ==
    ASSUME NEW P, NEW m
    PROVE  Candidates(P, m) \subseteq Slots /\ Holding(P, m) \subseteq Slots
  BY DEF Candidates, Holding

LEMMA PlaceBetOK ==
    ASSUME IInv, NEW a \in Agents, NEW m \in MarketIds, NEW s \in Sides,
           NEW amount \in Bets, PlaceBet(a, m, s, amount)
    PROVE  IInv'
<1> DEFINE out == BoughtShares(market[m], s, amount)
           M == Bought(market[m], s, amount)
           i == Min(Candidates(agent[a], m))
           S == agent[a].slots[i]
           S2 == [mkt |-> m, shares |-> [S.shares EXCEPT ![s] = @ + out],
                  stake |-> S.stake + amount]
           P == [agent[a] EXCEPT !.slots[i] = S2, !.balance = @ - amount,
                                 !.len = LenAfter(@, i)]
<1>1. /\ amount \in Nat /\ amount > 0 /\ out > 0
      /\ market[m].status = "open" /\ amount <= agent[a].balance
      /\ Candidates(agent[a], m) # {}
  BY DEF PlaceBet, CanBet
<1>2. out \in Nat /\ M \in MarketType /\ BookInv(M)
  BY <1>1, MarketFacts, BoughtOK
<1>3. i \in Slots
  BY <1>1, SlotChoices, FirstSlot
<1>4. agent' = [agent EXCEPT ![a] = P] /\ market' = [market EXCEPT ![m] = M]
  BY AgentFacts DEF PlaceBet, IInv, TypeOK, ProfileType
<1> HIDE DEF out, i
<1>5. S2 \in SlotType
  <2>1. S.shares \in [Sides -> Nat] /\ S.stake \in Nat
    BY <1>3, AgentFacts, SlotFacts
  <2> HIDE DEF S
  <2>2. [S.shares EXCEPT ![s] = @ + out] \in [Sides -> Nat] /\ S.stake + amount \in Nat
    BY <1>1, <1>2, <2>1
  <2> QED
    BY <2>2 DEF SlotType
<1> HIDE DEF S2
<1>6. P \in ProfileType
  <2>1. /\ agent[a] \in ProfileType /\ agent[a].balance - amount \in Nat
        /\ i \in 0..MaxPositions
    BY <1>1, <1>3, AgentFacts DEF Slots
  <2> QED
    BY <1>3, <1>5, <2>1 DEF ProfileType, LenAfter
<1>7. OneOfEach(m, M, a, P)
  BY <1>4 DEF OneOfEach, PlaceBet
<1> HIDE DEF M, P
<1> QED
  BY <1>2, <1>6, <1>7, OneOfEachOK

LEMMA ClosePositionOK ==
    ASSUME IInv, NEW a \in Agents, NEW m \in MarketIds, NEW s \in Sides,
           NEW n \in Nat, ClosePosition(a, m, s, n)
    PROVE  IInv'
<1>1. PICK i \in Holding(agent[a], m) :
          /\ Sellable(market[m], agent[a], i, s, n)
          /\ market' = [market EXCEPT ![m] = Sold(@, s, n)]
          /\ agent' = [agent EXCEPT ![a] = Seller(market[m], @, i, s, n)]
  BY DEF ClosePosition
<1> DEFINE M == Sold(market[m], s, n)
           P == Seller(market[m], agent[a], i, s, n)
<1>2. /\ i \in Slots /\ n > 0 /\ market[m].status \in {"open", "halted"}
      /\ n <= agent[a].slots[i].shares[s] /\ n <= market[m].shares[s]
      /\ Proceeds(market[m], s, n) >= 0
  BY <1>1, SlotChoices DEF ClosePosition, Exitable, Sellable
<1>3. Proceeds(market[m], s, n) \in Nat /\ M \in MarketType /\ BookInv(M)
  BY <1>2, MarketFacts, SoldOK
<1>4. P \in ProfileType
  BY <1>2, <1>3, MarketFacts, AgentFacts, SellerOK
<1>5. OneOfEach(m, M, a, P)
  BY <1>1 DEF OneOfEach, ClosePosition
<1> HIDE DEF M, P
<1> QED
  BY <1>3, <1>4, <1>5, OneOfEachOK

\* One side of cancel_bet.
LEMMA SideOK ==
    ASSUME NEW M \in MarketType, BookInv(M), M.status \in {"open", "halted"},
           NEW P \in ProfileType, NEW i \in Slots, NEW s \in Sides, NEW n \in Nat,
           n > 0 => Sellable(M, P, i, s, n)
    PROVE  /\ SideMarket(M, s, n) \in MarketType /\ BookInv(SideMarket(M, s, n))
           /\ SideMarket(M, s, n).status = M.status
           /\ SideSeller(M, P, i, s, n) \in ProfileType
<1>1. CASE n = 0
  BY <1>1 DEF SideMarket, SideSeller
<1>2. CASE n > 0
  <2>1. /\ n <= P.slots[i].shares[s] /\ n <= M.shares[s] /\ Proceeds(M, s, n) >= 0
    BY <1>2 DEF Sellable
  <2>2. /\ Proceeds(M, s, n) \in Nat /\ Sold(M, s, n) \in MarketType
        /\ BookInv(Sold(M, s, n)) /\ Sold(M, s, n).status = M.status
    BY <1>2, <2>1, SoldOK
  <2>3. Seller(M, P, i, s, n) \in ProfileType
    BY <2>1, <2>2, SellerOK
  <2> QED
    BY <1>2, <2>2, <2>3 DEF SideMarket, SideSeller
<1> QED
  BY <1>1, <1>2

LEMMA CancelBetOK ==
    ASSUME IInv, NEW a \in Agents, NEW m \in MarketIds, CancelBet(a, m)
    PROVE  IInv'
<1>1. PICK i \in Holding(agent[a], m) :
          LET yes == agent[a].slots[i].shares["yes"]
              no  == agent[a].slots[i].shares["no"]
              M   == SideMarket(market[m], "yes", yes)
              P   == SideSeller(market[m], agent[a], i, "yes", yes)
          IN  /\ yes > 0 => Sellable(market[m], agent[a], i, "yes", yes)
              /\ no > 0 => Sellable(M, P, i, "no", no)
              /\ market' = [market EXCEPT ![m] = SideMarket(M, "no", no)]
              /\ agent' = [agent EXCEPT ![a] = SideSeller(M, P, i, "no", no)]
  BY DEF CancelBet
<1> DEFINE yes == agent[a].slots[i].shares["yes"]
           no  == agent[a].slots[i].shares["no"]
           M   == SideMarket(market[m], "yes", yes)
           P   == SideSeller(market[m], agent[a], i, "yes", yes)
           M2  == SideMarket(M, "no", no)
           P2  == SideSeller(M, P, i, "no", no)
<1>2. i \in Slots /\ market[m].status \in {"open", "halted"}
  BY <1>1, SlotChoices DEF CancelBet, Exitable
<1>3. agent[a].slots[i].shares \in [Sides -> Nat]
  BY <1>2, AgentFacts, SlotFacts
<1>4. yes \in Nat /\ no \in Nat /\ "yes" \in Sides /\ "no" \in Sides
  BY <1>3 DEF Sides
<1>5. OneOfEach(m, M2, a, P2)
  BY <1>1 DEF OneOfEach, CancelBet
<1>6. /\ yes > 0 => Sellable(market[m], agent[a], i, "yes", yes)
      /\ no > 0 => Sellable(M, P, i, "no", no)
  BY <1>1
<1> HIDE DEF yes, no
<1>7. /\ M \in MarketType /\ BookInv(M) /\ M.status \in {"open", "halted"}
      /\ P \in ProfileType
  <2>1. market[m] \in MarketType /\ BookInv(market[m]) /\ agent[a] \in ProfileType
    BY MarketFacts, AgentFacts
  <2>2. /\ M \in MarketType /\ BookInv(M) /\ M.status = market[m].status
        /\ P \in ProfileType
    BY <1>2, <1>4, <1>6, <2>1, SideOK
  <2> QED
    BY <1>2, <2>2
<1> HIDE DEF M, P
<1>8. M2 \in MarketType /\ BookInv(M2) /\ P2 \in ProfileType
  BY <1>2, <1>4, <1>6, <1>7, SideOK
<1> HIDE DEF M2, P2
<1> QED
  BY <1>5, <1>8, OneOfEachOK

LEMMA SettlePositionOK ==
    ASSUME IInv, NEW a \in Agents, NEW m \in MarketIds, SettlePosition(a, m)
    PROVE  IInv'
<1>1. PICK i \in Holding(agent[a], m) :
          agent' = [agent EXCEPT ![a] = Paid(market[m], @, i)]
  BY DEF SettlePosition
<1> DEFINE P == Paid(market[m], agent[a], i)
<1>2. i \in Slots
  BY <1>1, SlotChoices
<1>3. market[m].winner \in Sides
  BY MarketFacts DEF SettlePosition, BookInv
<1>4. P \in ProfileType
  BY <1>2, <1>3, MarketFacts, AgentFacts, PaidOK
<1>5. OneAgent(a, P) /\ registered' \subseteq Agents
  BY <1>1, AgentFacts DEF SettlePosition, OneAgent
<1>6. wallet' \in [Agents -> Nat] /\ vault' \in Nat /\ treasury' \in Nat
  BY AgentFacts DEF SettlePosition, money
<1> HIDE DEF P
<1> QED
  BY <1>4, <1>5, <1>6, OneAgentOK

LEMMA SettlePositionsOK ==
    ASSUME IInv, NEW m \in MarketIds, NEW batch \in SUBSET Agents,
           SettlePositions(m, batch)
    PROVE  IInv'
<1> DEFINE SlotOf(a) == Min(Holding(agent[a], m))
           Settled(a) == IF a \in batch /\ Holding(agent[a], m) # {}
                         THEN Paid(market[m], agent[a], SlotOf(a)) ELSE agent[a]
<1>1. agent' = [a \in Agents |-> Settled(a)]
  BY DEF SettlePositions
<1>2. market[m].winner \in Sides
  BY MarketFacts DEF SettlePositions, BookInv
<1>3. ASSUME NEW a \in Agents PROVE Settled(a) \in ProfileType
  <2>1. CASE Holding(agent[a], m) = {}
    BY <2>1, AgentFacts
  <2>2. CASE Holding(agent[a], m) # {}
    <3>1. SlotOf(a) \in Slots
      BY <2>2, SlotChoices, FirstSlot
    <3> HIDE DEF SlotOf
    <3> QED
      BY <3>1, <1>2, MarketFacts, AgentFacts, PaidOK
  <2> QED
    BY <2>1, <2>2
<1> HIDE DEF Settled
<1>4. agent' \in [Agents -> ProfileType]
  BY <1>1, <1>3
<1>5. UNCHANGED <<now, oracle, marketCount, market, registered, places, money>>
  BY DEF SettlePositions
<1> QED
  BY <1>4, <1>5 DEF IInv, TypeOK, places, money

LEMMA MarketStepOK ==
    ASSUME IInv, NEW m \in MarketIds, MarketStep(m) PROVE IInv'
<1>1. CASE \E w \in Windows : CreateMarket(m, w[1], w[2])
  BY <1>1, CreateMarketOK
<1>2. CASE \E seed \in Seeds : OpenMarket(m, seed)
  BY <1>2, OpenMarketOK
<1>3. CASE HaltMarket(m) \/ ResumeMarket(m)
  BY <1>3, HaltAndResumeOK
<1>4. CASE CloseMarket(m)
  BY <1>4, CloseMarketOK
<1>5. CASE DelegateMarket(m) \/ CommitAndUndelegateMarket(m)
  BY <1>5 DEF IInv, TypeOK, money, Locations, DelegateMarket, CommitAndUndelegateMarket
<1>6. CASE \E batch \in SUBSET Agents : SettlePositions(m, batch)
  BY <1>6, SettlePositionsOK
<1> QED
  BY <1>1, <1>2, <1>3, <1>4, <1>5, <1>6 DEF MarketStep

LEMMA AgentStepOK ==
    ASSUME IInv, NEW a \in Agents, AgentStep(a) PROVE IInv'
<1>1. CASE \E p \in Policies : RegisterAgent(a, p) \/ UpdatePolicy(a, p)
  BY <1>1, RegisterAgentOK, UpdatePolicyOK
<1>2. CASE \E amount \in Transfers : Deposit(a, amount) \/ Withdraw(a, amount)
  BY <1>2, DepositOK, WithdrawOK
<1>3. CASE DelegateAgent(a) \/ CommitAndUndelegateAgent(a)
  BY <1>3 DEF IInv, TypeOK, money, Locations, DelegateAgent, CommitAndUndelegateAgent
<1> QED
  BY <1>1, <1>2, <1>3 DEF AgentStep

LEMMA TradeOK ==
    ASSUME IInv, NEW a \in Agents, NEW m \in MarketIds, Trade(a, m) PROVE IInv'
<1>1. CASE \E s \in Sides, amount \in Bets : PlaceBet(a, m, s, amount)
  BY <1>1, PlaceBetOK
<1>2. CASE \E s \in Sides, i \in Slots : \E n \in 1..agent[a].slots[i].shares[s] :
               ClosePosition(a, m, s, n)
  <2>1. PICK s \in Sides, n \in Nat : ClosePosition(a, m, s, n)
    BY <1>2
  <2> QED
    BY <2>1, ClosePositionOK
<1>3. CASE CancelBet(a, m)
  BY <1>3, CancelBetOK
<1>4. CASE SettlePosition(a, m)
  BY <1>4, SettlePositionOK
<1> QED
  BY <1>1, <1>2, <1>3, <1>4 DEF Trade

LEMMA Inductive == IInv /\ [Next]_vars => IInv'
<1> SUFFICES ASSUME IInv, [Next]_vars PROVE IInv'
  OBVIOUS
<1>1. CASE Environment
  BY <1>1, EnvironmentOK
<1>2. CASE \E m \in MarketIds : MarketStep(m)
  BY <1>2, MarketStepOK
<1>3. CASE \E a \in Agents : AgentStep(a) \/ \E m \in MarketIds : Trade(a, m)
  BY <1>3, AgentStepOK, TradeOK
<1>4. CASE UNCHANGED vars
  BY <1>4 DEF vars, places, money, IInv, TypeOK
<1> QED
  BY <1>1, <1>2, <1>3, <1>4 DEF Next

LEMMA Invariance == Spec => []IInv
  BY InitOK, Inductive, PTL DEF Spec

-----------------------------------------------------------------------------
(* What follows.                                                           *)

\* Every account keeps its type: no instruction takes a balance, a reserve, a
\* stake or the vault below zero, or writes past the slots of a profile.
THEOREM TypeCorrect == Spec => []TypeOK
<1>1. IInv => TypeOK
  BY DEF IInv
<1> QED
  BY <1>1, Invariance, PTL

LEMMA BooksSolvent == IInv => Solvent
<1> SUFFICES ASSUME IInv, NEW m \in MarketIds, Traded(market[m])
             PROVE  market[m].shares["yes"] + market[m].shares["no"]
                        <= market[m].collateral
  BY DEF Solvent
<1> DEFINE M == market[m]
<1>1. M \in MarketType /\ BookInv(M)
  BY MarketFacts
<1>2. /\ M.reserve["yes"] \in Nat /\ M.reserve["no"] \in Nat /\ M.seed \in Nat
      /\ M.shares["yes"] \in Nat /\ M.shares["no"] \in Nat /\ M.collateral \in Nat
  BY <1>1 DEF MarketType, Sides
<1>3. /\ M.reserve["yes"] + M.reserve["no"] >= 2 * M.seed
      /\ M.reserve["yes"] + M.reserve["no"] + M.shares["yes"] + M.shares["no"]
           = 2 * M.seed + M.collateral
  BY <1>1 DEF BookInv
<1> HIDE DEF M
<1>4. M.shares["yes"] + M.shares["no"] <= M.collateral
  BY <1>2, <1>3
<1> QED
  BY <1>4 DEF M

\* In every market, for any seed, any constant and any sequence of rounded
\* trades, the shares of both sides together are covered by the stakes.
THEOREM AlwaysSolvent == Spec => []Solvent
  BY BooksSolvent, Invariance, PTL

LEMMA BooksCoverSales == IInv => SalesCovered
<1> SUFFICES ASSUME IInv, NEW m \in MarketIds,
                    market[m].status \in {"open", "halted"},
                    NEW s \in Sides, NEW n \in 1..market[m].shares[s]
             PROVE  Proceeds(market[m], s, n) <= market[m].collateral
  BY DEF SalesCovered
<1>1. /\ market[m] \in MarketType /\ BookInv(market[m])
      /\ market[m].shares \in [Sides -> Nat] /\ market[m].collateral \in Nat
  BY MarketFacts DEF MarketType
<1>2. n \in Nat /\ n > 0 /\ n <= market[m].shares[s]
  BY <1>1
<1>3. CASE Proceeds(market[m], s, n) >= 0
  BY <1>1, <1>2, <1>3, SoldOK
<1>4. CASE ~(Proceeds(market[m], s, n) >= 0)
  <2>1. Proceeds(market[m], s, n) \in Int
    BY <1>1, <1>2, ProceedsInt
  <2> QED
    BY <1>1, <1>4, <2>1
<1> QED
  BY <1>3, <1>4

\* While a market trades, no sale finds it short of stakes: the Insolvent
\* checks of close_position and cancel_bet never fire.
THEOREM SalesAlwaysCovered == Spec => []SalesCovered
  BY BooksCoverSales, Invariance, PTL

\* What one step can do to a market: leave it, or make one of these of it.
Successor(m, N) ==
    LET M == market[m]
    IN  \/ N = M
        \/ M.status = "none" /\ N.shares = NoShares /\ N.reserve = NoShares
                             /\ N.collateral = 0
        \/ M.status = "pending" /\ now < M.closeTs
        \/ /\ M.status \in {"open", "halted"}
           /\ N.shares = M.shares /\ N.reserve = M.reserve /\ N.collateral = M.collateral
        \/ M.status = "open" /\ now < M.closeTs
        \/ /\ M.status = "halted" /\ now < M.closeTs
           /\ \A s \in Sides : N.shares[s] <= M.shares[s]

LEMMA SoldShrinks ==
    ASSUME NEW M \in MarketType, NEW s \in Sides, NEW n \in Nat
    PROVE  \A x \in Sides : /\ SideMarket(M, s, n).shares[x] \in Int
                            /\ SideMarket(M, s, n).shares[x] <= M.shares[x]
<1>1. \A x \in Sides : M.shares[x] \in Nat
  BY DEF MarketType
<1>2. M.shares \in [Sides -> Nat]
  BY DEF MarketType
<1>3. Sold(M, s, n).shares = [M.shares EXCEPT ![s] = @ - n]
  BY DEF Sold, MarketType
<1>4. \A x \in Sides : /\ [M.shares EXCEPT ![s] = @ - n][x] \in Int
                       /\ [M.shares EXCEPT ![s] = @ - n][x] <= M.shares[x]
  BY <1>1, <1>2
<1>5. CASE n = 0
  BY <1>1, <1>5 DEF SideMarket
<1>6. CASE n # 0
  <2>1. SideMarket(M, s, n).shares = [M.shares EXCEPT ![s] = @ - n]
    BY <1>3, <1>6 DEF SideMarket
  <2> QED
    BY <1>4, <2>1
<1> QED
  BY <1>5, <1>6

LEMMA OneSuccessor ==
    ASSUME IInv, NEW x \in MarketIds, NEW N, Successor(x, N),
           market' = [market EXCEPT ![x] = N], NEW m \in MarketIds
    PROVE  Successor(m, market'[m])
  BY DEF Successor, IInv, TypeOK

LEMMA MarketStepSuccessor ==
    ASSUME IInv, NEW x \in MarketIds, MarketStep(x), NEW m \in MarketIds
    PROVE  Successor(m, market'[m])
<1>0. market[x] \in MarketType /\ BookInv(market[x])
  BY MarketFacts
<1>1. CASE \E w \in Windows : CreateMarket(x, w[1], w[2])
  <2>1. PICK w \in Windows : CreateMarket(x, w[1], w[2])
    BY <1>1
  <2> DEFINE N == [BlankMarket EXCEPT !.status = "pending",
                                      !.openTs = w[1], !.closeTs = w[2]]
  <2>2. N.shares = NoShares /\ N.reserve = NoShares /\ N.collateral = 0
    BY DEF BlankMarket
  <2>3. market' = [market EXCEPT ![x] = N] /\ market[x].status = "none"
    BY <2>1 DEF CreateMarket
  <2> HIDE DEF N
  <2>4. Successor(x, N)
    BY <2>2, <2>3 DEF Successor
  <2> QED
    BY <2>3, <2>4, OneSuccessor
<1>2. CASE \E seed \in Seeds : OpenMarket(x, seed)
  <2>1. PICK seed \in Seeds : OpenMarket(x, seed)
    BY <1>2
  <2>2. Successor(x, Opened(market[x], oracle.price, seed))
    BY <2>1 DEF Successor, OpenMarket
  <2> QED
    BY <2>1, <2>2, OneSuccessor DEF OpenMarket
<1>3. CASE HaltMarket(x) \/ ResumeMarket(x)
  <2>1. PICK st \in {"open", "halted"} :
            market' = [market EXCEPT ![x] = [market[x] EXCEPT !.status = st]]
    BY <1>3 DEF HaltMarket, ResumeMarket
  <2>2. Successor(x, [market[x] EXCEPT !.status = st])
    BY <1>0, <1>3 DEF HaltMarket, ResumeMarket, Successor, MarketType
  <2> QED
    BY <2>1, <2>2, OneSuccessor
<1>4. CASE CloseMarket(x)
  <2>1. Successor(x, Closed(market[x], oracle.price))
    BY <1>0, <1>4 DEF CloseMarket, Closable, Closed, Successor, MarketType
  <2> QED
    BY <1>4, <2>1, OneSuccessor DEF CloseMarket
<1>5. CASE UNCHANGED market
  BY <1>5 DEF Successor
<1> QED
  BY <1>1, <1>2, <1>3, <1>4, <1>5
  DEF MarketStep, DelegateMarket, CommitAndUndelegateMarket, SettlePositions

LEMMA TradeSuccessor ==
    ASSUME IInv, NEW a \in Agents, NEW x \in MarketIds, Trade(a, x), NEW m \in MarketIds
    PROVE  Successor(m, market'[m])
<1>0. market[x] \in MarketType /\ BookInv(market[x])
  BY MarketFacts
<1>1. CASE \E s \in Sides, amount \in Bets : PlaceBet(a, x, s, amount)
  <2>1. PICK s \in Sides, amount \in Bets : PlaceBet(a, x, s, amount)
    BY <1>1
  <2>2. /\ market' = [market EXCEPT ![x] = Bought(market[x], s, amount)]
        /\ market[x].status = "open" /\ now < market[x].closeTs
    BY <2>1 DEF PlaceBet, CanBet
  <2>3. Successor(x, Bought(market[x], s, amount))
    BY <2>2 DEF Successor
  <2> QED
    BY <2>2, <2>3, OneSuccessor
<1>2. CASE \E s \in Sides, i \in Slots : \E n \in 1..agent[a].slots[i].shares[s] :
               ClosePosition(a, x, s, n)
  <2>1. PICK s \in Sides, n \in Nat : ClosePosition(a, x, s, n)
    BY <1>2
  <2>2. /\ market' = [market EXCEPT ![x] = Sold(market[x], s, n)]
        /\ Exitable(market[x]) /\ n > 0
    BY <2>1 DEF ClosePosition
  <2>3. \A y \in Sides : Sold(market[x], s, n).shares[y] <= market[x].shares[y]
    BY <1>0, <2>2, SoldShrinks DEF SideMarket
  <2>4. Successor(x, Sold(market[x], s, n))
    BY <2>2, <2>3 DEF Successor, Exitable
  <2> QED
    BY <2>2, <2>4, OneSuccessor
<1>3. CASE CancelBet(a, x)
  <2>1. PICK i \in Holding(agent[a], x) :
            LET yes == agent[a].slots[i].shares["yes"]
                no  == agent[a].slots[i].shares["no"]
                M   == SideMarket(market[x], "yes", yes)
            IN  /\ yes > 0 => Sellable(market[x], agent[a], i, "yes", yes)
                /\ market' = [market EXCEPT ![x] = SideMarket(M, "no", no)]
    BY <1>3 DEF CancelBet
  <2> DEFINE yes == agent[a].slots[i].shares["yes"]
             no  == agent[a].slots[i].shares["no"]
             M   == SideMarket(market[x], "yes", yes)
             N   == SideMarket(M, "no", no)
  <2>2. i \in Slots /\ Exitable(market[x])
    BY <1>3, <2>1, SlotChoices DEF CancelBet
  <2>3. agent[a].slots[i].shares \in [Sides -> Nat]
    BY <2>2, AgentFacts, SlotFacts
  <2>4. yes \in Nat /\ no \in Nat /\ "yes" \in Sides /\ "no" \in Sides
    BY <2>3 DEF Sides
  <2>5. market' = [market EXCEPT ![x] = N]
    BY <2>1
  <2>6. yes > 0 => Sellable(market[x], agent[a], i, "yes", yes)
    BY <2>1
  <2> HIDE DEF yes, no
  <2>7. M \in MarketType
    BY <1>0, <2>2, <2>4, <2>6, AgentFacts, SideOK DEF Exitable
  <2>8. /\ \A y \in Sides : M.shares[y] <= market[x].shares[y]
        /\ \A y \in Sides : N.shares[y] \in Int /\ N.shares[y] <= M.shares[y]
    <3>1. \A y \in Sides : M.shares[y] <= market[x].shares[y]
      BY <1>0, <2>4, SoldShrinks
    <3> HIDE DEF M
    <3>2. \A y \in Sides : N.shares[y] \in Int /\ N.shares[y] <= M.shares[y]
      BY <2>4, <2>7, SoldShrinks
    <3> QED
      BY <3>1, <3>2
  <2>9. \A y \in Sides : N.shares[y] <= market[x].shares[y]
    <3>1. \A y \in Sides : M.shares[y] \in Nat /\ market[x].shares[y] \in Nat
      BY <1>0, <2>7 DEF MarketType
    <3> HIDE DEF M, N
    <3> QED
      BY <3>1, <2>8
  <2> HIDE DEF N
  <2>10. Successor(x, N)
    BY <2>2, <2>9 DEF Successor, Exitable
  <2> QED
    BY <2>5, <2>10, OneSuccessor
<1>4. CASE SettlePosition(a, x)
  BY <1>4 DEF SettlePosition, Successor
<1> QED
  BY <1>1, <1>2, <1>3, <1>4 DEF Trade

LEMMA EverySuccessor ==
    ASSUME IInv, [Next]_vars, NEW m \in MarketIds
    PROVE  Successor(m, market'[m])
<1>1. CASE Environment
  BY <1>1 DEF Environment, Tick, Publish, FinishUndelegate, Successor
<1>2. CASE \E x \in MarketIds : MarketStep(x)
  BY <1>2, MarketStepSuccessor
<1>3. CASE \E a \in Agents : AgentStep(a)
  BY <1>3 DEF AgentStep, RegisterAgent, UpdatePolicy, Deposit, Withdraw, DelegateAgent,
              CommitAndUndelegateAgent, Successor
<1>4. CASE \E a \in Agents, x \in MarketIds : Trade(a, x)
  BY <1>4, TradeSuccessor
<1>5. CASE UNCHANGED vars
  BY <1>5 DEF vars, Successor
<1> QED
  BY <1>1, <1>2, <1>3, <1>4, <1>5 DEF Next

\* After close_ts nobody trades a market, and nothing changes a closed one.
THEOREM OutcomesAreFinal == Spec => ResolutionFinal
<1>1. IInv /\ [Next]_vars => [OutcomeKept]_vars
  <2> SUFFICES ASSUME IInv, [Next]_vars, NEW m \in MarketIds
               PROVE  /\ now >= market[m].closeTs =>
                            /\ market'[m].shares = market[m].shares
                            /\ market'[m].reserve = market[m].reserve
                            /\ market'[m].collateral = market[m].collateral
                      /\ market[m].status = "closed" => market'[m] = market[m]
    BY DEF OutcomeKept
  <2>1. Successor(m, market'[m])
    BY EverySuccessor
  <2>2. /\ market[m].status \in {"none", "pending"} =>
               /\ market[m].shares = NoShares /\ market[m].reserve = NoShares
               /\ market[m].collateral = 0
        /\ market[m].closeTs \in Nat /\ now \in Nat
    BY MarketFacts DEF BookInv, MarketType, IInv, TypeOK
  <2>3. now < market[m].closeTs => ~(now >= market[m].closeTs)
    BY <2>2
  <2> QED
    BY <2>1, <2>2, <2>3 DEF Successor
<1> QED
  BY <1>1, Invariance, PTL DEF Spec, ResolutionFinal

\* While a market is halted no side's shares grow.
THEOREM HaltLetsNobodyIn == Spec => HaltOnlyReduces
<1>1. IInv /\ [Next]_vars => [NobodyEnters]_vars
  <2> SUFFICES ASSUME IInv, [Next]_vars, NEW m \in MarketIds, NEW s \in Sides,
                      market[m].status = "halted"
               PROVE  market'[m].shares[s] <= market[m].shares[s]
    BY DEF NobodyEnters
  <2>1. Successor(m, market'[m])
    BY EverySuccessor
  <2>2. market[m].shares[s] \in Nat
    BY MarketFacts DEF MarketType
  <2> QED
    BY <2>1, <2>2 DEF Successor
<1> QED
  BY <1>1, Invariance, PTL DEF Spec, HaltOnlyReduces
=============================================================================
