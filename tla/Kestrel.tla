------------------------------ MODULE Kestrel -------------------------------
(***************************************************************************)
(* The on-chain program kestrel: every instruction is one action.          *)
(*                                                                         *)
(* A Solana transaction is atomic: an instruction whose checks fail leaves *)
(* no trace, so each error return is a conjunct that disables its action.  *)
(* Accounts live on the base chain, on the ephemeral rollup (ER), or are   *)
(* on their way back; a transaction can write only accounts that are all   *)
(* on the layer it runs on.                                                *)
(*                                                                         *)
(* Left out because nothing sets or reads it to any effect: the `settled`  *)
(* flag (it is only ever written FALSE, so each check of it passes),       *)
(* AgentStatus (always Active), bumps, and public keys other than the      *)
(* owner, which is the agent's identity here.                              *)
(***************************************************************************)
EXTENDS Cpmm, FiniteSets, FiniteSetsExt

CONSTANTS
    MarketIds,          \* the u32 ids markets are created with
    Agents,             \* owners; each has at most one profile
    MaxPositions,       \* MAX_POSITIONS, the length of a profile's slot array
    MinSeed,            \* MIN_SEED_LIQUIDITY
    MaxAge,             \* ORACLE_MAX_AGE_SECS
    FeeBps,             \* Config.fee_bps
    U64Max,             \* the largest u64: checked additions fail above it
    \* What the environment does (bounds of the instance, not of the code):
    MaxTime,            \* the clock stops here
    MaxSkew,            \* how far ahead of the clock a price may be stamped
    Prices,             \* prices the oracle may publish
    Windows,            \* <<open_ts, close_ts>> pairs create_market is asked for
    Seeds,              \* seed_liquidity values open_market is asked for
    Policies,           \* policies owners choose from
    Transfers,          \* amounts owners deposit and withdraw
    Bets,               \* amounts owners bet
    Funds,              \* USDC each owner's wallet starts with
    DelegableMarkets,   \* markets the admin may delegate
    DelegableAgents     \* profiles their owners may delegate

ASSUME MarketsAssumption == 0 \in MarketIds /\ MarketIds \subseteq Nat
\* Market ids are u32s, and an account is an account of the chain.
ASSUME FiniteAssumption == IsFiniteSet(MarketIds) /\ IsFiniteSet(Agents)
ASSUME SeedAssumption == MinSeed \in Nat \ {0} /\ Seeds \subseteq Nat
ASSUME SlotsAssumption == MaxPositions \in Nat \ {0}
ASSUME AmountAssumption ==
    /\ U64Max \in Nat /\ Funds \in Nat /\ FeeBps \in Nat
    /\ Transfers \subseteq Nat /\ Bets \subseteq Nat
ASSUME TimeAssumption ==
    /\ MaxTime \in Nat /\ MaxAge \in Nat /\ MaxSkew \in Nat
    /\ Windows \subseteq (0..MaxTime) \X (0..MaxTime)
ASSUME PriceAssumption == Prices # {} /\ Prices \subseteq Int

Sides == {"yes", "no"}
Other(s) == IF s = "yes" THEN "no" ELSE "yes"
NoShares == [s \in Sides |-> 0]
Slots == 1..MaxPositions
Locations == {"base", "er", "leaving"}

\* A policy's allowed_markets_root is zero ("any"), the configured oracle
\* feed, which every market carries ("feed"), or anything else ("other").
PolicyType ==
    [maxStake : Nat, maxOpen : Nat, allow : {"any", "feed", "other"}, paused : BOOLEAN]
ASSUME PolicyAssumption == Policies # {} /\ Policies \subseteq PolicyType

VARIABLES
    now,          \* Clock::unix_timestamp
    oracle,       \* the price account: price and publish time
    marketCount,  \* Config.market_count
    market,       \* the Market accounts ("none": not created)
    agent,        \* the AgentProfile accounts
    registered,   \* the owners whose profile exists
    mLoc, aLoc,   \* where each market and profile lives
    wallet,       \* each owner's token account
    vault,        \* the program's token account
    treasury      \* the treasury's token account

money == <<wallet, vault, treasury>>
places == <<mLoc, aLoc>>
vars == <<now, oracle, marketCount, market, agent, registered, places, money>>

-----------------------------------------------------------------------------
(* Account layouts.                                                        *)

Outcomes == Sides \cup {"unset"}

MarketType ==
    [status : {"none", "pending", "open", "halted", "closed"},
     openTs : Nat, closeTs : Nat, strike : Int, closePrice : Int,
     reserve : [Sides -> Nat], k : Nat, seed : Nat,
     shares : [Sides -> Nat], collateral : Nat, winner : Outcomes]

BlankMarket ==
    [status |-> "none", openTs |-> 0, closeTs |-> 0, strike |-> 0, closePrice |-> 0,
     reserve |-> NoShares, k |-> 0, seed |-> 0,
     shares |-> NoShares, collateral |-> 0, winner |-> "unset"]

SlotType == [mkt : MarketIds, shares : [Sides -> Nat], stake : Nat]

\* OpenPosition::default(): the market id of an empty slot is 0, a real id.
DefaultSlot == [mkt |-> 0, shares |-> NoShares, stake |-> 0]

IsEmpty(S) == S.shares = NoShares /\ S.stake = 0

ProfileType ==
    [deposited : Nat, balance : Nat, highWater : Nat, policy : PolicyType,
     slots : [Slots -> SlotType], len : 0..MaxPositions]

NewProfile(p) ==
    [deposited |-> 0, balance |-> 0, highWater |-> 0, policy |-> p,
     slots |-> [i \in Slots |-> DefaultSlot], len |-> 0]

\* What stands for the policy of a profile that does not exist yet.
AnyPolicy == CHOOSE p \in Policies : TRUE

TypeOK ==
    /\ now \in 0..MaxTime
    /\ oracle \in [price : Prices, ts : Nat]
    /\ marketCount \in Nat
    /\ market \in [MarketIds -> MarketType]
    /\ agent \in [Agents -> ProfileType]
    /\ registered \subseteq Agents
    /\ mLoc \in [MarketIds -> Locations]
    /\ aLoc \in [Agents -> Locations]
    /\ wallet \in [Agents -> Nat]
    /\ vault \in Nat
    /\ treasury \in Nat

\* The state init_config leaves: a vault with nothing in it and no markets.
Init ==
    /\ now = 0
    /\ oracle \in [price : Prices, ts : {0}]
    /\ marketCount = 0
    /\ market = [m \in MarketIds |-> BlankMarket]
    /\ agent = [a \in Agents |-> NewProfile(AnyPolicy)]
    /\ registered = {}
    /\ mLoc = [m \in MarketIds |-> "base"]
    /\ aLoc = [a \in Agents |-> "base"]
    /\ wallet = [a \in Agents |-> Funds]
    /\ vault = 0
    /\ treasury = 0

-----------------------------------------------------------------------------
(* The environment.                                                        *)

Tick ==
    /\ now < MaxTime
    /\ now' = now + 1
    /\ UNCHANGED <<oracle, marketCount, market, agent, registered, places, money>>

\* The oracle's publisher is not synchronised with the cluster's clock.
Publish(price, skew) ==
    /\ oracle' = [price |-> price, ts |-> now + skew]
    /\ UNCHANGED <<now, marketCount, market, agent, registered, places, money>>

\* price_no_older_than: a price from the future is refused like a stale one.
OracleFresh == now - oracle.ts \in 0..MaxAge

-----------------------------------------------------------------------------
(* Layers.                                                                 *)

Writable(loc) == loc \in {"base", "er"}

\* A transaction that writes both accounts needs them on its own layer.
Together(a, m) == Writable(mLoc[m]) /\ aLoc[a] = mLoc[m]

DelegateMarket(m) ==
    /\ m \in DelegableMarkets
    /\ market[m].status # "none" /\ mLoc[m] = "base"
    /\ mLoc' = [mLoc EXCEPT ![m] = "er"]
    /\ UNCHANGED <<now, oracle, marketCount, market, agent, registered, aLoc, money>>

DelegateAgent(a) ==
    /\ a \in DelegableAgents
    /\ a \in registered /\ aLoc[a] = "base"
    /\ aLoc' = [aLoc EXCEPT ![a] = "er"]
    /\ UNCHANGED <<now, oracle, marketCount, market, agent, registered, mLoc, money>>

\* A market may leave the rollup with its outcome only.  The slip lets it go as
\* soon as it trades.
MayLeave_Traded(M) == M.status # "pending"
MayLeave(M) == M.status = "closed"

CommitAndUndelegateMarket(m) ==
    /\ mLoc[m] = "er" /\ MayLeave(market[m])
    /\ mLoc' = [mLoc EXCEPT ![m] = "leaving"]
    /\ UNCHANGED <<now, oracle, marketCount, market, agent, registered, aLoc, money>>

CommitAndUndelegateAgent(a) ==
    /\ aLoc[a] = "er"
    /\ aLoc' = [aLoc EXCEPT ![a] = "leaving"]
    /\ UNCHANGED <<now, oracle, marketCount, market, agent, registered, mLoc, money>>

\* The rollup's validator hands an account back some time after the commit.
FinishUndelegate ==
    /\ \/ \E m \in MarketIds : /\ mLoc[m] = "leaving"
                               /\ mLoc' = [mLoc EXCEPT ![m] = "base"]
                               /\ UNCHANGED aLoc
       \/ \E a \in Agents : /\ aLoc[a] = "leaving"
                            /\ aLoc' = [aLoc EXCEPT ![a] = "base"]
                            /\ UNCHANGED mLoc
    /\ UNCHANGED <<now, oracle, marketCount, market, agent, registered, money>>

-----------------------------------------------------------------------------
(* A market's life: create, open, halt, resume, close (the admin's calls). *)

CreateMarket(m, openTs, closeTs) ==
    /\ market[m].status = "none"
    /\ closeTs > openTs /\ closeTs > now
    /\ market' = [market EXCEPT ![m] =
           [BlankMarket EXCEPT !.status = "pending",
                               !.openTs = openTs, !.closeTs = closeTs]]
    /\ marketCount' = marketCount + 1
    /\ UNCHANGED <<now, oracle, agent, registered, places, money>>

\* The book of a market opened at this price: the seed is a number in the
\* reserves, no USDC moves.
Opened(M, price, seed) ==
    [M EXCEPT !.status = "open", !.strike = price, !.seed = seed,
              !.reserve = [s \in Sides |-> seed], !.k = seed * seed]

OpenMarket(m, seed) ==
    /\ Writable(mLoc[m])
    /\ seed >= MinSeed
    /\ market[m].status = "pending"
    /\ market[m].openTs <= now /\ now < market[m].closeTs
    /\ OracleFresh
    /\ market' = [market EXCEPT ![m] = Opened(@, oracle.price, seed)]
    /\ UNCHANGED <<now, oracle, marketCount, agent, registered, places, money>>

HaltMarket(m) ==
    /\ Writable(mLoc[m])
    /\ market[m].status = "open"
    /\ market' = [market EXCEPT ![m].status = "halted"]
    /\ UNCHANGED <<now, oracle, marketCount, agent, registered, places, money>>

ResumeMarket(m) ==
    /\ Writable(mLoc[m])
    /\ market[m].status = "halted"
    /\ now < market[m].closeTs
    /\ market' = [market EXCEPT ![m].status = "open"]
    /\ UNCHANGED <<now, oracle, marketCount, agent, registered, places, money>>

\* Without the status check a second close_market would read a later price.
Closable_Again(M) == M.status \in {"open", "halted", "closed"} /\ now >= M.closeTs
Closable(M) == M.status \in {"open", "halted"} /\ now >= M.closeTs

Closed(M, price) ==
    [M EXCEPT !.status = "closed", !.closePrice = price,
              !.winner = IF price >= M.strike THEN "yes" ELSE "no"]

CloseMarket(m) ==
    /\ Writable(mLoc[m])
    /\ Closable(market[m])
    /\ OracleFresh
    /\ market' = [market EXCEPT ![m] = Closed(@, oracle.price)]
    /\ UNCHANGED <<now, oracle, marketCount, agent, registered, places, money>>

-----------------------------------------------------------------------------
(* Profiles and custody (the owner's calls on the base chain).             *)

RegisterAgent(a, p) ==
    /\ a \notin registered
    /\ registered' = registered \cup {a}
    /\ agent' = [agent EXCEPT ![a] = NewProfile(p)]
    /\ UNCHANGED <<now, oracle, marketCount, market, places, money>>

UpdatePolicy(a, p) ==
    /\ a \in registered /\ Writable(aLoc[a])
    /\ agent' = [agent EXCEPT ![a].policy = p]
    /\ UNCHANGED <<now, oracle, marketCount, market, registered, places, money>>

\* deposit and withdraw move tokens only while the program owns the profile.
InCustody_Anywhere(a) == a \in registered
InCustody(a) == a \in registered /\ aLoc[a] = "base"

\* The profiles after a base-chain instruction wrote P over the base copy of
\* a's.  While the live copy is on the rollup such a write is lost: the commit
\* that brings the profile back overwrites it.
WrittenOnBase(a, P) == IF aLoc[a] = "base" THEN [agent EXCEPT ![a] = P] ELSE agent

Deposit(a, amount) ==
    /\ amount > 0 /\ amount <= wallet[a]
    /\ InCustody(a)
    /\ agent[a].balance + amount <= U64Max
    /\ agent[a].deposited + amount <= U64Max
    /\ agent[a].highWater + amount <= U64Max
    /\ wallet' = [wallet EXCEPT ![a] = @ - amount]
    /\ vault' = vault + amount
    /\ agent' = WrittenOnBase(a, [agent[a] EXCEPT !.balance = @ + amount,
                                                  !.deposited = @ + amount,
                                                  !.highWater = @ + amount])
    /\ UNCHANGED <<now, oracle, marketCount, market, registered, places, treasury>>

\* An unchecked subtraction where the code saturates.
SatSub_Unchecked(x, y) == x - y
SatSub(x, y) == IF x >= y THEN x - y ELSE 0
AtMost(x, y) == IF x <= y THEN x ELSE y

\* The part of a withdrawal that repays deposits is free of fee.  The fee is
\* computed in u128 and cast to u64.
PrincipalOf(P, amount) == AtMost(amount, P.deposited)
FeeOn_Gross(P, amount) == ((amount * FeeBps) \div 10000) % (U64Max + 1)
FeeOn(P, amount) ==
    (((amount - PrincipalOf(P, amount)) * FeeBps) \div 10000) % (U64Max + 1)

\* Both transfers come out of the vault and fail if it is short.  A fee above
\* the amount (fee_bps over 10000, which init_config accepts) underflows.
Withdraw(a, amount) ==
    LET fee == FeeOn(agent[a], amount)
    IN  /\ amount > 0
        /\ InCustody(a)
        /\ amount <= agent[a].balance
        /\ fee <= amount /\ amount <= vault
        /\ vault' = vault - amount
        /\ wallet' = [wallet EXCEPT ![a] = @ + (amount - fee)]
        /\ treasury' = treasury + fee
        /\ agent' = WrittenOnBase(a,
               [agent[a] EXCEPT !.balance = @ - amount,
                                !.deposited = @ - PrincipalOf(agent[a], amount),
                                !.highWater = SatSub(@, amount)])
        /\ UNCHANGED <<now, oracle, marketCount, market, registered, places>>

-----------------------------------------------------------------------------
(* The slot array of a profile.                                            *)

\* find_position: the slot an agent's position in a market is in, if any.
Holding(P, m) == {i \in Slots : P.slots[i].mkt = m /\ ~IsEmpty(P.slots[i])}

\* A shortcut that takes the first slot that is empty or the market's.
Candidates_OnePass(P, m) == {i \in Slots : P.slots[i].mkt = m \/ IsEmpty(P.slots[i])}

\* find_or_alloc_slot takes the first of these: the market's own slot, or else
\* an empty one.
Candidates(P, m) ==
    IF Holding(P, m) # {} THEN Holding(P, m) ELSE {i \in Slots : IsEmpty(P.slots[i])}

\* positions_len after slot i was written: one past its 0-based index, if that
\* is more.  The slip counts the index itself.
LenAfter_Index(len, i) == IF len < i - 1 THEN i - 1 ELSE len
LenAfter(len, i) == IF len < i THEN i ELSE len

OpenCount(P) == Cardinality({i \in Slots : ~IsEmpty(P.slots[i])})

-----------------------------------------------------------------------------
(* place_bet.                                                              *)

PolicyAdmits(p, amount) ==
    /\ ~p.paused
    /\ p.allow \in {"any", "feed"}
    /\ amount <= p.maxStake

\* max_open_positions gates a slot that holds no shares, new or left over.
UnderCap_Off(P, i) == TRUE
UnderCap(P, i) == P.slots[i].shares = NoShares => OpenCount(P) < P.policy.maxOpen

CanBet_WhileHalted(M) == M.status \in {"open", "halted"} /\ now < M.closeTs
CanBet(M) == M.status = "open" /\ now < M.closeTs

BoughtShares(M, s, amount) == SharesOut(M.k, M.reserve[s], M.reserve[Other(s)], amount)

\* The opposite reserve grows by the stake and the side's own one gives the
\* shares; k stays.
Bought(M, s, amount) ==
    LET out == BoughtShares(M, s, amount)
    IN  [M EXCEPT !.reserve = [x \in Sides |-> IF x = s THEN @[x] - out ELSE @[x] + amount],
                  !.shares[s] = @ + out,
                  !.collateral = @ + amount]

PlaceBet(a, m, s, amount) ==
    LET out == BoughtShares(market[m], s, amount)
        P == agent[a]
    IN  /\ a \in registered /\ Together(a, m)
        /\ amount > 0
        /\ OracleFresh
        /\ CanBet(market[m])
        /\ PolicyAdmits(P.policy, amount)
        /\ amount <= P.balance
        /\ out > 0 /\ out <= U64Max
        /\ market[m].collateral + amount <= U64Max
        /\ Candidates(P, m) # {}
        /\ LET i == Min(Candidates(P, m))
               S == P.slots[i]
           IN  /\ UnderCap(P, i)
               /\ S.shares[s] + out <= U64Max /\ S.stake + amount <= U64Max
               /\ agent' = [agent EXCEPT
                      ![a].slots[i] = [mkt |-> m, shares |-> [S.shares EXCEPT ![s] = @ + out],
                                       stake |-> S.stake + amount],
                      ![a].balance = @ - amount,
                      ![a].len = LenAfter(@, i)]
        /\ market' = [market EXCEPT ![m] = Bought(@, s, amount)]
        /\ UNCHANGED <<now, oracle, marketCount, registered, places, money>>

-----------------------------------------------------------------------------
(* close_position and cancel_bet.  Both sell shares back to the book.      *)

Exitable(M) == M.status \in {"open", "halted"} /\ now < M.closeTs

Proceeds(M, s, n) == UsdcOut(M.k, M.reserve[s], M.reserve[Other(s)], n)

\* Selling n shares of a side passes every check of the handler: the solvency
\* check is the last conjunct but one.
Sellable(M, P, i, s, n) ==
    /\ n <= P.slots[i].shares[s]
    /\ Proceeds(M, s, n) >= 0
    /\ n <= M.shares[s]
    /\ Proceeds(M, s, n) <= M.collateral
    /\ P.balance + Proceeds(M, s, n) <= U64Max

\* A sale that forgets the market's share total.
Sold_KeepsTotal(M, s, n) ==
    LET out == Proceeds(M, s, n)
    IN  [M EXCEPT !.reserve = [x \in Sides |-> IF x = s THEN @[x] + n ELSE @[x] - out],
                  !.collateral = @ - out]

Sold(M, s, n) ==
    LET out == Proceeds(M, s, n)
    IN  [M EXCEPT !.reserve = [x \in Sides |-> IF x = s THEN @[x] + n ELSE @[x] - out],
                  !.shares[s] = @ - n,
                  !.collateral = @ - out]

\* The seller's slot.  The stake falls by the proceeds and not below zero.
Reduced_KeepsShares(S, s, n, out) == [S EXCEPT !.stake = SatSub(@, out)]
Reduced(S, s, n, out) == [S EXCEPT !.shares[s] = @ - n, !.stake = SatSub(@, out)]

Seller(M, P, i, s, n) ==
    LET out == Proceeds(M, s, n)
    IN  [P EXCEPT !.slots[i] = Reduced(@, s, n, out), !.balance = @ + out]

ClosePosition(a, m, s, n) ==
    /\ a \in registered /\ Together(a, m)
    /\ n > 0
    /\ Exitable(market[m])
    /\ \E i \in Holding(agent[a], m) :
           /\ i = Min(Holding(agent[a], m))
           /\ Sellable(market[m], agent[a], i, s, n)
           /\ market' = [market EXCEPT ![m] = Sold(@, s, n)]
           /\ agent' = [agent EXCEPT ![a] = Seller(market[m], @, i, s, n)]
    /\ UNCHANGED <<now, oracle, marketCount, registered, places, money>>

\* close_side: nothing happens to a side on which no share is held.
SideMarket(M, s, n) == IF n = 0 THEN M ELSE Sold(M, s, n)
SideSeller(M, P, i, s, n) == IF n = 0 THEN P ELSE Seller(M, P, i, s, n)

\* The YES shares go first and the NO shares are priced on the book that
\* leaves; if either sale fails the whole call does.
CancelBet(a, m) ==
    /\ a \in registered /\ Together(a, m)
    /\ Exitable(market[m])
    /\ \E i \in Holding(agent[a], m) :
           LET yes == agent[a].slots[i].shares["yes"]
               no  == agent[a].slots[i].shares["no"]
               M   == SideMarket(market[m], "yes", yes)
               P   == SideSeller(market[m], agent[a], i, "yes", yes)
           IN  /\ i = Min(Holding(agent[a], m))
               /\ yes > 0 => Sellable(market[m], agent[a], i, "yes", yes)
               /\ no > 0 => Sellable(M, P, i, "no", no)
               /\ market' = [market EXCEPT ![m] = SideMarket(M, "no", no)]
               /\ agent' = [agent EXCEPT ![a] = SideSeller(M, P, i, "no", no)]
    /\ UNCHANGED <<now, oracle, marketCount, registered, places, money>>

-----------------------------------------------------------------------------
(* settle_position and settle_positions.  Anyone may call them.            *)

Budget(M) == M.seed + M.collateral

\* One USDC unit for each share of the winning side.
PayoutOf(M, P, i) == P.slots[i].shares[M.winner]

\* The position of a market a profile settles, if it has one.
SettlePays(M, P, i) ==
    /\ PayoutOf(M, P, i) <= Budget(M)
    /\ P.balance + PayoutOf(M, P, i) <= U64Max

\* A payment that leaves the position in its slot.
Paid_KeepsSlot(M, P, i) == [P EXCEPT !.balance = @ + PayoutOf(M, P, i)]

Paid(M, P, i) ==
    [P EXCEPT !.balance = @ + PayoutOf(M, P, i), !.slots[i] = DefaultSlot]

SettlePosition(a, m) ==
    /\ a \in registered /\ Together(a, m)
    /\ market[m].status = "closed"
    /\ \E i \in Holding(agent[a], m) :
           /\ i = Min(Holding(agent[a], m))
           /\ SettlePays(market[m], agent[a], i)
           /\ agent' = [agent EXCEPT ![a] = Paid(market[m], @, i)]
    /\ UNCHANGED <<now, oracle, marketCount, market, registered, places, money>>

\* A batch of profiles: those without a position are skipped, and one that
\* cannot be paid, or is on the other layer, fails the batch.
SettlePositions(m, batch) ==
    LET Owed == {a \in batch : Holding(agent[a], m) # {}}
        SlotOf(a) == Min(Holding(agent[a], m))
    IN  /\ batch \subseteq registered /\ \A a \in batch : Together(a, m)
        /\ market[m].status = "closed"
        /\ \A a \in Owed : SettlePays(market[m], agent[a], SlotOf(a))
        /\ agent' = [a \in Agents |-> IF a \in Owed
                                      THEN Paid(market[m], agent[a], SlotOf(a))
                                      ELSE agent[a]]
        /\ UNCHANGED <<now, oracle, marketCount, market, registered, places, money>>

-----------------------------------------------------------------------------

MarketStep(m) ==
    \/ \E w \in Windows : CreateMarket(m, w[1], w[2])
    \/ DelegateMarket(m)
    \/ \E seed \in Seeds : OpenMarket(m, seed)
    \/ HaltMarket(m)
    \/ ResumeMarket(m)
    \/ CloseMarket(m)
    \/ CommitAndUndelegateMarket(m)
    \/ \E batch \in SUBSET Agents : SettlePositions(m, batch)

AgentStep(a) ==
    \/ \E p \in Policies : RegisterAgent(a, p) \/ UpdatePolicy(a, p)
    \/ \E amount \in Transfers : Deposit(a, amount) \/ Withdraw(a, amount)
    \/ DelegateAgent(a)
    \/ CommitAndUndelegateAgent(a)

Trade(a, m) ==
    \/ \E s \in Sides, amount \in Bets : PlaceBet(a, m, s, amount)
    \/ \E s \in Sides, i \in Slots : \E n \in 1..agent[a].slots[i].shares[s] :
           ClosePosition(a, m, s, n)
    \/ CancelBet(a, m)
    \/ SettlePosition(a, m)

Environment ==
    \/ Tick
    \/ \E price \in Prices, skew \in 0..MaxSkew : Publish(price, skew)
    \/ FinishUndelegate

Next ==
    \/ Environment
    \/ \E m \in MarketIds : MarketStep(m)
    \/ \E a \in Agents : AgentStep(a) \/ \E m \in MarketIds : Trade(a, m)

Spec == Init /\ [][Next]_vars

-----------------------------------------------------------------------------
(* What must hold.                                                         *)

Sum(f) == SumFunction(f)

Traded(M) == M.status \in {"open", "halted", "closed"}

\* A profile's shares in a market, as find_position finds them.
PositionOf(a, m) ==
    IF Holding(agent[a], m) = {} THEN NoShares
    ELSE agent[a].slots[Min(Holding(agent[a], m))].shares

\* The shares of a side that the profiles hold in a market.
HeldShares(m, s) == Sum([a \in Agents |-> PositionOf(a, m)[s]])

\* Every share sold, on both sides together, is covered by the stakes the
\* market holds, though its seed is backed by nothing (place_bet.rs,
\* cancel_bet.rs, close_position.rs: no sequence of rounded trades makes the
\* shares outgrow total_collateral).
Solvent ==
    \A m \in MarketIds : Traded(market[m]) =>
        market[m].shares["yes"] + market[m].shares["no"] <= market[m].collateral

\* The market's share totals are those of the positions, until settlement
\* starts to clear positions (the totals are then the ceiling of what is left).
BookMatchesPositions ==
    \A m \in MarketIds, s \in Sides :
        IF market[m].status = "closed"
        THEN HeldShares(m, s) <= market[m].shares[s]
        ELSE HeldShares(m, s) = market[m].shares[s]

\* What a market may still have to pay.
Liability(m) ==
    CASE market[m].status = "closed" -> HeldShares(m, market[m].winner)
      [] market[m].status \in {"open", "halted"} ->
             Max({HeldShares(m, s) : s \in Sides})
      [] OTHER -> 0

\* The vault can pay every free balance and, on top of it, every open market
\* whichever side wins: no withdrawal can find it short.
VaultCoversClaims ==
    vault >= Sum([a \in Agents |-> agent[a].balance])
             + Sum([m \in MarketIds |-> Liability(m)])

\* While a market trades, no sale of any of its shares is worth more than the
\* stakes it holds.
SalesCovered ==
    \A m \in MarketIds : market[m].status \in {"open", "halted"} =>
        \A s \in Sides : \A n \in 1..market[m].shares[s] :
            Proceeds(market[m], s, n) <= market[m].collateral

\* The checks of close_position, cancel_bet and settle_position that would
\* report Insolvent, or fail to take sold shares off the market's total, are
\* never the reason a trader is refused, whoever traded before and however
\* the prices were rounded.
SolvencyChecksNeverFire ==
    /\ SalesCovered
    /\ \A a \in registered, m \in MarketIds : \A i \in Holding(agent[a], m) :
           IF market[m].status = "closed"
           THEN PayoutOf(market[m], agent[a], i) <= Budget(market[m])
           ELSE \A s \in Sides : agent[a].slots[i].shares[s] <= market[m].shares[s]

\* A profile never splits its position in a market over two slots, of which
\* find_position would see, sell and settle only the first.
OneSlotPerMarket ==
    \A a \in Agents, m \in MarketIds : Cardinality(Holding(agent[a], m)) <= 1

\* positions_len covers every position: the REST view of a profile shows only
\* that prefix of the slots.
LenCoversPositions ==
    \A a \in Agents : \A i \in Slots :
        ~IsEmpty(agent[a].slots[i]) => i <= agent[a].len

\* All fees ever taken are at most fee_bps of what withdrawals returned over
\* and above deposits: no deposit is taxed, in whatever order an owner
\* deposits, wins, loses and withdraws.
FeesComeFromProfit ==
    LET returned == Sum([a \in Agents |-> wallet[a] + agent[a].deposited - Funds])
    IN  treasury * 10000 <= FeeBps * (returned + treasury)

\* A step that leaves a profile with more positions leaves it within its cap.
CapKept ==
    \A a \in Agents :
        OpenCount(agent'[a]) > OpenCount(agent[a]) =>
            OpenCount(agent'[a]) <= agent[a].policy.maxOpen

\* Opening a position never takes a profile over its policy's cap, even when
\* emptied slots are left behind or the cap was lowered in between.
CapRespected == [][CapKept]_vars

\* A step after a market's close_ts leaves its book alone, and a step after it
\* is closed leaves all of it alone.
OutcomeKept ==
    \A m \in MarketIds :
        /\ now >= market[m].closeTs =>
               /\ market'[m].shares = market[m].shares
               /\ market'[m].reserve = market[m].reserve
               /\ market'[m].collateral = market[m].collateral
        /\ market[m].status = "closed" => market'[m] = market[m]

\* From close_ts on no share, reserve or stake of a market moves, and once it
\* is closed its strike, closing price and winner are final: everyone is
\* settled against the same outcome and the same budget.
ResolutionFinal == [][OutcomeKept]_vars

\* A step of a halted market grows neither side.
NobodyEnters ==
    \A m \in MarketIds, s \in Sides :
        market[m].status = "halted" => market'[m].shares[s] <= market[m].shares[s]

\* A halt lets traders out and nobody in: no side's shares grow.
HaltOnlyReduces == [][NobodyEnters]_vars

\* What the comment of settle_position says of cancel_bet: it leaves the
\* position's slot with zeros, free for later markets.
CancelLeavesZeros ==
    [][\A a \in Agents, m \in MarketIds :
          CancelBet(a, m) => Holding(agent'[a], m) = {}]_vars

=============================================================================
