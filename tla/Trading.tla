------------------------------ MODULE Trading -------------------------------
(***************************************************************************)
(* The trading roles over a few market windows: the trader with its        *)
(* scripted policy violations, the hedger (risk_lp) and market-ops, each a *)
(* process that runs one tick after another.  What a tick reads is read    *)
(* when it begins; each transaction it sends is an action of its own, so   *)
(* time, the scheduler and the other roles move between any two of them.   *)
(*                                                                         *)
(* A market's book is left out: whether it is balanced is a choice.        *)
(***************************************************************************)
EXTENDS Calls, Integers, FiniteSets, FiniteSetsExt

CONSTANTS
    Crews,                      \* which roles run: a set of sets of roles
    LastId, Window,             \* markets 0..LastId, in back-to-back windows
    Scan,                       \* how many of the newest ids a role looks at: 8
    BaseSize, HedgeSize,        \* what the trader and the hedger bet
    Registered, Template,       \* stake cap the trader has, and defaultPolicyFor's
    OverCapAt, WrongListAt,     \* OVER_CAP_AT_SEC, WRONG_ALLOWLIST_AT_SEC
    FlattenFrom, FlattenTo,     \* seconds to close between which the trader cancels
    NearClose,                  \* CANCEL_NEAR_CLOSE_SECS
    HedgesPerMarket,            \* HEDGES_PER_MARKET
    ForceEvery, ForceSecs,      \* FORCE_HALT_EVERY, FORCE_HALT_SECS
    Slots,                      \* max_open_positions, at most MAX_POSITIONS
    \* Bounds of the instance, not of the code:
    MaxTime                     \* the clock stops here

Roles == {"trader", "risk_lp", "market_ops"}
Bettors == Roles \ {"market_ops"}
Markets == 0..LastId

ASSUME CrewsAssumption == Crews \subseteq SUBSET Roles
ASSUME WindowsAssumption ==
    LastId \in Nat /\ Window \in Nat \ {0} /\ Scan \in Nat \ {0} /\ MaxTime \in Nat
ASSUME StakesAssumption ==
    {BaseSize, HedgeSize, Registered, Template, Slots, HedgesPerMarket} \subseteq Nat
ASSUME TimersAssumption ==
    {OverCapAt, WrongListAt, FlattenFrom, FlattenTo, NearClose, ForceSecs} \subseteq Nat
ASSUME ForcedHaltsAssumption == ForceEvery \in Nat \ {0}

VARIABLES
    crew,               \* the roles that run
    clock,
    oracle,             \* the price: "fresh", past the roles' limit, or past the chain's
    status,             \* of each market; "gone": committed back to the base chain
    position,           \* of each bettor in each market; "residue": a stake with no share
    policy,             \* the trader's allowlist and stake cap
    pc, view, todo,     \* per role: the call it makes next, what its tick read, and
                        \* the markets its tick still has to work through
    demo,               \* the trader's memo of each market
    hedge,              \* the hedger's
    force, seen,        \* market-ops: forceHaltActive, seenMarkets
    honestBets, hedges, \* bets that were executed, per market
    demoTraded,         \* a scripted violation went through
    promised            \* until when a market is to be halted by force

chain == <<oracle, status, position, policy>>
memos == <<demo, hedge, force, seen>>
ghosts == <<honestBets, hedges, demoTraded, promised>>
vars == <<crew, clock, chain, pc, view, todo, memos, ghosts, spare>>

NoView == [market |-> 0, now |-> 0, cap |-> 0, known |-> TRUE]
NoMemo == [honestPlaced |-> FALSE, overCapAttempted |-> FALSE,
           wrongAllowlistAttempted |-> FALSE, flattenedAfterDemo |-> FALSE]

TypeOK ==
    /\ crew \in Crews /\ clock \in 0..MaxTime /\ spare \in 0..Disturbances
    /\ oracle \in {"fresh", "old", "expired"}
    /\ status \in [Markets -> {"pending", "open", "halted", "closed", "gone"}]
    /\ position \in [Bettors -> [Markets -> {"none", "shares", "residue"}]]
    /\ policy \in [allow : {"feed", "wrong"}, cap : {Registered, Template}]
    /\ pc \in [Roles -> {"idle", "flatten", "honest", "overCap", "tighten", "wrongBet",
                         "restore", "cancel", "decide", "hedge", "flush", "again",
                         "close", "look", "halt", "resume"}]
    /\ view \in [Roles -> [market : Markets, now : 0..MaxTime, cap : Nat, known : BOOLEAN]]
    /\ todo \in [Roles -> SUBSET Markets]
    /\ demo \in [Markets -> [honestPlaced : BOOLEAN, overCapAttempted : BOOLEAN,
                            wrongAllowlistAttempted : BOOLEAN, flattenedAfterDemo : BOOLEAN]]
    /\ hedge \in [Markets -> [hedgesPlaced : 0..HedgesPerMarket, cancelled : BOOLEAN]]
    /\ force \in SUBSET [market : Markets, until : Nat] /\ Cardinality(force) <= 1
    /\ seen \subseteq Markets
    /\ honestBets \in [Markets -> Nat] /\ hedges \in [Markets -> Nat]
    /\ demoTraded \in BOOLEAN /\ promised \in [Markets -> Nat]

Init ==
    /\ crew \in Crews /\ clock = 0 /\ spare = Disturbances
    /\ oracle = "fresh" /\ status = [m \in Markets |-> "pending"]
    /\ position = [a \in Bettors |-> [m \in Markets |-> "none"]]
    /\ policy = [allow |-> "feed", cap |-> Registered]
    /\ pc = [r \in Roles |-> "idle"] /\ view = [r \in Roles |-> NoView]
    /\ todo = [r \in Roles |-> {}]
    /\ demo = [m \in Markets |-> NoMemo]
    /\ hedge = [m \in Markets |-> [hedgesPlaced |-> 0, cancelled |-> FALSE]]
    /\ force = {} /\ seen = {}
    /\ honestBets = [m \in Markets |-> 0] /\ hedges = [m \in Markets |-> 0]
    /\ demoTraded = FALSE /\ promised = [m \in Markets |-> 0]

-----------------------------------------------------------------------------
(* The chain as the roles meet it.                                         *)

OpenTs(m) == m * Window
CloseTs(m) == OpenTs(m) + Window

\* The scans of the roles start at the newest id and stop Scan ids later.
Newest == {m \in Markets : m > LastId - Scan}
NewestWith(s) ==
    LET found == {m \in Newest : status[m] = s} IN IF found = {} THEN {} ELSE {Max(found)}
FindActiveOpenMarket == NewestWith("open")
FindHaltedMarket == NewestWith("halted")

IsLive(m) == status[m] \in {"open", "halted"}
Occupied(a) == {m \in Markets : position[a][m] # "none"}

\* The checks of place_bet; market_id's slot is found before an empty one.
Tradable(m) == status[m] = "open" /\ clock < CloseTs(m) /\ oracle # "expired"
HasSlot(a, m) == position[a][m] = "shares" \/ Cardinality(Occupied(a)) < Slots
Admits(amount) == policy.allow = "feed" /\ amount <= policy.cap
TraderMayBet(m, amount) == Tradable(m) /\ HasSlot("trader", m) /\ Admits(amount)
HedgerMayBet(m) == Tradable(m) /\ HasSlot("risk_lp", m)

\* Those of cancel_bet, close_position and settle_position.
MayLeave(a, m) == IsLive(m) /\ clock < CloseTs(m) /\ position[a][m] # "none"
MaySettle(a, m) == status[m] = "closed" /\ position[a][m] # "none"

MayHalt(m) == status[m] = "open"
MayResume(m) == status[m] = "halted" /\ clock < CloseTs(m)
MayClose(m) == IsLive(m) /\ clock >= CloseTs(m) /\ oracle # "expired"

-----------------------------------------------------------------------------
(* The course of a tick, and the calls in it.                              *)

\* The role goes on to its next call, or ends its tick.
Goto(r, l) ==
    /\ pc' = [pc EXCEPT ![r] = l]
    /\ view' = IF l = "idle" THEN [view EXCEPT ![r] = NoView] ELSE view
GotoAfter(r, o, l) == IF Returned(o) THEN Goto(r, l) ELSE UNCHANGED <<pc, view>>

At(r, l) == r \in crew /\ pc[r] = l

Bets(a, m, o) ==
    position' = IF o.done THEN [position EXCEPT ![a][m] = "shares"] ELSE position

\* cancel_bet leaves the part of the stake the sale did not bring back, for good.
Leaves(a, m, o) ==
    \E left \in IF o.done /\ position[a][m] = "shares" THEN {"none", "residue"}
                                                     ELSE {position[a][m]} :
        position' = [position EXCEPT ![a][m] = left]

-----------------------------------------------------------------------------
(* flattenPositionsOutsideCurrentMarket.                                   *)

Elsewhere(a, m) == Occupied(a) \ {m}

\* One position: settled if its market is closed, else given up by cancel_bet or,
\* if that fails, close_position while the market still runs, by the time the
\* tick began at.  A settle_position of a market that has left the rollup fails.
FlattenOne(a, m, after) ==
    LET settle == status[m] = "closed"
        sell == IsLive(m) /\ view[a].now < CloseTs(m)
    IN  /\ m \in todo[a]
        /\ \E o \in Outcomes :
              /\ IF settle
                 THEN /\ Comes(o, MaySettle(a, m))
                      /\ position' = IF o.done THEN [position EXCEPT ![a][m] = "none"]
                                               ELSE position
                 ELSE IF sell THEN Comes(o, MayLeave(a, m)) /\ Leaves(a, m, o)
                 ELSE o = [done |-> FALSE, answer |-> "error"] /\ UNCHANGED <<position, spare>>
              /\ todo' = IF Returned(o) THEN [todo EXCEPT ![a] = @ \ {m}] ELSE todo
              /\ IF todo'[a] = {} THEN Goto(a, after) ELSE UNCHANGED <<pc, view>>
        /\ UNCHANGED <<crew, clock, oracle, status, policy, memos, ghosts>>

Begin(a, v, stage, after) ==
    /\ view' = [view EXCEPT ![a] = v]
    /\ todo' = [todo EXCEPT ![a] = Elsewhere(a, v.market)]
    /\ pc' = [pc EXCEPT ![a] = IF todo'[a] = {} THEN after ELSE stage]

-----------------------------------------------------------------------------
(* The trader's tick.                                                      *)

\* readOnchainMaxStake: null if it cannot be read, and the template stands in.
ReadCap(cap) == IF cap = policy.cap THEN UNCHANGED spare ELSE Fault

Due(m, secs, now) == now >= OpenTs(m) + secs

\* The scripted steps in the order of the source: the next one that is due.
DemoAfter(memo, v) ==
    CASE ~memo.honestPlaced -> "idle"
      [] ~memo.overCapAttempted /\ Due(v.market, OverCapAt, v.now) -> "overCap"
      [] ~memo.wrongAllowlistAttempted /\ Due(v.market, WrongListAt, v.now) -> "tighten"
      [] /\ memo.overCapAttempted /\ memo.wrongAllowlistAttempted
         /\ ~memo.flattenedAfterDemo
         /\ CloseTs(v.market) - v.now > FlattenFrom
         /\ CloseTs(v.market) - v.now <= FlattenTo -> "cancel"
      [] OTHER -> "idle"

FirstDemo(memo, v) == IF memo.honestPlaced THEN DemoAfter(memo, v) ELSE "honest"

TraderTick ==
    /\ At("trader", "idle")
    /\ \E m \in FindActiveOpenMarket, cap \in {policy.cap, Template} :
          LET v == [market |-> m, now |-> clock, cap |-> cap, known |-> cap = policy.cap]
              l == FirstDemo(demo[m], v)
          IN  /\ ReadCap(cap)
              /\ IF l = "idle" /\ Elsewhere("trader", m) = {}
                 THEN UNCHANGED <<pc, view, todo>> ELSE Begin("trader", v, "flatten", l)
    /\ UNCHANGED <<crew, clock, chain, memos, ghosts>>

V == view["trader"]
Demo == demo[V.market]
TraderFlattens ==
    At("trader", "flatten") /\ \E m \in Markets : FlattenOne("trader", m, FirstDemo(Demo, V))

\* honestPlaced is set only when the signature came back.  The slip sets it anyway.
HonestPlaced_Anyway(o) == TRUE
HonestPlaced(o) == Answered(o)

PlaceHonestBet ==
    /\ At("trader", "honest")
    /\ \E o \in Outcomes :
          /\ Comes(o, TraderMayBet(V.market, BaseSize))
          /\ Bets("trader", V.market, o)
          /\ honestBets' = [honestBets EXCEPT ![V.market] = @ + IF o.done THEN 1 ELSE 0]
          /\ demo' = [demo EXCEPT ![V.market].honestPlaced =
                         IF Returned(o) THEN HonestPlaced(o) ELSE @]
          /\ GotoAfter("trader", o, DemoAfter(demo'[V.market], V))
    /\ UNCHANGED <<crew, clock, oracle, status, policy, todo, hedge, force, seen, hedges,
                   demoTraded, promised>>

\* The memo is set before the call, so that it is made once.
OverCapBet ==
    /\ At("trader", "overCap")
    /\ demo' = [demo EXCEPT ![V.market].overCapAttempted = TRUE]
    /\ \E o \in Outcomes :
          /\ Comes(o, TraderMayBet(V.market, V.cap + 1))
          /\ Bets("trader", V.market, o)
          /\ demoTraded' = (demoTraded \/ (o.done /\ V.known))
          /\ GotoAfter("trader", o, DemoAfter(demo'[V.market], V))
    /\ UNCHANGED <<crew, clock, oracle, status, policy, todo, hedge, force, seen,
                   honestBets, hedges, promised>>

\* updatePolicy, which nothing on chain refuses.
SetsPolicy(allow, o) ==
    /\ Comes(o, TRUE)
    /\ policy' = IF o.done THEN [allow |-> allow, cap |-> V.cap] ELSE policy

\* The bet follows only a tightening whose signature came back.  The slip does
\* not look.
GoesOnToBet_Anyway(o) == TRUE
GoesOnToBet(o) == Answered(o)

TightenAllowlist ==
    /\ At("trader", "tighten")
    /\ demo' = [demo EXCEPT ![V.market].wrongAllowlistAttempted = TRUE]
    /\ \E o \in Outcomes :
          /\ SetsPolicy("wrong", o)
          /\ GotoAfter("trader", o, IF GoesOnToBet(o) THEN "wrongBet"
                                     ELSE DemoAfter(demo'[V.market], V))
    /\ UNCHANGED <<crew, clock, oracle, status, position, todo, hedge, force, seen,
                   ghosts>>

WrongAllowlistBet ==
    /\ At("trader", "wrongBet")
    /\ \E o \in Outcomes :
          /\ Comes(o, TraderMayBet(V.market, Min({BaseSize, V.cap})))
          /\ Bets("trader", V.market, o)
          /\ demoTraded' = (demoTraded \/ o.done)
          /\ GotoAfter("trader", o, "restore")
    /\ UNCHANGED <<crew, clock, oracle, status, policy, todo, memos,
                   honestBets, hedges, promised>>

\* The template's allowlist comes back; the slip sends the tightened one again.
RestoredList_Tight == "wrong"
RestoredList == "feed"

RestoreAllowlist ==
    /\ At("trader", "restore")
    /\ \E o \in Outcomes :
          SetsPolicy(RestoredList, o) /\ GotoAfter("trader", o, DemoAfter(Demo, V))
    /\ UNCHANGED <<crew, clock, oracle, status, position, todo, memos, ghosts>>

CancelAfterDemo ==
    /\ At("trader", "cancel")
    /\ demo' = [demo EXCEPT ![V.market].flattenedAfterDemo = TRUE]
    /\ \E o \in Outcomes :
          /\ Comes(o, MayLeave("trader", V.market)) /\ Leaves("trader", V.market, o)
          /\ GotoAfter("trader", o, "idle")
    /\ UNCHANGED <<crew, clock, oracle, status, policy, todo, hedge, force, seen, ghosts>>

TraderStep ==
    \/ TraderTick \/ TraderFlattens \/ PlaceHonestBet \/ OverCapBet \/ TightenAllowlist
    \/ WrongAllowlistBet \/ RestoreAllowlist \/ CancelAfterDemo

-----------------------------------------------------------------------------
(* The hedger's tick.                                                      *)

W == view["risk_lp"]
Memo == hedge[W.market]

HedgerTick ==
    /\ At("risk_lp", "idle")
    /\ \E m \in FindActiveOpenMarket :
          Begin("risk_lp", [NoView EXCEPT !.market = m, !.now = clock], "flatten", "decide")
    /\ UNCHANGED <<crew, clock, chain, memos, ghosts, spare>>

HedgerFlattens ==
    \/ At("risk_lp", "flatten") /\ \E m \in Markets : FlattenOne("risk_lp", m, "decide")
    \/ At("risk_lp", "flush") /\ \E m \in Markets : FlattenOne("risk_lp", m, "again")

\* readOracleSnapshot: null, which counts as not stale, if it cannot be read.
SeesOld(isOld) ==
    \/ isOld = (oracle # "fresh") /\ UNCHANGED spare
    \/ ~isOld /\ oracle # "fresh" /\ Fault

IsNearClose == LET left == CloseTs(W.market) - W.now IN left > 0 /\ left <= NearClose

\* The slip compares with > instead of >=.
HedgedOut_OffByOne == Memo.hedgesPlaced > HedgesPerMarket
HedgedOut == Memo.hedgesPlaced >= HedgesPerMarket

HedgerDecides ==
    /\ At("risk_lp", "decide")
    /\ \E isOld \in BOOLEAN :
          /\ SeesOld(isOld)
          /\ IF ~Memo.cancelled /\ (isOld \/ IsNearClose) THEN Goto("risk_lp", "cancel")
             ELSE \/ Goto("risk_lp", "idle")
                  \/ ~HedgedOut /\ Goto("risk_lp", "hedge")
    /\ UNCHANGED <<crew, clock, chain, todo, memos, ghosts>>

\* cancelMarket swallows its errors: the memo is set whatever came of it.
CancelMarket ==
    /\ At("risk_lp", "cancel")
    /\ \E o \in Outcomes :
          /\ Comes(o, MayLeave("risk_lp", W.market)) /\ Leaves("risk_lp", W.market, o)
          /\ hedge' = [hedge EXCEPT ![W.market].cancelled = @ \/ Returned(o)]
          /\ GotoAfter("risk_lp", o, "idle")
    /\ UNCHANGED <<crew, clock, oracle, status, policy, todo, demo, force, seen, ghosts>>

SendHedge(o) ==
    /\ Comes(o, HedgerMayBet(W.market)) /\ Bets("risk_lp", W.market, o)
    /\ hedges' = [hedges EXCEPT ![W.market] = @ + IF o.done THEN 1 ELSE 0]
    /\ hedge' = [hedge EXCEPT ![W.market].hedgesPlaced = @ + IF Answered(o) THEN 1 ELSE 0]
    /\ UNCHANGED <<crew, clock, oracle, status, policy, demo, force, seen,
                   honestBets, demoTraded, promised>>

\* Refused for want of a slot (6012): the other markets are flattened once more,
\* by a new reading of the time, and the bet is sent again.
Full == Tradable(W.market) /\ ~HasSlot("risk_lp", W.market)

PlaceHedge ==
    /\ At("risk_lp", "hedge")
    /\ \E o \in Outcomes :
          /\ SendHedge(o)
          /\ IF o.answer = "error" /\ Full
             THEN Begin("risk_lp", [W EXCEPT !.now = clock], "flush", "again")
             ELSE GotoAfter("risk_lp", o, "idle") /\ UNCHANGED todo

PlaceHedgeAgain ==
    /\ At("risk_lp", "again")
    /\ \E o \in Outcomes : SendHedge(o) /\ GotoAfter("risk_lp", o, "idle")
    /\ UNCHANGED todo

HedgerStep ==
    \/ HedgerTick \/ HedgerFlattens \/ HedgerDecides \/ CancelMarket
    \/ PlaceHedge \/ PlaceHedgeAgain

-----------------------------------------------------------------------------
(* The tick of market-ops.                                                 *)

Ops == view["market_ops"]

\* What closePastWindowMarkets finds lagging; the slip looks at open ones only.
Lagging_Open == {m \in Markets : status[m] = "open" /\ clock >= CloseTs(m)}
Lagging == {m \in Markets : IsLive(m) /\ clock >= CloseTs(m)}

\* The config that counts the markets may be unreadable: nothing is closed.
OpsTick ==
    /\ At("market_ops", "idle") /\ Lagging # {}
    /\ \/ todo' = [todo EXCEPT !["market_ops"] = Lagging] /\ UNCHANGED spare
       \/ Fault /\ UNCHANGED todo
    /\ Goto("market_ops", IF todo'["market_ops"] = {} THEN "look" ELSE "close")
    /\ UNCHANGED <<crew, clock, chain, memos, ghosts>>

SetsStatus(m, allowed, new, o) ==
    /\ Comes(o, allowed)
    /\ status' = IF o.done THEN [status EXCEPT ![m] = new] ELSE status

TryCloseMarketWhenDue ==
    /\ At("market_ops", "close")
    /\ LET m == Min(todo["market_ops"]) IN
       \E o \in Outcomes :
          /\ SetsStatus(m, MayClose(m), "closed", o)
          /\ promised' = [promised EXCEPT ![m] = IF o.done THEN 0 ELSE @]
          /\ todo' = IF Returned(o) THEN [todo EXCEPT !["market_ops"] = @ \ {m}] ELSE todo
          /\ Goto("market_ops", IF todo'["market_ops"] = {} THEN "look" ELSE "close")
    /\ UNCHANGED <<crew, clock, oracle, position, policy, memos, honestBets, hedges,
                   demoTraded>>

\* Nothing is open or halted, as far as could be read.
OpsFindsNothing(unread) ==
    /\ IF unread THEN Fault ELSE FindActiveOpenMarket \cup FindHaltedMarket = {} /\ UNCHANGED spare
    /\ force' = {} /\ UNCHANGED seen
    /\ promised' = IF unread THEN [m \in Markets |-> 0] ELSE promised
    /\ Goto("market_ops", "idle")

Unseen == FindActiveOpenMarket \ seen
Forced == {m \in Unseen : m % ForceEvery = 0}

Call(m, l) ==
    /\ pc' = [pc EXCEPT !["market_ops"] = l]
    /\ view' = [view EXCEPT !["market_ops"] = [NoView EXCEPT !.market = m, !.now = clock]]

OpsForcesHalt ==
    \E m \in Forced :
        /\ seen' = seen \cup {m}
        /\ force' = {[market |-> m, until |-> clock + ForceSecs]}
        /\ Call(m, "halt") /\ UNCHANGED <<promised, spare>>

Elapsed == {f \in force : clock >= f.until}

OpsEndsForce ==
    /\ Forced = {} /\ FindActiveOpenMarket \cup FindHaltedMarket # {}
    /\ seen' = seen \cup Unseen
    /\ Elapsed # {} /\ force' = {}
    /\ \/ \E m \in FindHaltedMarket, f \in Elapsed : m = f.market /\ Call(m, "resume")
       \/ (\A m \in FindHaltedMarket, f \in Elapsed : m # f.market) /\ Goto("market_ops", "idle")
    /\ UNCHANGED <<promised, spare>>

\* A market halted by force is not resumed because the price is fresh.  The slip
\* forgets the memo.
Resumable_Any == FindHaltedMarket
Resumable == IF force = {} THEN FindHaltedMarket ELSE {}

OpsFollowsOracle ==
    /\ Forced = {} /\ FindActiveOpenMarket \cup FindHaltedMarket # {}
    /\ seen' = seen \cup Unseen
    /\ Elapsed = {}
    /\ \E isOld \in BOOLEAN :
          /\ SeesOld(isOld)
          /\ \/ isOld /\ \E m \in FindActiveOpenMarket : Call(m, "halt")
             \/ ~isOld /\ \E m \in Resumable : Call(m, "resume")
             \/ /\ IF isOld THEN FindActiveOpenMarket = {} ELSE Resumable = {}
                /\ Goto("market_ops", "idle")
    /\ UNCHANGED <<force, promised>>

OpsLooks ==
    /\ At("market_ops", "look") \/ (At("market_ops", "idle") /\ Lagging = {})
    /\ \/ \E unread \in BOOLEAN : OpsFindsNothing(unread)
       \/ OpsForcesHalt \/ OpsEndsForce \/ OpsFollowsOracle
    /\ UNCHANGED <<crew, clock, chain, todo, demo, hedge, honestBets, hedges, demoTraded>>

HaltMarket ==
    /\ At("market_ops", "halt")
    /\ \E o \in Outcomes :
          /\ SetsStatus(Ops.market, MayHalt(Ops.market), "halted", o)
          /\ promised' = [m \in Markets |->
                 IF o.done /\ m = Ops.market /\ (\E f \in force : f.market = m)
                 THEN Max({f.until : f \in force}) ELSE promised[m]]
          /\ GotoAfter("market_ops", o, "idle")
    /\ UNCHANGED <<crew, clock, oracle, position, policy, todo, memos, honestBets, hedges,
                   demoTraded>>

ResumeMarket ==
    /\ At("market_ops", "resume")
    /\ \E o \in Outcomes :
          /\ SetsStatus(Ops.market, MayResume(Ops.market), "open", o)
          /\ promised' = [promised EXCEPT ![Ops.market] = IF o.done THEN 0 ELSE @]
          /\ GotoAfter("market_ops", o, "idle")
    /\ UNCHANGED <<crew, clock, oracle, position, policy, todo, memos, honestBets, hedges,
                   demoTraded>>

OpsStep == OpsTick \/ TryCloseMarketWhenDue \/ OpsLooks \/ HaltMarket \/ ResumeMarket

-----------------------------------------------------------------------------
(* Everyone else.                                                          *)

Second ==
    /\ clock < MaxTime /\ clock' = clock + 1
    /\ UNCHANGED <<crew, chain, pc, view, todo, memos, ghosts, spare>>

\* The publisher falls behind, and catches up.
Ages ==
    /\ Fault
    /\ oracle = "fresh" /\ oracle' \in {"old", "expired"}
    /\ UNCHANGED <<crew, clock, status, position, policy, pc, view, todo, memos, ghosts>>

Publishes ==
    /\ oracle # "fresh" /\ oracle' = "fresh"
    /\ UNCHANGED <<crew, clock, status, position, policy, pc, view, todo, memos, ghosts, spare>>

\* The scheduler opens a market in its window, closes an open one after it and
\* commits a closed one, which takes it off the rollup.
Schedules(m) ==
    /\ \/ /\ status[m] = "pending" /\ oracle # "expired"
          /\ OpenTs(m) <= clock /\ clock < CloseTs(m)
          /\ status' = [status EXCEPT ![m] = "open"]
       \/ status[m] = "open" /\ MayClose(m) /\ status' = [status EXCEPT ![m] = "closed"]
       \/ status[m] = "closed" /\ status' = [status EXCEPT ![m] = "gone"]
    /\ UNCHANGED <<crew, clock, oracle, position, policy, pc, view, todo, memos, ghosts, spare>>

\* A process restarts with its memos empty; market-ops no longer knows what it
\* halted, or for how long.
Crash(r) ==
    /\ r \in crew /\ Fault
    /\ pc' = [pc EXCEPT ![r] = "idle"] /\ view' = [view EXCEPT ![r] = NoView]
    /\ todo' = [todo EXCEPT ![r] = {}]
    /\ demo' = IF r = "trader" THEN [m \in Markets |-> NoMemo] ELSE demo
    /\ hedge' = IF r = "risk_lp" THEN [m \in Markets |-> [hedgesPlaced |-> 0, cancelled |-> FALSE]]
                ELSE hedge
    /\ IF r = "market_ops"
       THEN force' = {} /\ seen' = {} /\ promised' = [m \in Markets |-> 0]
       ELSE UNCHANGED <<force, seen, promised>>
    /\ UNCHANGED <<crew, clock, chain, honestBets, hedges, demoTraded>>

Next ==
    \/ TraderStep \/ HedgerStep \/ OpsStep
    \/ Second \/ Ages \/ Publishes
    \/ \E m \in Markets : Schedules(m)
    \/ \E r \in Roles : Crash(r)

Spec == Init /\ [][Next]_vars

\* market-ops ticks for ever and every call it awaits returns; time passes and
\* prices come again.  Nothing is assumed of the scheduler or of the bettors.
Fairness == WF_vars(OpsStep) /\ WF_vars(Second) /\ WF_vars(Publishes)

FairSpec == Spec /\ Fairness

-----------------------------------------------------------------------------
(* What must hold.                                                         *)

Lost == Disturbances - spare

\* "Honest momentum bet on each open market window": one per market, though the
\* tick that places it comes again every second; every further one has a lost
\* answer or a restart behind it, and a bet the trader counts was executed.
HonestOnce ==
    \A m \in Markets :
        /\ honestBets[m] <= 1 + Lost
        /\ demo[m].honestPlaced => honestBets[m] > 0

\* The two scripted violations are refused by the chain, each time: the over-cap
\* bet as long as the trader could read its cap, and the bet under the wrong
\* allowlist whatever is lost, because it only follows a tightening it saw land.
DemosNeverTrade == ~demoTraded

\* "Restore the original allowlist so honest bets work again": outside the demo
\* the trader's own allowlist admits its markets, unless an answer was lost or
\* the process died in the middle.
PolicyRestored ==
    policy.allow = "wrong" /\ pc["trader"] \notin {"tighten", "wrongBet", "restore"} => Lost > 0

\* "place at most N hedges per market window", though a refused hedge is sent
\* again after a flush: only a lost answer or a restart adds to them, a restart
\* as many as a whole window's.
HedgesBounded ==
    \A m \in Markets : hedges[m] <= HedgesPerMarket * (1 + Lost)

\* "force a 20s halt regardless of oracle state": a market halted by force opens
\* again only after that time, whatever the oracle, the scheduler and the other
\* markets do meanwhile, as long as market-ops remembers it.
ForcedHaltLasts ==
    [][\A m \in Markets : status[m] = "halted" /\ status'[m] = "open" => clock >= promised[m]]_vars

\* No market stays halted: again and again none is, because market-ops resumes it
\* in its window or closes it after, with no help from the scheduler, which never
\* touches a halted market.
NoHaltForever == []<>(\A m \in Markets : status[m] # "halted")

=============================================================================
