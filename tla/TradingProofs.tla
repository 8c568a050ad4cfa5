---------------------------- MODULE TradingProofs -----------------------------
(***************************************************************************)
(* Theorems about the trading roles, for any number of markets, any of the *)
(* roles' settings and any sequence of lost answers and restarts.          *)
(*                                                                         *)
(* What a role may rely on is what its own process has put into its view   *)
(* and its memos: the lemmas first say which steps leave which of them     *)
(* alone, then which calls a tick can come to with which view.             *)
(***************************************************************************)
EXTENDS Trading, Arithmetic

\* The steps of one role leave what belongs to the others alone.
Untouched(r) ==
    pc'[r] = pc[r] /\ view'[r] = view[r] /\ todo'[r] = todo[r]

TickStates ==
    {"idle", "flatten", "honest", "overCap", "tighten", "wrongBet", "restore", "cancel",
     "decide", "hedge", "flush", "again", "close", "look", "halt", "resume"}

View == [market : Markets, now : 0..MaxTime, cap : Nat, known : BOOLEAN]

RolesTyped ==
    /\ pc \in [Roles -> TickStates]
    /\ view \in [Roles -> View]
    /\ todo \in [Roles -> SUBSET Markets]

Bounded == clock \in 0..MaxTime /\ spare \in 0..Disturbances

-----------------------------------------------------------------------------
(* Time, and what goes wrong.                                              *)

LEMMA TimePasses ==
    [Next]_vars => UNCHANGED clock \/ (clock < MaxTime /\ clock' = clock + 1)
<1> SUFFICES ASSUME [Next]_vars PROVE UNCHANGED clock \/ (clock < MaxTime /\ clock' = clock + 1)
  OBVIOUS
<1>1. TraderStep => UNCHANGED clock
  BY DEF TraderStep, TraderTick, TraderFlattens, FlattenOne, PlaceHonestBet, OverCapBet,
     TightenAllowlist, WrongAllowlistBet, RestoreAllowlist, CancelAfterDemo
<1>2. HedgerStep => UNCHANGED clock
  BY DEF HedgerStep, HedgerTick, HedgerFlattens, FlattenOne, HedgerDecides, CancelMarket,
     PlaceHedge, PlaceHedgeAgain, SendHedge
<1>3. OpsStep => UNCHANGED clock
  BY DEF OpsStep, OpsTick, TryCloseMarketWhenDue, OpsLooks, HaltMarket, ResumeMarket
<1> QED
  BY <1>1, <1>2, <1>3 DEF Next, Second, Ages, Publishes, Schedules, Crash, vars

LEMMA FaultsAreSpent == [Next]_vars => UNCHANGED spare \/ Fault
<1> SUFFICES ASSUME [Next]_vars PROVE UNCHANGED spare \/ Fault
  OBVIOUS
<1>1. TraderStep => UNCHANGED spare \/ Fault
  BY DEF TraderStep, TraderTick, ReadCap, TraderFlattens, FlattenOne, PlaceHonestBet, OverCapBet,
     TightenAllowlist, WrongAllowlistBet, RestoreAllowlist, CancelAfterDemo, SetsPolicy, Comes
<1>2. HedgerStep => UNCHANGED spare \/ Fault
  BY DEF HedgerStep, HedgerTick, HedgerFlattens, FlattenOne, HedgerDecides, CancelMarket,
     PlaceHedge, PlaceHedgeAgain, SendHedge, SeesOld, Comes
<1>3. OpsStep => UNCHANGED spare \/ Fault
  BY DEF OpsStep, OpsTick, TryCloseMarketWhenDue, OpsLooks, HaltMarket, ResumeMarket,
     OpsFindsNothing, OpsForcesHalt, OpsEndsForce, OpsFollowsOracle, SeesOld, SetsStatus, Comes
<1> QED
  BY <1>1, <1>2, <1>3 DEF Next, Second, Ages, Publishes, Schedules, Crash, vars

LEMMA BoundedKept == Bounded /\ [Next]_vars => Bounded'
  BY TimePasses, FaultsAreSpent, WindowsAssumption, DisturbancesAssumption DEF Bounded, Fault

-----------------------------------------------------------------------------
(* Who touches what.                                                       *)

LEMMA MarketsFinite == IsFiniteSet(Markets) /\ Markets \subseteq Nat
  BY WindowsAssumption, FS_Interval DEF Markets

\* The market a role finds is one of the newest that have the status.
LEMMA FoundIsThere ==
    ASSUME NEW s, NEW m \in NewestWith(s)
    PROVE  /\ m \in Newest /\ m \in Markets /\ status[m] = s
           /\ NewestWith(s) = {m}
<1> DEFINE found == {n \in Newest : status[n] = s}
<1>1. found # {} /\ NewestWith(s) = {Max(found)}
  BY DEF NewestWith
<1>2. found \subseteq Nat /\ IsFiniteSet(found)
  BY MarketsFinite, FS_Subset DEF Newest
<1>3. Max(found) \in found
  <2> HIDE DEF found
  <2> QED
    BY <1>1, <1>2, MaxIsLargest
<1> QED
  BY <1>1, <1>3 DEF Newest

LEMMA TraderAlone ==
    ASSUME RolesTyped, TraderStep
    PROVE  /\ UNCHANGED <<crew, oracle, status, hedge, force, seen, hedges, promised>>
           /\ \A r \in Roles \ {"trader"} : Untouched(r)
<1>1. UNCHANGED <<crew, oracle, status, hedge, force, seen, hedges, promised>>
  BY DEF TraderStep, TraderTick, TraderFlattens, FlattenOne, PlaceHonestBet, OverCapBet,
     TightenAllowlist, WrongAllowlistBet, RestoreAllowlist, CancelAfterDemo, chain, memos, ghosts
<1>2. ASSUME NEW r \in Roles \ {"trader"} PROVE Untouched(r)
  <2>1. CASE TraderTick
    BY <2>1 DEF TraderTick, Begin, Untouched, RolesTyped
  <2>2. CASE TraderFlattens
    BY <2>2 DEF TraderFlattens, FlattenOne, Goto, Untouched, RolesTyped
  <2>3. CASE PlaceHonestBet \/ OverCapBet \/ TightenAllowlist \/ WrongAllowlistBet
             \/ RestoreAllowlist \/ CancelAfterDemo
    BY <2>3 DEF PlaceHonestBet, OverCapBet, TightenAllowlist, WrongAllowlistBet,
       RestoreAllowlist, CancelAfterDemo, GotoAfter, Goto, Untouched, RolesTyped
  <2> QED
    BY <2>1, <2>2, <2>3 DEF TraderStep
<1> QED
  BY <1>1, <1>2

LEMMA HedgerAlone ==
    ASSUME RolesTyped, HedgerStep
    PROVE  /\ UNCHANGED <<crew, oracle, status, policy, demo, force, seen, honestBets, demoTraded,
                          promised>>
           /\ \A r \in Roles \ {"risk_lp"} : Untouched(r)
<1>1. UNCHANGED <<crew, oracle, status, policy, demo, force, seen, honestBets, demoTraded,
                  promised>>
  BY DEF HedgerStep, HedgerTick, HedgerFlattens, FlattenOne, HedgerDecides, CancelMarket,
     PlaceHedge, PlaceHedgeAgain, SendHedge, chain, memos, ghosts
<1>2. ASSUME NEW r \in Roles \ {"risk_lp"} PROVE Untouched(r)
  <2>1. CASE HedgerTick
    BY <2>1 DEF HedgerTick, Begin, Untouched, RolesTyped
  <2>2. CASE HedgerFlattens
    BY <2>2 DEF HedgerFlattens, FlattenOne, Goto, Untouched, RolesTyped
  <2>3. CASE HedgerDecides \/ CancelMarket
    BY <2>3 DEF HedgerDecides, CancelMarket, GotoAfter, Goto, Untouched, RolesTyped
  <2>4. CASE PlaceHedge \/ PlaceHedgeAgain
    BY <2>4 DEF PlaceHedge, PlaceHedgeAgain, Begin, GotoAfter, Goto, Untouched, RolesTyped
  <2> QED
    BY <2>1, <2>2, <2>3, <2>4 DEF HedgerStep
<1> QED
  BY <1>1, <1>2

LEMMA OpsAlone ==
    ASSUME RolesTyped, OpsStep
    PROVE  /\ UNCHANGED <<crew, oracle, position, policy, demo, hedge, honestBets, hedges,
                          demoTraded>>
           /\ \A r \in Roles \ {"market_ops"} : Untouched(r)
<1>1. UNCHANGED <<crew, oracle, position, policy, demo, hedge, honestBets, hedges, demoTraded>>
  BY DEF OpsStep, OpsTick, TryCloseMarketWhenDue, OpsLooks, HaltMarket, ResumeMarket, chain,
     memos, ghosts
<1>2. ASSUME NEW r \in Roles \ {"market_ops"} PROVE Untouched(r)
  <2>1. CASE OpsTick \/ TryCloseMarketWhenDue
    BY <2>1 DEF OpsTick, TryCloseMarketWhenDue, Goto, Untouched, RolesTyped
  <2>2. CASE OpsLooks
    BY <2>2 DEF OpsLooks, OpsFindsNothing, OpsForcesHalt, OpsEndsForce, OpsFollowsOracle, Call,
       Goto, Untouched, RolesTyped
  <2>3. CASE HaltMarket \/ ResumeMarket
    BY <2>3 DEF HaltMarket, ResumeMarket, GotoAfter, Goto, Untouched, RolesTyped
  <2> QED
    BY <2>1, <2>2, <2>3 DEF OpsStep
<1> QED
  BY <1>1, <1>2

-----------------------------------------------------------------------------
(* The course of a tick.                                                   *)

PolicyTyped == policy \in [allow : {"feed", "wrong"}, cap : {Registered, Template}]

LEMMA Outcome ==
    ASSUME NEW o \in Outcomes
    PROVE  o.done \in BOOLEAN /\ Answered(o) \in BOOLEAN /\ Returned(o) \in BOOLEAN
           /\ (Answered(o) => o.done) /\ (Answered(o) => Returned(o))
           /\ (o.answer = "error" => Returned(o) /\ ~Answered(o))
           /\ (Returned(o) /\ ~Answered(o) => o.answer = "error")
  BY DEF Outcomes, Answered, Returned

LEMMA EmptyView == NoView \in View
  BY WindowsAssumption DEF NoView, View, Markets

\* A role that goes on keeps its view, unless its tick ends.
LEMMA Going ==
    ASSUME RolesTyped, NEW r \in Roles, NEW l \in TickStates, Goto(r, l)
    PROVE  /\ pc' \in [Roles -> TickStates] /\ view' \in [Roles -> View]
           /\ pc'[r] = l /\ (l # "idle" => view' = view)
  BY EmptyView DEF Goto, RolesTyped

LEMMA GoingAfter ==
    ASSUME RolesTyped, NEW r \in Roles, NEW l \in TickStates, NEW o, GotoAfter(r, o, l)
    PROVE  /\ pc' \in [Roles -> TickStates] /\ view' \in [Roles -> View]
           /\ pc'[r] = (IF Returned(o) THEN l ELSE pc[r])
           /\ (pc'[r] # "idle" => view' = view)
<1>1. CASE Returned(o)
  BY <1>1, Going DEF GotoAfter
<1>2. CASE ~Returned(o)
  BY <1>2 DEF GotoAfter, RolesTyped
<1> QED
  BY <1>1, <1>2

LEMMA Beginning ==
    ASSUME RolesTyped, NEW a \in Roles, NEW v \in View, NEW stage \in TickStates,
           NEW after \in TickStates, Begin(a, v, stage, after)
    PROVE  /\ RolesTyped' /\ view'[a] = v
           /\ pc'[a] \in {stage, after}
<1>1. todo' \in [Roles -> SUBSET Markets]
  BY DEF Begin, RolesTyped, Elsewhere, Occupied
<1> QED
  BY <1>1 DEF Begin, RolesTyped

\* One market flattened: the tick stays where it is, or goes on with its view.
LEMMA Flattening ==
    ASSUME RolesTyped, NEW a \in Roles, NEW m \in Markets, NEW after \in TickStates,
           FlattenOne(a, m, after)
    PROVE  /\ RolesTyped'
           /\ pc'[a] \in {pc[a], after} /\ (pc'[a] # "idle" => view' = view)
           /\ UNCHANGED <<crew, clock, oracle, status, policy, memos, ghosts>>
<1>1. todo' \in [Roles -> SUBSET Markets]
  BY DEF FlattenOne, RolesTyped
<1>2. UNCHANGED <<crew, clock, oracle, status, policy, memos, ghosts>>
  BY DEF FlattenOne
<1>3. Goto(a, after) \/ UNCHANGED <<pc, view>>
  BY DEF FlattenOne
<1>4. CASE Goto(a, after)
  BY <1>1, <1>2, <1>4, Going DEF RolesTyped
<1>5. CASE UNCHANGED <<pc, view>>
  BY <1>1, <1>2, <1>5 DEF RolesTyped
<1> QED
  BY <1>3, <1>4, <1>5

\* The scripted steps.
LEMMA DemoStates ==
    ASSUME NEW memo, NEW v
    PROVE  /\ DemoAfter(memo, v) \in {"idle", "overCap", "tighten", "cancel"}
           /\ FirstDemo(memo, v) \in {"idle", "honest", "overCap", "tighten", "cancel"}
           /\ (FirstDemo(memo, v) = "honest" => ~memo.honestPlaced)
<1>1. DemoAfter(memo, v) \in {"idle", "overCap", "tighten", "cancel"}
  BY DEF DemoAfter
<1> QED
  BY <1>1 DEF FirstDemo

-----------------------------------------------------------------------------
(* Type correctness: the roles.                                            *)

\* A tick of the trader has read its cap from the chain or from the template; if
\* from the chain, that is still the cap there.
CapKnown ==
    pc["trader"] # "idle" =>
        V.cap \in {Registered, Template} /\ (V.known => V.cap = policy.cap)

LEMMA TraderTicks ==
    ASSUME RolesTyped, PolicyTyped, Bounded, TraderTick
    PROVE  RolesTyped' /\ (pc'["trader"] = "idle" \/
              /\ view'["trader"].cap \in {Registered, Template}
              /\ (view'["trader"].known => view'["trader"].cap = policy.cap)
              /\ pc'["trader"] \in {"flatten", FirstDemo(demo[view'["trader"].market], view'["trader"])})
<1>1. PICK m \in FindActiveOpenMarket, cap \in {policy.cap, Template} :
         LET v == [market |-> m, now |-> clock, cap |-> cap, known |-> cap = policy.cap]
             l == FirstDemo(demo[m], v)
         IN  \/ l = "idle" /\ UNCHANGED <<pc, view, todo>>
             \/ Begin("trader", v, "flatten", l)
  BY DEF TraderTick
<1> DEFINE v == [market |-> m, now |-> clock, cap |-> cap, known |-> cap = policy.cap]
           l == FirstDemo(demo[m], v)
<1>2. pc["trader"] = "idle"
  BY DEF TraderTick, At
<1>3. CASE UNCHANGED <<pc, view, todo>>
  BY <1>2, <1>3 DEF RolesTyped
<1>4. CASE Begin("trader", v, "flatten", l)
  <2>1. cap \in {Registered, Template} /\ cap \in Nat
    BY StakesAssumption DEF PolicyTyped
  <2>2. m \in Markets
    BY FoundIsThere DEF FindActiveOpenMarket
  <2>3. v \in View /\ v.cap = cap /\ (v.known <=> cap = policy.cap) /\ v.market = m
    BY <2>1, <2>2 DEF View, Bounded
  <2>4. l \in TickStates
    BY DemoStates DEF TickStates
  <2> HIDE DEF v, l
  <2>5. RolesTyped' /\ view'["trader"] = v /\ pc'["trader"] \in {"flatten", l}
    BY <1>4, <2>3, <2>4, Beginning DEF Roles, TickStates
  <2> QED
    BY <2>1, <2>3, <2>5 DEF l
<1> QED
  BY <1>1, <1>3, <1>4

LEMMA TraderKeepsRoles ==
    ASSUME RolesTyped, PolicyTyped, Bounded, TraderStep PROVE RolesTyped'
<1>1. \A memo, v : DemoAfter(memo, v) \in TickStates /\ FirstDemo(memo, v) \in TickStates
  BY DemoStates DEF TickStates
<1>2. "trader" \in Roles /\ {"idle", "wrongBet", "restore"} \subseteq TickStates
  BY DEF Roles, TickStates
<1>3. CASE TraderFlattens
  BY <1>1, <1>2, <1>3, Flattening DEF TraderFlattens
<1>4. ASSUME NEW o, NEW l \in TickStates, GotoAfter("trader", o, l), UNCHANGED todo
      PROVE  RolesTyped'
  <2>1. pc' \in [Roles -> TickStates] /\ view' \in [Roles -> View]
    BY <1>2, <1>4, GoingAfter
  <2> QED
    BY <1>4, <2>1 DEF RolesTyped
<1>5. CASE PlaceHonestBet \/ OverCapBet \/ RestoreAllowlist
  BY <1>1, <1>4, <1>5 DEF PlaceHonestBet, OverCapBet, RestoreAllowlist
<1>6. CASE TightenAllowlist
  <2>1. PICK o \in Outcomes : GotoAfter("trader", o, IF GoesOnToBet(o) THEN "wrongBet"
                                                      ELSE DemoAfter(demo'[V.market], V))
    BY <1>6 DEF TightenAllowlist
  <2>2. (IF GoesOnToBet(o) THEN "wrongBet" ELSE DemoAfter(demo'[V.market], V)) \in TickStates
    BY <1>1, <1>2
  <2> QED
    BY <1>4, <1>6, <2>1, <2>2 DEF TightenAllowlist
<1>7. CASE WrongAllowlistBet \/ CancelAfterDemo
  BY <1>2, <1>4, <1>7 DEF WrongAllowlistBet, CancelAfterDemo
<1> QED
  BY <1>3, <1>5, <1>6, <1>7, TraderTicks DEF TraderStep

LEMMA HedgerKeepsRoles ==
    ASSUME RolesTyped, Bounded, HedgerStep PROVE RolesTyped'
<1>1. "risk_lp" \in Roles /\ {"idle", "flatten", "decide", "cancel", "hedge", "flush", "again"}
                              \subseteq TickStates
  BY DEF Roles, TickStates
<1>2. CASE HedgerTick
  <2>1. PICK m \in FindActiveOpenMarket :
           Begin("risk_lp", [NoView EXCEPT !.market = m, !.now = clock], "flatten", "decide")
    BY <1>2 DEF HedgerTick
  <2>2. [NoView EXCEPT !.market = m, !.now = clock] \in View
    BY FoundIsThere DEF FindActiveOpenMarket, NoView, View, Bounded
  <2> QED
    BY <1>1, <2>1, <2>2, Beginning
<1>3. CASE HedgerFlattens
  BY <1>1, <1>3, Flattening DEF HedgerFlattens
<1>4. ASSUME NEW o, GotoAfter("risk_lp", o, "idle"), UNCHANGED todo PROVE RolesTyped'
  <2>1. pc' \in [Roles -> TickStates] /\ view' \in [Roles -> View]
    BY <1>1, <1>4, GoingAfter
  <2> QED
    BY <1>4, <2>1 DEF RolesTyped
<1>5. CASE HedgerDecides
  <2>1. \E l \in {"idle", "cancel", "hedge"} : Goto("risk_lp", l)
    BY <1>5 DEF HedgerDecides
  <2>2. pc' \in [Roles -> TickStates] /\ view' \in [Roles -> View]
    BY <1>1, <2>1, Going
  <2> QED
    BY <1>5, <2>2 DEF HedgerDecides, RolesTyped
<1>6. CASE CancelMarket \/ PlaceHedgeAgain
  BY <1>4, <1>6 DEF CancelMarket, PlaceHedgeAgain
<1>7. CASE PlaceHedge
  <2>1. W \in View
    BY DEF W, RolesTyped, Roles
  <2>2. [W EXCEPT !.now = clock] \in View
    BY <2>1 DEF View, Bounded
  <2>3. CASE Begin("risk_lp", [W EXCEPT !.now = clock], "flush", "again")
    BY <1>1, <2>2, <2>3, Beginning
  <2> QED
    BY <1>4, <1>7, <2>3 DEF PlaceHedge
<1> QED
  BY <1>2, <1>3, <1>5, <1>6, <1>7 DEF HedgerStep

LEMMA Calling ==
    ASSUME RolesTyped, Bounded, NEW m \in Markets, NEW l \in TickStates, Call(m, l)
    PROVE  /\ pc' \in [Roles -> TickStates] /\ view' \in [Roles -> View]
           /\ pc'["market_ops"] = l
           /\ view'["market_ops"].market = m
<1>1. [NoView EXCEPT !.market = m, !.now = clock] \in View
      /\ [NoView EXCEPT !.market = m, !.now = clock].market = m
  BY DEF NoView, View, Bounded
<1> QED
  BY <1>1 DEF Call, RolesTyped, Roles

LEMMA OpsKeepsRoles ==
    ASSUME RolesTyped, Bounded, OpsStep PROVE RolesTyped'
<1>1. "market_ops" \in Roles /\ {"idle", "look", "close", "halt", "resume"} \subseteq TickStates
  BY DEF Roles, TickStates
<1>2. CASE OpsTick \/ TryCloseMarketWhenDue
  <2>1. \E l \in {"look", "close"} : Goto("market_ops", l)
    BY <1>2 DEF OpsTick, TryCloseMarketWhenDue
  <2>2. todo' \in [Roles -> SUBSET Markets]
    BY <1>2 DEF OpsTick, TryCloseMarketWhenDue, Lagging, RolesTyped
  <2>3. pc' \in [Roles -> TickStates] /\ view' \in [Roles -> View]
    BY <1>1, <2>1, Going
  <2> QED
    BY <2>2, <2>3 DEF RolesTyped
<1>3. CASE OpsLooks
  <2>1. Goto("market_ops", "idle") \/ \E m \in Markets, l \in {"halt", "resume"} : Call(m, l)
    <3>1. \A s : NewestWith(s) \subseteq Markets
      BY FoundIsThere
    <3> QED
      BY <1>3, <3>1 DEF OpsLooks, OpsFindsNothing, OpsForcesHalt, OpsEndsForce, OpsFollowsOracle,
         Forced, Unseen, Resumable, FindActiveOpenMarket, FindHaltedMarket
  <2>2. pc' \in [Roles -> TickStates] /\ view' \in [Roles -> View]
    BY <1>1, <2>1, Going, Calling
  <2> QED
    BY <1>3, <2>2 DEF OpsLooks, RolesTyped
<1>4. CASE HaltMarket \/ ResumeMarket
  <2>1. pc' \in [Roles -> TickStates] /\ view' \in [Roles -> View]
    BY <1>1, <1>4, GoingAfter DEF HaltMarket, ResumeMarket
  <2> QED
    BY <1>4, <2>1 DEF HaltMarket, ResumeMarket, RolesTyped
<1> QED
  BY <1>2, <1>3, <1>4 DEF OpsStep

LEMMA RolesKept ==
    ASSUME RolesTyped, PolicyTyped, Bounded, [Next]_vars PROVE RolesTyped'
<1>1. CASE \E r \in Roles : Crash(r)
  BY <1>1, EmptyView DEF Crash, RolesTyped, TickStates
<1>2. CASE Second \/ Ages \/ Publishes \/ (\E m \in Markets : Schedules(m)) \/ UNCHANGED vars
  BY <1>2 DEF Second, Ages, Publishes, Schedules, vars, RolesTyped
<1> QED
  BY <1>1, <1>2, TraderKeepsRoles, HedgerKeepsRoles, OpsKeepsRoles DEF Next

-----------------------------------------------------------------------------
(* Type correctness: the chain and the memos.                              *)

ChainTyped ==
    /\ crew \in Crews /\ oracle \in {"fresh", "old", "expired"}
    /\ status \in [Markets -> {"pending", "open", "halted", "closed", "gone"}]
    /\ position \in [Bettors -> [Markets -> {"none", "shares", "residue"}]]

\* A bet, a cancellation and a settlement change one position of one bettor.
LEMMA PositionMoves ==
    ASSUME ChainTyped, NEW a \in Bettors, NEW m \in Markets, NEW o,
           \/ Bets(a, m, o) \/ Leaves(a, m, o) \/ UNCHANGED position
           \/ position' = IF o.done THEN [position EXCEPT ![a][m] = "none"] ELSE position
    PROVE  position' \in [Bettors -> [Markets -> {"none", "shares", "residue"}]]
  BY DEF ChainTyped, Bets, Leaves

LEMMA ChainKept ==
    ASSUME ChainTyped, RolesTyped, [Next]_vars PROVE ChainTyped'
<1>1. V.market \in Markets /\ W.market \in Markets /\ "trader" \in Bettors /\ "risk_lp" \in Bettors
  BY DEF V, W, RolesTyped, View, Roles, Bettors
<1>2. CASE TraderStep
  <2>1. UNCHANGED <<crew, oracle, status>>
    BY <1>2, TraderAlone
  <2>2. \E m \in Markets : \E o :
           \/ Bets("trader", m, o) \/ Leaves("trader", m, o) \/ UNCHANGED position
           \/ position' = IF o.done THEN [position EXCEPT !["trader"][m] = "none"] ELSE position
    BY <1>1, <1>2 DEF TraderStep, TraderTick, TraderFlattens, FlattenOne, PlaceHonestBet,
       OverCapBet, TightenAllowlist, WrongAllowlistBet, RestoreAllowlist, CancelAfterDemo, chain
  <2> QED
    BY <1>1, <2>1, <2>2, PositionMoves DEF ChainTyped
<1>3. CASE HedgerStep
  <2>1. UNCHANGED <<crew, oracle, status>>
    BY <1>3, HedgerAlone
  <2>2. \E m \in Markets : \E o :
           \/ Bets("risk_lp", m, o) \/ Leaves("risk_lp", m, o) \/ UNCHANGED position
           \/ position' = IF o.done THEN [position EXCEPT !["risk_lp"][m] = "none"] ELSE position
    BY <1>1, <1>3 DEF HedgerStep, HedgerTick, HedgerFlattens, FlattenOne, HedgerDecides,
       CancelMarket, PlaceHedge, PlaceHedgeAgain, SendHedge, chain
  <2> QED
    BY <1>1, <2>1, <2>2, PositionMoves DEF ChainTyped
<1>4. CASE OpsStep
  <2>1. UNCHANGED <<crew, oracle, position>>
    BY <1>4, OpsAlone
  <2>2. status' \in [Markets -> {"pending", "open", "halted", "closed", "gone"}]
    BY <1>4 DEF OpsStep, OpsTick, TryCloseMarketWhenDue, OpsLooks, HaltMarket, ResumeMarket,
       SetsStatus, chain, ChainTyped
  <2> QED
    BY <2>1, <2>2 DEF ChainTyped
<1>5. CASE \E m \in Markets : Schedules(m)
  BY <1>5 DEF Schedules, ChainTyped
<1>6. CASE Second \/ Ages \/ Publishes \/ (\E r \in Roles : Crash(r)) \/ UNCHANGED vars
  BY <1>6 DEF Second, Ages, Publishes, Crash, vars, chain, ChainTyped
<1> QED
  BY <1>2, <1>3, <1>4, <1>5, <1>6 DEF Next

Memos == [honestPlaced : BOOLEAN, overCapAttempted : BOOLEAN,
          wrongAllowlistAttempted : BOOLEAN, flattenedAfterDemo : BOOLEAN]

TraderTyped ==
    PolicyTyped /\ demo \in [Markets -> Memos] /\ honestBets \in [Markets -> Nat]
    /\ demoTraded \in BOOLEAN

LEMMA SettingPolicy ==
    ASSUME PolicyTyped, CapKnown, pc["trader"] # "idle", NEW allow \in {"feed", "wrong"},
           NEW o \in Outcomes, SetsPolicy(allow, o)
    PROVE  /\ PolicyTyped' /\ (policy'.cap = policy.cap \/ policy'.cap = V.cap)
           /\ policy'.allow = (IF o.done THEN allow ELSE policy.allow)
           /\ (~o.done \/ ~Answered(o) => Fault)
<1>1. policy' = IF o.done THEN [allow |-> allow, cap |-> V.cap] ELSE policy
  BY DEF SetsPolicy
<1>2. V.cap \in {Registered, Template}
  BY DEF CapKnown
<1>3. ~o.done \/ ~Answered(o) => Fault
  BY DEF SetsPolicy, Comes, Ordinary, Outcomes, Answered
<1> QED
  BY <1>1, <1>2, <1>3 DEF PolicyTyped

LEMMA TraderKeepsTypes ==
    ASSUME TraderTyped, CapKnown, RolesTyped, TraderStep PROVE TraderTyped'
<1>1. V.market \in Markets
  BY DEF V, RolesTyped, View, Roles
<1>2. CASE TraderTick
  BY <1>2 DEF TraderTick, chain, memos, ghosts, TraderTyped, PolicyTyped
<1>3. CASE TraderFlattens
  BY <1>3 DEF TraderFlattens, FlattenOne, memos, ghosts, TraderTyped, PolicyTyped
<1>4. CASE PlaceHonestBet
  <2>1. honestBets' \in [Markets -> Nat] /\ UNCHANGED <<policy, demoTraded>>
    BY <1>1, <1>4 DEF PlaceHonestBet, TraderTyped
  <2>2. PICK o \in Outcomes :
           demo' = [demo EXCEPT ![V.market].honestPlaced =
                       IF Returned(o) THEN HonestPlaced(o) ELSE @]
    BY <1>4 DEF PlaceHonestBet
  <2> DEFINE placed == IF Returned(o) THEN HonestPlaced(o) ELSE demo[V.market].honestPlaced
  <2>3. placed \in BOOLEAN
    <3>1. HonestPlaced(o) \in BOOLEAN
      BY Outcome DEF HonestPlaced
    <3>2. demo[V.market].honestPlaced \in BOOLEAN
      BY <1>1 DEF TraderTyped, Memos
    <3> QED
      BY <3>1, <3>2
  <2>4. demo' = [demo EXCEPT ![V.market].honestPlaced = placed]
    BY <2>2
  <2> HIDE DEF placed
  <2>5. demo' \in [Markets -> Memos]
    BY <1>1, <2>3, <2>4 DEF TraderTyped, Memos
  <2> QED
    BY <2>1, <2>5 DEF TraderTyped, PolicyTyped
<1>5. CASE OverCapBet \/ WrongAllowlistBet \/ CancelAfterDemo
  <2>1. UNCHANGED <<policy, honestBets>>
    BY <1>5 DEF OverCapBet, WrongAllowlistBet, CancelAfterDemo, ghosts
  <2>2. demoTraded' \in BOOLEAN
    BY <1>5, Zenon DEF OverCapBet, WrongAllowlistBet, CancelAfterDemo, ghosts, TraderTyped
  <2>3. \/ demo' = [demo EXCEPT ![V.market].overCapAttempted = TRUE]
        \/ demo' = [demo EXCEPT ![V.market].flattenedAfterDemo = TRUE]
        \/ UNCHANGED demo
    BY <1>5, Zenon DEF OverCapBet, WrongAllowlistBet, CancelAfterDemo, memos
  <2>4. demo' \in [Markets -> Memos]
    BY <1>1, <2>3 DEF TraderTyped, Memos
  <2> QED
    BY <2>1, <2>2, <2>4 DEF TraderTyped, PolicyTyped
<1>6. CASE TightenAllowlist
  <2>1. PolicyTyped'
    BY <1>6, SettingPolicy DEF TightenAllowlist, At, TraderTyped
  <2> QED
    BY <1>6, <2>1 DEF TightenAllowlist, ghosts, TraderTyped, Memos
<1>7. CASE RestoreAllowlist
  <2>1. PolicyTyped'
    BY <1>7, SettingPolicy DEF RestoreAllowlist, RestoredList, At, TraderTyped
  <2> QED
    BY <1>7, <2>1 DEF RestoreAllowlist, memos, ghosts, TraderTyped
<1> QED
  BY <1>2, <1>3, <1>4, <1>5, <1>6, <1>7 DEF TraderStep

LEMMA TraderTypesKept ==
    ASSUME TraderTyped, CapKnown, RolesTyped, [Next]_vars PROVE TraderTyped'
<1>1. CASE HedgerStep
  <2>1. UNCHANGED <<policy, demo, honestBets, demoTraded>>
    BY <1>1, HedgerAlone
  <2> QED
    BY <2>1 DEF TraderTyped, PolicyTyped
<1>2. CASE OpsStep
  <2>1. UNCHANGED <<policy, demo, honestBets, demoTraded>>
    BY <1>2, OpsAlone
  <2> QED
    BY <2>1 DEF TraderTyped, PolicyTyped
<1>3. CASE \E r \in Roles : Crash(r)
  BY <1>3 DEF Crash, chain, NoMemo, TraderTyped, PolicyTyped, Memos
<1>4. CASE Second \/ Ages \/ Publishes \/ (\E m \in Markets : Schedules(m)) \/ UNCHANGED vars
  BY <1>4 DEF Second, Ages, Publishes, Schedules, vars, chain, memos, ghosts, TraderTyped,
     PolicyTyped
<1> QED
  BY <1>1, <1>2, <1>3, <1>4, TraderKeepsTypes DEF Next

LEMMA CapStaysKnown ==
    ASSUME CapKnown, RolesTyped, PolicyTyped, Bounded, [Next]_vars PROVE CapKnown'
<1>1. "trader" \in Roles
  BY DEF Roles
<1>2. ASSUME pc["trader"] # "idle", pc'["trader"] # "idle" => view' = view,
             UNCHANGED policy \/ (PolicyTyped' /\ policy'.cap \in {policy.cap, V.cap})
      PROVE  CapKnown'
  BY <1>2 DEF CapKnown, V
<1>3. CASE TraderStep
  <2>1. CASE TraderTick
    BY <2>1, TraderTicks DEF TraderTick, chain, CapKnown, V
  <2>2. CASE TraderFlattens
    <3>1. pc'["trader"] # "idle" => view' = view
      <4>1. \A memo, v : FirstDemo(memo, v) \in TickStates
        BY DemoStates DEF TickStates
      <4> QED
        BY <1>1, <2>2, <4>1, Flattening DEF TraderFlattens
    <3> QED
      BY <1>2, <2>2, <3>1 DEF TraderFlattens, At, FlattenOne
  <2>3. ASSUME NEW o, NEW l, GotoAfter("trader", o, l), UNCHANGED policy, pc["trader"] # "idle"
        PROVE  CapKnown'
    BY <1>1, <1>2, <2>3 DEF GotoAfter, Goto, RolesTyped
  <2>4. CASE PlaceHonestBet \/ OverCapBet \/ WrongAllowlistBet \/ CancelAfterDemo
    BY <2>3, <2>4 DEF PlaceHonestBet, OverCapBet, WrongAllowlistBet, CancelAfterDemo, At
  <2>5. CASE TightenAllowlist \/ RestoreAllowlist
    <3>1. pc["trader"] # "idle" /\ \E allow \in {"feed", "wrong"}, o \in Outcomes :
             SetsPolicy(allow, o) /\ \E l : GotoAfter("trader", o, l)
      BY <2>5 DEF TightenAllowlist, RestoreAllowlist, RestoredList, At
    <3>2. pc'["trader"] # "idle" => view' = view
      BY <1>1, <3>1 DEF GotoAfter, Goto, RolesTyped
    <3>3. PolicyTyped' /\ policy'.cap \in {policy.cap, V.cap}
      BY <3>1, SettingPolicy
    <3> QED
      BY <1>2, <3>1, <3>2, <3>3
  <2> QED
    BY <1>3, <2>1, <2>2, <2>4, <2>5 DEF TraderStep
<1>4. ASSUME Untouched("trader"), UNCHANGED policy PROVE CapKnown'
  BY <1>4 DEF Untouched, CapKnown, V
<1>5. CASE HedgerStep
  BY <1>1, <1>4, <1>5, HedgerAlone
<1>6. CASE OpsStep
  BY <1>1, <1>4, <1>6, OpsAlone
<1>7. CASE \E r \in Roles : Crash(r)
  BY <1>1, <1>7 DEF Crash, chain, RolesTyped, CapKnown, V
<1>8. CASE Second \/ Ages \/ Publishes \/ (\E m \in Markets : Schedules(m)) \/ UNCHANGED vars
  BY <1>4, <1>8 DEF Second, Ages, Publishes, Schedules, vars, chain, Untouched
<1> QED
  BY <1>3, <1>5, <1>6, <1>7, <1>8 DEF Next

-----------------------------------------------------------------------------
(* The hedger.                                                             *)

\* A bet is under way only while the memo has room for it, and the bets that were
\* executed beyond the memo have a lost answer or a restart behind each of them,
\* a restart as many as a window's.
HedgerTyped ==
    /\ hedge \in [Markets -> [hedgesPlaced : 0..HedgesPerMarket, cancelled : BOOLEAN]]
    /\ hedges \in [Markets -> Nat]
HedgeRoom ==
    pc["risk_lp"] \in {"hedge", "flush", "again"} => Memo.hedgesPlaced < HedgesPerMarket
HedgesCounted ==
    \A m \in Markets : hedges[m] <= hedge[m].hedgesPlaced + HedgesPerMarket * Lost

HedgerInv == HedgerTyped /\ HedgeRoom /\ HedgesCounted

\* One more loss pays for a window's hedges.
LEMMA OneMoreLoss ==
    ASSUME NEW h \in Nat, NEW n \in Nat
    PROVE  /\ h * n \in Nat /\ h * (n + 1) \in Nat
           /\ h * (n + 1) = h * n + h
  BY Z3

LEMMA LossesAreCounted ==
    ASSUME Bounded, UNCHANGED spare \/ Fault
    PROVE  /\ Lost \in Nat /\ Lost' \in Nat /\ (Lost' = Lost \/ Lost' = Lost + 1)
           /\ (Fault => Lost' = Lost + 1)
  BY DisturbancesAssumption DEF Bounded, Fault, Lost

\* Memos and counts as they are, with as many losses or more.
LEMMA HedgerAtRest ==
    ASSUME HedgerInv, Bounded, UNCHANGED spare \/ Fault, UNCHANGED <<hedge, hedges>>,
           HedgeRoom'
    PROVE  HedgerInv'
<1>1. \A m \in Markets : hedges[m] \in Nat /\ hedge[m].hedgesPlaced \in Nat
  BY StakesAssumption DEF HedgerInv, HedgerTyped
<1>2. HedgesPerMarket \in Nat
  BY StakesAssumption
<1>3. /\ Lost \in Nat /\ Lost' \in Nat
      /\ HedgesPerMarket * Lost \in Nat /\ HedgesPerMarket * Lost' \in Nat
      /\ HedgesPerMarket * Lost <= HedgesPerMarket * Lost'
  BY <1>2, LossesAreCounted, OneMoreLoss
<1>4. HedgesCounted'
  BY <1>1, <1>3 DEF HedgerInv, HedgesCounted
<1> QED
  BY <1>4 DEF HedgerInv, HedgerTyped

\* A hedge that is sent keeps the books: in the memo if it was answered, else
\* behind a loss.
LEMMA SendingHedge ==
    ASSUME HedgerInv, Bounded, RolesTyped, Memo.hedgesPlaced < HedgesPerMarket,
           NEW o \in Outcomes, SendHedge(o)
    PROVE  /\ HedgerTyped' /\ HedgesCounted'
           /\ (~Answered(o) => UNCHANGED hedge)
<1> DEFINE w == W.market
           sent == IF o.done THEN 1 ELSE 0
           heard == IF Answered(o) THEN 1 ELSE 0
           add == HedgesPerMarket * Lost
           more == HedgesPerMarket * Lost'
<1>1. /\ w \in Markets
      /\ hedges' = [hedges EXCEPT ![w] = @ + sent]
      /\ hedge' = [hedge EXCEPT ![w].hedgesPlaced = @ + heard]
  BY DEF SendHedge, W, RolesTyped, View, Roles
<1>2. UNCHANGED spare \/ Fault
  BY DEF SendHedge, Comes
<1>3. o.done /\ ~Answered(o) => Fault
  BY DEF SendHedge, Comes, Ordinary, Outcomes, Answered
<1>4. /\ add \in Nat /\ more \in Nat /\ add <= more
      /\ (o.done /\ ~Answered(o) => more = add + HedgesPerMarket)
  <2>1. HedgesPerMarket \in Nat
    BY StakesAssumption
  <2>2. Lost \in Nat /\ (Lost' = Lost \/ Lost' = Lost + 1)
        /\ (o.done /\ ~Answered(o) => Lost' = Lost + 1)
    BY <1>2, <1>3, LossesAreCounted
  <2> QED
    BY <2>1, <2>2, OneMoreLoss
<1>5. \A m \in Markets : /\ hedges[m] \in Nat /\ hedge[m].hedgesPlaced \in 0..HedgesPerMarket
                         /\ hedges[m] <= hedge[m].hedgesPlaced + add
  BY DEF HedgerInv, HedgerTyped, HedgesCounted
<1>6. hedge[w].hedgesPlaced < HedgesPerMarket /\ HedgesPerMarket \in Nat
  BY StakesAssumption DEF Memo
<1>7. sent \in {0, 1} /\ heard \in {0, 1} /\ (sent = 1 /\ heard = 0 => more = add + HedgesPerMarket)
      /\ (~Answered(o) => heard = 0)
  BY <1>4, Outcome
<1> HIDE DEF w, sent, heard, add, more
<1>8. HedgerTyped'
  BY <1>1, <1>5, <1>6, <1>7 DEF HedgerInv, HedgerTyped
<1>9. ASSUME NEW m \in Markets PROVE hedges'[m] <= hedge'[m].hedgesPlaced + more
  <2>1. CASE m # w
    BY <1>1, <1>4, <1>5, <1>6, <2>1 DEF HedgerInv, HedgerTyped
  <2>2. CASE m = w
    <3>1. hedges'[m] = hedges[w] + sent /\ hedge'[m].hedgesPlaced = hedge[w].hedgesPlaced + heard
      BY <1>1, <2>2 DEF HedgerInv, HedgerTyped
    <3>2. hedges[w] \in Nat /\ hedge[w].hedgesPlaced \in Nat
          /\ hedges[w] <= hedge[w].hedgesPlaced + add
      BY <1>1, <1>5
    <3> QED
      BY <1>4, <1>6, <1>7, <3>1, <3>2
  <2> QED
    BY <2>1, <2>2
<1>10. ~Answered(o) => UNCHANGED hedge
  BY <1>1, <1>5, <1>7 DEF HedgerInv, HedgerTyped
<1> QED
  BY <1>8, <1>9, <1>10 DEF HedgesCounted, more

LEMMA HedgerKeeps ==
    ASSUME HedgerInv, Bounded, RolesTyped, HedgerStep PROVE HedgerInv'
<1>1. "risk_lp" \in Roles /\ {"idle", "flatten", "decide", "cancel", "hedge", "flush", "again"}
                              \subseteq TickStates
  BY DEF Roles, TickStates
<1>2. UNCHANGED spare \/ Fault
  BY FaultsAreSpent DEF Next
<1>3. CASE HedgerTick
  <2>1. pc'["risk_lp"] \in {"flatten", "decide"}
    BY <1>1, <1>3 DEF HedgerTick, Begin, RolesTyped
  <2> QED
    BY <1>2, <1>3, <2>1, HedgerAtRest DEF HedgerTick, memos, ghosts, HedgeRoom
<1>4. CASE HedgerFlattens
  <2>1. UNCHANGED <<hedge, hedges>>
    BY <1>4 DEF HedgerFlattens, FlattenOne, memos, ghosts
  <2>2. pc'["risk_lp"] \in {pc["risk_lp"], "decide", "again"} /\ view' = view
    BY <1>1, <1>4, Flattening DEF HedgerFlattens, At
  <2>3. pc'["risk_lp"] = "again" => pc["risk_lp"] = "flush"
    BY <1>1, <1>4, Flattening DEF HedgerFlattens, At
  <2>4. HedgeRoom'
    BY <2>1, <2>2, <2>3 DEF HedgerInv, HedgeRoom, Memo, W
  <2> QED
    BY <1>2, <2>1, <2>4, HedgerAtRest
<1>5. CASE HedgerDecides
  <2>1. UNCHANGED <<hedge, hedges>>
    BY <1>5 DEF HedgerDecides, memos, ghosts
  <2>2. \/ pc'["risk_lp"] \in {"idle", "cancel"}
        \/ pc'["risk_lp"] = "hedge" /\ view' = view /\ ~HedgedOut
    BY <1>1, <1>5 DEF HedgerDecides, Goto, RolesTyped
  <2>3. ~HedgedOut => Memo.hedgesPlaced < HedgesPerMarket
    BY StakesAssumption DEF HedgedOut, Memo, W, HedgerInv, HedgerTyped, RolesTyped, View, Roles
  <2>4. HedgeRoom'
    BY <2>1, <2>2, <2>3 DEF HedgeRoom, Memo, W
  <2> QED
    BY <1>2, <2>1, <2>4, HedgerAtRest
<1>6. CASE CancelMarket
  <2>1. PICK o \in Outcomes : /\ hedge' = [hedge EXCEPT ![W.market].cancelled = @ \/ Returned(o)]
                              /\ GotoAfter("risk_lp", o, "idle")
    BY <1>6 DEF CancelMarket
  <2>2. UNCHANGED hedges /\ pc'["risk_lp"] \in {"idle", "cancel"}
    BY <1>1, <1>6, <2>1 DEF CancelMarket, At, ghosts, GotoAfter, Goto, RolesTyped
  <2> DEFINE gone == hedge[W.market].cancelled \/ Returned(o)
  <2>3. gone \in BOOLEAN /\ hedge' = [hedge EXCEPT ![W.market].cancelled = gone]
    BY <2>1
  <2> HIDE DEF gone
  <2>4. HedgerTyped'
    BY <2>2, <2>3 DEF HedgerInv, HedgerTyped
  <2>5. \A m \in Markets : hedge'[m].hedgesPlaced = hedge[m].hedgesPlaced
    BY <2>3 DEF HedgerInv, HedgerTyped
  <2>6. HedgesCounted'
    <3>1. HedgesPerMarket \in Nat
      BY StakesAssumption
    <3>2. /\ HedgesPerMarket * Lost \in Nat /\ HedgesPerMarket * Lost' \in Nat
          /\ HedgesPerMarket * Lost <= HedgesPerMarket * Lost'
      BY <1>2, <3>1, LossesAreCounted, OneMoreLoss
    <3>3. \A m \in Markets : hedges[m] \in Nat /\ hedge[m].hedgesPlaced \in Nat
      BY <3>1 DEF HedgerInv, HedgerTyped
    <3> QED
      BY <2>2, <2>5, <3>2, <3>3 DEF HedgerInv, HedgesCounted
  <2> QED
    BY <2>2, <2>4, <2>6 DEF HedgerInv, HedgeRoom
<1>7. CASE PlaceHedge \/ PlaceHedgeAgain
  <2>1. Memo.hedgesPlaced < HedgesPerMarket
    BY <1>7 DEF PlaceHedge, PlaceHedgeAgain, At, HedgerInv, HedgeRoom
  <2>2. PICK o \in Outcomes :
           /\ SendHedge(o)
           /\ \/ /\ o.answer = "error"
                 /\ Begin("risk_lp", [W EXCEPT !.now = clock], "flush", "again")
              \/ GotoAfter("risk_lp", o, "idle")
    BY <1>7 DEF PlaceHedge, PlaceHedgeAgain
  <2>3. HedgerTyped' /\ HedgesCounted' /\ (~Answered(o) => UNCHANGED hedge)
    BY <2>1, <2>2, SendingHedge
  <2>4. CASE o.answer = "error"
             /\ Begin("risk_lp", [W EXCEPT !.now = clock], "flush", "again")
    <3>1. view'["risk_lp"].market = W.market /\ UNCHANGED hedge
      BY <1>1, <2>3, <2>4 DEF Begin, Answered, RolesTyped, W, View
    <3> QED
      BY <2>1, <2>3, <3>1 DEF HedgerInv, HedgeRoom, Memo, W
  <2>5. CASE GotoAfter("risk_lp", o, "idle")
    <3>1. pc'["risk_lp"] = "idle" \/ (~Answered(o) /\ UNCHANGED view)
      BY <1>1, <2>5, Outcome DEF GotoAfter, Goto, RolesTyped
    <3> QED
      BY <2>1, <2>3, <3>1 DEF HedgerInv, HedgeRoom, Memo, W
  <2> QED
    BY <2>2, <2>4, <2>5
<1> QED
  BY <1>3, <1>4, <1>5, <1>6, <1>7 DEF HedgerStep

LEMMA HedgerInvKept ==
    ASSUME HedgerInv, Bounded, RolesTyped, [Next]_vars PROVE HedgerInv'
<1>1. "risk_lp" \in Roles /\ (UNCHANGED spare \/ Fault)
  BY FaultsAreSpent DEF Roles
<1>2. ASSUME Untouched("risk_lp"), UNCHANGED <<hedge, hedges>> PROVE HedgerInv'
  <2>1. HedgeRoom'
    BY <1>2 DEF HedgerInv, HedgeRoom, Memo, W, Untouched
  <2> QED
    BY <1>1, <1>2, <2>1, HedgerAtRest
<1>3. CASE TraderStep
  BY <1>1, <1>2, <1>3, TraderAlone
<1>4. CASE OpsStep
  BY <1>1, <1>2, <1>4, OpsAlone
<1>5. ASSUME NEW r \in Roles, Crash(r), r # "risk_lp" PROVE HedgerInv'
  BY <1>1, <1>2, <1>5 DEF Crash, Untouched, RolesTyped
<1>6. CASE Crash("risk_lp")
  <2>1. /\ hedge' = [m \in Markets |-> [hedgesPlaced |-> 0, cancelled |-> FALSE]]
        /\ UNCHANGED hedges /\ Fault /\ pc'["risk_lp"] = "idle"
    BY <1>1, <1>6 DEF Crash, RolesTyped
  <2>2. HedgesPerMarket \in Nat /\ Lost \in Nat /\ Lost' = Lost + 1
    BY <2>1, StakesAssumption, LossesAreCounted
  <2>3. /\ HedgesPerMarket * Lost \in Nat
        /\ HedgesPerMarket * Lost' = HedgesPerMarket * Lost + HedgesPerMarket
    BY <2>2, OneMoreLoss
  <2>4. HedgerTyped'
    BY <2>1, <2>2 DEF HedgerInv, HedgerTyped
  <2>5. ASSUME NEW m \in Markets
        PROVE  hedges'[m] <= hedge'[m].hedgesPlaced + HedgesPerMarket * Lost'
    <3>1. hedges[m] \in Nat /\ hedge[m].hedgesPlaced \in 0..HedgesPerMarket
          /\ hedges[m] <= hedge[m].hedgesPlaced + HedgesPerMarket * Lost
      BY DEF HedgerInv, HedgerTyped, HedgesCounted
    <3>2. hedge'[m].hedgesPlaced = 0 /\ hedges'[m] = hedges[m]
      BY <2>1
    <3> QED
      BY <2>2, <2>3, <3>1, <3>2
  <2> QED
    BY <2>1, <2>4, <2>5 DEF HedgerInv, HedgesCounted, HedgeRoom
<1>7. CASE Second \/ Ages \/ Publishes \/ (\E m \in Markets : Schedules(m)) \/ UNCHANGED vars
  BY <1>2, <1>7 DEF Second, Ages, Publishes, Schedules, vars, memos, ghosts, Untouched
<1> QED
  BY <1>3, <1>4, <1>5, <1>6, <1>7, HedgerKeeps DEF Next

-----------------------------------------------------------------------------
(* The trader.                                                             *)

\* The memo says whether a bet was placed; each further one, and each one the
\* memo does not know of, has a loss behind it.
HonestCounted ==
    \A m \in Markets :
        /\ honestBets[m] <= Lost + (IF demo[m].honestPlaced THEN 1 ELSE 0)
        /\ demo[m].honestPlaced => honestBets[m] > 0
HonestDue == pc["trader"] = "honest" => ~Demo.honestPlaced
Tightened == pc["trader"] = "wrongBet" => policy.allow = "wrong"

TraderInv == HonestCounted /\ HonestDue /\ Tightened /\ DemosNeverTrade /\ PolicyRestored

\* Memos and counts as they are, with as many losses or more.
LEMMA HonestAtRest ==
    ASSUME HonestCounted, TraderTyped, Bounded, UNCHANGED spare \/ Fault, UNCHANGED honestBets,
           \A m \in Markets : demo'[m].honestPlaced = demo[m].honestPlaced
    PROVE  HonestCounted'
<1>1. \A m \in Markets : honestBets[m] \in Nat
  BY DEF TraderTyped
<1>2. Lost \in Nat /\ Lost' \in Nat /\ Lost <= Lost'
  BY LossesAreCounted
<1>3. ASSUME NEW m \in Markets
      PROVE  /\ honestBets'[m] <= Lost' + (IF demo'[m].honestPlaced THEN 1 ELSE 0)
             /\ demo'[m].honestPlaced => honestBets'[m] > 0
  <2>1. CASE demo[m].honestPlaced
    BY <1>1, <1>2, <2>1 DEF HonestCounted
  <2>2. CASE ~demo[m].honestPlaced
    BY <1>1, <1>2, <2>2 DEF HonestCounted
  <2> QED
    BY <2>1, <2>2
<1> QED
  BY <1>3 DEF HonestCounted

\* The allowlist as it is: a loss that was counted stays counted.
LEMMA PolicyAtRest ==
    ASSUME PolicyRestored, Bounded, UNCHANGED spare \/ Fault, UNCHANGED policy,
           \/ pc'["trader"] = pc["trader"]
           \/ pc["trader"] \notin {"tighten", "wrongBet", "restore"}
           \/ pc'["trader"] \in {"tighten", "wrongBet", "restore"}
           \/ Fault
    PROVE  PolicyRestored'
<1>1. Lost \in Nat /\ Lost' \in Nat /\ Lost <= Lost' /\ (Fault => Lost' > 0)
  BY LossesAreCounted
<1> QED
  BY <1>1 DEF PolicyRestored

LEMMA HonestBetKeeps ==
    ASSUME TraderInv, TraderTyped, RolesTyped, Bounded, PlaceHonestBet PROVE TraderInv'
<1> DEFINE w == V.market
<1>1. PICK o \in Outcomes :
         /\ Comes(o, TraderMayBet(w, BaseSize))
         /\ honestBets' = [honestBets EXCEPT ![w] = @ + IF o.done THEN 1 ELSE 0]
         /\ demo' = [demo EXCEPT ![w].honestPlaced = IF Returned(o) THEN HonestPlaced(o) ELSE @]
         /\ GotoAfter("trader", o, DemoAfter(demo'[w], V))
  BY DEF PlaceHonestBet
<1>2. /\ w \in Markets /\ pc["trader"] = "honest" /\ "trader" \in Roles
      /\ UNCHANGED <<policy, demoTraded>>
  BY DEF PlaceHonestBet, At, V, RolesTyped, View, Roles
<1>3. UNCHANGED spare \/ Fault
  BY <1>1 DEF Comes
<1>4. Lost \in Nat /\ Lost' \in Nat /\ Lost <= Lost' /\ (Fault => Lost' = Lost + 1)
  BY <1>3, LossesAreCounted
<1>5. o.done /\ ~Answered(o) => Fault
  BY <1>1 DEF Comes, Ordinary, Answered
<1>6. ~demo[w].honestPlaced
  BY <1>2 DEF TraderInv, HonestDue, Demo
<1>7. demo'[w].honestPlaced <=> Answered(o)
  <2>1. CASE Returned(o)
    BY <1>1, <1>2, <2>1 DEF TraderTyped, Memos, HonestPlaced
  <2>2. CASE ~Returned(o)
    <3>1. ~Answered(o) /\ demo'[w].honestPlaced = demo[w].honestPlaced
      BY <1>1, <1>2, <2>2, Outcome DEF TraderTyped, Memos
    <3> QED
      BY <1>6, <3>1
  <2> QED
    BY <2>1, <2>2
<1>8. \A m \in Markets : m # w => /\ demo'[m].honestPlaced = demo[m].honestPlaced
                                  /\ honestBets'[m] = honestBets[m]
  BY <1>1, <1>2 DEF TraderTyped
<1>9. honestBets'[w] = honestBets[w] + (IF o.done THEN 1 ELSE 0)
      /\ \A m \in Markets : honestBets[m] \in Nat
  BY <1>1, <1>2 DEF TraderTyped
<1>10. honestBets[w] <= Lost
  BY <1>2, <1>4, <1>6, <1>9 DEF TraderInv, HonestCounted
<1>11. ASSUME NEW m \in Markets
       PROVE  /\ honestBets'[m] <= Lost' + (IF demo'[m].honestPlaced THEN 1 ELSE 0)
              /\ demo'[m].honestPlaced => honestBets'[m] > 0
  <2>1. CASE m # w /\ demo[m].honestPlaced
    BY <1>4, <1>8, <1>9, <2>1 DEF TraderInv, HonestCounted
  <2>2. CASE m # w /\ ~demo[m].honestPlaced
    BY <1>4, <1>8, <1>9, <2>2 DEF TraderInv, HonestCounted
  <2>3. CASE m = w /\ Answered(o)
    <3>1. o.done
      BY <2>3, Outcome
    <3> HIDE DEF w
    <3> QED
      BY <1>2, <1>4, <1>7, <1>9, <1>10, <2>3, <3>1
  <2>4. CASE m = w /\ ~Answered(o) /\ o.done
    <3> HIDE DEF w
    <3> QED
      BY <1>2, <1>4, <1>5, <1>7, <1>9, <1>10, <2>4
  <2>5. CASE m = w /\ ~Answered(o) /\ ~o.done
    <3> HIDE DEF w
    <3> QED
      BY <1>2, <1>4, <1>7, <1>9, <1>10, <2>5
  <2> QED
    BY <2>1, <2>2, <2>3, <2>4, <2>5
<1>12. HonestCounted'
  BY <1>11 DEF HonestCounted
<1>13. /\ pc'["trader"] \in {"honest", "idle", "overCap", "tighten", "cancel"}
       /\ (pc'["trader"] = "honest" => ~Returned(o) /\ UNCHANGED view)
  BY <1>1, <1>2, DemoStates DEF GotoAfter, Goto, RolesTyped
<1>14. HonestDue'
  BY <1>7, <1>13, Outcome DEF HonestDue, Demo, V
<1>15. PolicyRestored'
  BY <1>2, <1>3, PolicyAtRest DEF TraderInv
<1> QED
  BY <1>2, <1>12, <1>13, <1>14, <1>15 DEF TraderInv, Tightened, DemosNeverTrade

\* The scripted steps: none of them touches the honest bet or its memo.
LEMMA DemoStepKeeps ==
    ASSUME TraderInv, TraderTyped, CapKnown, RolesTyped, Bounded,
           OverCapBet \/ TightenAllowlist \/ WrongAllowlistBet \/ RestoreAllowlist
           \/ CancelAfterDemo
    PROVE  TraderInv'
<1>1. /\ V.market \in Markets /\ "trader" \in Roles /\ V.cap \in Nat
      /\ policy.cap \in Nat /\ BaseSize \in Nat
  BY StakesAssumption DEF V, RolesTyped, View, Roles, TraderTyped, PolicyTyped
<1>2. UNCHANGED spare \/ Fault
  BY FaultsAreSpent DEF Next, TraderStep
<1>3. Lost \in Nat /\ Lost' \in Nat /\ Lost <= Lost' /\ (Fault => Lost' > 0)
  BY <1>2, LossesAreCounted
<1>4. HonestCounted'
  <2>1. \/ demo' = [demo EXCEPT ![V.market].overCapAttempted = TRUE]
        \/ demo' = [demo EXCEPT ![V.market].wrongAllowlistAttempted = TRUE]
        \/ demo' = [demo EXCEPT ![V.market].flattenedAfterDemo = TRUE]
        \/ UNCHANGED demo
    BY Zenon DEF OverCapBet, TightenAllowlist, WrongAllowlistBet, RestoreAllowlist,
       CancelAfterDemo, memos
  <2>2. \A m \in Markets : demo'[m].honestPlaced = demo[m].honestPlaced
    BY <1>1, <2>1 DEF TraderTyped, Memos
  <2>3. UNCHANGED honestBets
    BY DEF OverCapBet, TightenAllowlist, WrongAllowlistBet, RestoreAllowlist,
       CancelAfterDemo, ghosts
  <2> QED
    BY <1>2, <2>2, <2>3, HonestAtRest DEF TraderInv
<1>5. CASE OverCapBet
  <2>1. PICK o \in Outcomes :
           /\ Comes(o, TraderMayBet(V.market, V.cap + 1))
           /\ demoTraded' = (demoTraded \/ (o.done /\ V.known))
           /\ GotoAfter("trader", o, DemoAfter(demo'[V.market], V))
    BY <1>5 DEF OverCapBet
  <2>2. ~(o.done /\ V.known)
    BY <1>1, <1>5, <2>1 DEF OverCapBet, At, CapKnown, Comes, TraderMayBet, Admits
  <2>3. DemosNeverTrade'
    BY <2>1, <2>2 DEF TraderInv, DemosNeverTrade
  <2>4. pc["trader"] = "overCap" /\ UNCHANGED policy
    BY <1>5 DEF OverCapBet, At
  <2>5. pc'["trader"] \in {"overCap", "idle", "tighten", "cancel"}
    BY <1>1, <2>1, <2>4, DemoStates DEF GotoAfter, Goto, RolesTyped
  <2>6. PolicyRestored'
    BY <1>2, <2>4, PolicyAtRest DEF TraderInv
  <2> QED
    BY <1>4, <2>3, <2>5, <2>6 DEF TraderInv, HonestDue, Tightened
<1>6. CASE TightenAllowlist
  <2>1. PICK o \in Outcomes :
           /\ SetsPolicy("wrong", o)
           /\ GotoAfter("trader", o, IF GoesOnToBet(o) THEN "wrongBet"
                                      ELSE DemoAfter(demo'[V.market], V))
    BY <1>6 DEF TightenAllowlist
  <2>2. pc["trader"] = "tighten" /\ UNCHANGED demoTraded
    BY <1>6 DEF TightenAllowlist, At, ghosts
  <2>3. /\ policy'.allow = (IF o.done THEN "wrong" ELSE policy.allow)
        /\ (~o.done \/ ~Answered(o) => Fault)
    BY <2>1, <2>2, SettingPolicy DEF TraderTyped
  <2>4. CASE Answered(o)
    <3>1. pc'["trader"] = "wrongBet" /\ policy'.allow = "wrong"
      BY <1>1, <2>1, <2>3, <2>4, Outcome DEF GotoAfter, Goto, GoesOnToBet, RolesTyped
    <3> QED
      BY <1>4, <2>2, <3>1 DEF TraderInv, HonestDue, Tightened, DemosNeverTrade, PolicyRestored
  <2>5. CASE ~Answered(o)
    <3>1. pc'["trader"] \in {"tighten", "idle", "overCap", "cancel"}
      BY <1>1, <2>1, <2>2, <2>5, DemoStates DEF GotoAfter, Goto, GoesOnToBet, RolesTyped
    <3>2. Lost' > 0
      BY <1>3, <2>3, <2>5
    <3> QED
      BY <1>4, <2>2, <3>1, <3>2 DEF TraderInv, HonestDue, Tightened, DemosNeverTrade, PolicyRestored
  <2> QED
    BY <2>4, <2>5
<1>7. CASE WrongAllowlistBet
  <2>1. PICK o \in Outcomes :
           /\ Comes(o, TraderMayBet(V.market, Min({BaseSize, V.cap})))
           /\ demoTraded' = (demoTraded \/ o.done)
           /\ GotoAfter("trader", o, "restore")
    BY <1>7 DEF WrongAllowlistBet
  <2>2. pc["trader"] = "wrongBet" /\ UNCHANGED policy
    BY <1>7 DEF WrongAllowlistBet, At
  <2>3. policy.allow = "wrong"
    BY <2>2 DEF TraderInv, Tightened
  <2>4. ~o.done
    BY <2>1, <2>3 DEF Comes, TraderMayBet, Admits
  <2>5. pc'["trader"] \in {"wrongBet", "restore"}
    BY <1>1, <2>1, <2>2 DEF GotoAfter, Goto, RolesTyped
  <2> QED
    BY <1>4, <2>1, <2>2, <2>3, <2>4, <2>5
    DEF TraderInv, HonestDue, Tightened, DemosNeverTrade, PolicyRestored
<1>8. CASE RestoreAllowlist
  <2>1. PICK o \in Outcomes :
           SetsPolicy("feed", o) /\ GotoAfter("trader", o, DemoAfter(Demo, V))
    BY <1>8 DEF RestoreAllowlist, RestoredList
  <2>2. pc["trader"] = "restore" /\ UNCHANGED demoTraded
    BY <1>8 DEF RestoreAllowlist, At, ghosts
  <2>3. /\ policy'.allow = (IF o.done THEN "feed" ELSE policy.allow)
        /\ (~o.done => Fault)
    BY <2>1, <2>2, SettingPolicy DEF TraderTyped
  <2>4. pc'["trader"] \in {"restore", "idle", "overCap", "tighten", "cancel"}
    BY <1>1, <2>1, <2>2, DemoStates DEF GotoAfter, Goto, RolesTyped
  <2>5. PolicyRestored'
    BY <1>3, <2>3 DEF PolicyRestored
  <2> QED
    BY <1>4, <2>2, <2>4, <2>5 DEF TraderInv, HonestDue, Tightened, DemosNeverTrade
<1>9. CASE CancelAfterDemo
  <2>1. pc["trader"] = "cancel" /\ UNCHANGED <<policy, demoTraded>>
    BY <1>9 DEF CancelAfterDemo, At, ghosts
  <2>2. pc'["trader"] \in {"cancel", "idle"}
    BY <1>1, <1>9, <2>1 DEF CancelAfterDemo, GotoAfter, Goto, RolesTyped
  <2>3. PolicyRestored'
    BY <1>2, <2>1, PolicyAtRest DEF TraderInv
  <2> QED
    BY <1>4, <2>1, <2>2, <2>3 DEF TraderInv, HonestDue, Tightened, DemosNeverTrade
<1> QED
  BY <1>5, <1>6, <1>7, <1>8, <1>9

LEMMA TraderInvKept ==
    ASSUME TraderInv, TraderTyped, CapKnown, RolesTyped, Bounded, [Next]_vars
    PROVE  TraderInv'
<1>1. "trader" \in Roles /\ (UNCHANGED spare \/ Fault)
  BY FaultsAreSpent DEF Roles
<1>2. ASSUME UNCHANGED <<policy, demo, honestBets, demoTraded>>,
             Untouched("trader") \/ (pc'["trader"] = "idle" /\ Fault)
      PROVE  TraderInv'
  <2>1. HonestCounted' /\ PolicyRestored'
    BY <1>1, <1>2, HonestAtRest, PolicyAtRest DEF TraderInv, Untouched
  <2> QED
    BY <1>2, <2>1 DEF TraderInv, HonestDue, Demo, V, Tightened, DemosNeverTrade, Untouched
<1>3. CASE TraderTick \/ TraderFlattens
  <2>1. UNCHANGED <<policy, demo, honestBets, demoTraded>>
    BY <1>3 DEF TraderTick, TraderFlattens, FlattenOne, chain, memos, ghosts
  <2>2. pc["trader"] \in {"idle", "flatten"}
    BY <1>3 DEF TraderTick, TraderFlattens, At
  <2>3. /\ pc'["trader"] \in {"idle", "flatten", "honest", "overCap", "tighten", "cancel"}
        /\ (pc'["trader"] = "honest" => ~demo[view'["trader"].market].honestPlaced)
    <3>1. CASE TraderTick
      BY <3>1, TraderTicks, DemoStates DEF TraderTyped
    <3>2. CASE TraderFlattens
      <4>1. PICK m \in Markets : FlattenOne("trader", m, FirstDemo(Demo, V))
        BY <3>2 DEF TraderFlattens
      <4>2. FirstDemo(Demo, V) \in TickStates
        BY DemoStates DEF TickStates
      <4>3. pc'["trader"] \in {"flatten", FirstDemo(Demo, V)}
            /\ (pc'["trader"] # "idle" => view' = view) /\ pc["trader"] = "flatten"
        BY <1>1, <3>2, <4>1, <4>2, Flattening DEF TraderFlattens, At
      <4> QED
        BY <4>3, DemoStates DEF Demo, V
    <3> QED
      BY <1>3, <3>1, <3>2
  <2>4. HonestCounted' /\ PolicyRestored'
    BY <1>1, <2>1, <2>2, HonestAtRest, PolicyAtRest DEF TraderInv
  <2> QED
    BY <2>1, <2>3, <2>4 DEF TraderInv, HonestDue, Demo, V, Tightened, DemosNeverTrade
<1>4. CASE HedgerStep
  BY <1>1, <1>2, <1>4, HedgerAlone
<1>5. CASE OpsStep
  BY <1>1, <1>2, <1>5, OpsAlone
<1>6. ASSUME NEW r \in Roles, Crash(r), r # "trader" PROVE TraderInv'
  BY <1>1, <1>2, <1>6 DEF Crash, Untouched, RolesTyped, chain
<1>7. CASE Crash("trader")
  <2>1. /\ demo' = [m \in Markets |-> NoMemo] /\ UNCHANGED <<policy, honestBets, demoTraded>>
        /\ Fault /\ pc'["trader"] = "idle"
    BY <1>1, <1>7 DEF Crash, RolesTyped, chain
  <2>2. Lost \in Nat /\ Lost' = Lost + 1
    BY <2>1, LossesAreCounted
  <2>3. ASSUME NEW m \in Markets
        PROVE  honestBets'[m] <= Lost' /\ ~demo'[m].honestPlaced
    <3>1. honestBets[m] \in Nat /\ honestBets[m] <= Lost + 1
      <4>1. CASE demo[m].honestPlaced
        BY <2>2, <4>1 DEF TraderInv, HonestCounted, TraderTyped
      <4>2. CASE ~demo[m].honestPlaced
        BY <2>2, <4>2 DEF TraderInv, HonestCounted, TraderTyped
      <4> QED
        BY <4>1, <4>2
    <3> QED
      BY <2>1, <2>2, <3>1 DEF NoMemo
  <2>4. HonestCounted'
    <3>1. \A m \in Markets : honestBets'[m] \in Nat
      BY <2>1 DEF TraderTyped
    <3> QED
      BY <2>2, <2>3, <3>1 DEF HonestCounted
  <2>5. PolicyRestored'
    BY <1>1, <2>1, PolicyAtRest DEF TraderInv
  <2> QED
    BY <2>1, <2>4, <2>5 DEF TraderInv, HonestDue, Tightened, DemosNeverTrade
<1>8. CASE Second \/ Ages \/ Publishes \/ (\E m \in Markets : Schedules(m)) \/ UNCHANGED vars
  BY <1>2, <1>8 DEF Second, Ages, Publishes, Schedules, vars, chain, memos, ghosts, Untouched
<1> QED
  BY <1>3, <1>4, <1>5, <1>6, <1>7, <1>8, HonestBetKeeps, DemoStepKeeps DEF Next, TraderStep

-----------------------------------------------------------------------------
(* market-ops and the markets it halts by force.                           *)

ForceTyped ==
    /\ force = {} \/ \E m \in Markets, t \in Nat : force = {[market |-> m, until |-> t]}
    /\ seen \subseteq Markets /\ promised \in [Markets -> Nat]

\* A promise is kept of halted markets only, among those market-ops looks at; as
\* long as one runs, the memo runs as long or longer, and none is for longer than
\* a forced halt begun now.  A call to resume is made when none runs any more.
Promise ==
    /\ \A m \in Markets : promised[m] > 0 => status[m] = "halted" /\ m \in Newest
    /\ \A m \in Markets : promised[m] > clock => \E f \in force : f.until >= promised[m]
    /\ \A m \in Markets : promised[m] <= clock + ForceSecs
    /\ \A f \in force : f.until <= clock + ForceSecs
CallsInTime ==
    /\ pc["market_ops"] = "halt" => Ops.market \in Newest
    /\ pc["market_ops"] = "resume" => promised[Ops.market] <= clock

OpsInv == ForceTyped /\ Promise /\ CallsInTime

\* Steps of the others: time passes, and no halted market changes its status.
LEMMA OpsAtRest ==
    ASSUME OpsInv, ChainTyped, RolesTyped, Bounded,
           UNCHANGED <<force, seen, promised>>, Untouched("market_ops"),
           UNCHANGED clock \/ clock' = clock + 1,
           \A m \in Markets : status[m] = "halted" => status'[m] = "halted"
    PROVE  OpsInv'
<1>1. clock \in Nat /\ clock' \in Nat /\ clock <= clock' /\ ForceSecs \in Nat
  BY TimersAssumption DEF Bounded
<1>2. \A m \in Markets : promised[m] \in Nat
  BY DEF OpsInv, ForceTyped
<1>3. \A f \in force : f.until \in Nat
  BY DEF OpsInv, ForceTyped
<1>4. Promise'
  BY <1>1, <1>2, <1>3 DEF OpsInv, Promise
<1>5. Ops.market \in Markets
  BY DEF Ops, RolesTyped, View, Roles
<1>6. CallsInTime'
  BY <1>1, <1>2, <1>5 DEF OpsInv, CallsInTime, Ops, Untouched
<1> QED
  BY <1>4, <1>6 DEF OpsInv, ForceTyped

\* A step of market-ops after which nothing is promised beyond now.
LEMMA NothingFoundNothingPromised ==
    ASSUME OpsInv, FindHaltedMarket = {} PROVE \A m \in Markets : promised[m] = 0
<1>1. \A m \in Newest : status[m] # "halted"
  BY DEF FindHaltedMarket, NewestWith
<1> QED
  BY <1>1 DEF OpsInv, Promise, ForceTyped

LEMMA OpsLooksKeeps ==
    ASSUME OpsInv, ChainTyped, RolesTyped, Bounded, OpsLooks PROVE OpsInv'
<1>1. clock \in Nat /\ ForceSecs \in Nat /\ clock + ForceSecs \in Nat
      /\ "market_ops" \in Roles /\ {"idle", "halt", "resume"} \subseteq TickStates
  BY TimersAssumption DEF Bounded, Roles, TickStates
<1>2. UNCHANGED <<status, clock>>
  BY DEF OpsLooks, chain
<1>3. \A m \in Markets : promised[m] \in Nat
  BY DEF OpsInv, ForceTyped
<1>4. \A s : NewestWith(s) \subseteq Newest /\ NewestWith(s) \subseteq Markets
  BY FoundIsThere
<1>5. seen' \subseteq Markets
  BY <1>4 DEF OpsLooks, OpsFindsNothing, OpsForcesHalt, OpsEndsForce, OpsFollowsOracle, Forced,
     Unseen, FindActiveOpenMarket, OpsInv, ForceTyped
<1>6. CASE \E unread \in BOOLEAN : OpsFindsNothing(unread)
  <2>1. promised' = [m \in Markets |-> 0] \/ (UNCHANGED promised /\ FindHaltedMarket = {})
    BY <1>6 DEF OpsFindsNothing
  <2>2. \A m \in Markets : promised'[m] = 0
    BY <2>1, NothingFoundNothingPromised
  <2>3. promised' \in [Markets -> Nat]
    BY <2>1 DEF OpsInv, ForceTyped
  <2>4. force' = {} /\ pc'["market_ops"] = "idle"
    BY <1>1, <1>6, Going DEF OpsFindsNothing
  <2>5. Promise'
    BY <1>1, <1>2, <2>2, <2>4 DEF Promise
  <2> QED
    BY <1>5, <2>3, <2>4, <2>5 DEF OpsInv, ForceTyped, CallsInTime
<1>7. CASE OpsForcesHalt
  <2>1. PICK m \in Forced : /\ force' = {[market |-> m, until |-> clock + ForceSecs]}
                            /\ Call(m, "halt") /\ UNCHANGED promised
    BY <1>7 DEF OpsForcesHalt
  <2>2. m \in Newest /\ m \in Markets
    BY <1>4 DEF Forced, Unseen, FindActiveOpenMarket
  <2>3. pc'["market_ops"] = "halt" /\ Ops'.market = m
    BY <1>1, <2>1, <2>2, Calling DEF Ops
  <2>4. Promise'
    BY <1>1, <1>2, <2>1 DEF OpsInv, Promise
  <2>5. ForceTyped'
    BY <1>1, <1>5, <2>1, <2>2 DEF OpsInv, ForceTyped
  <2> QED
    BY <2>2, <2>3, <2>4, <2>5 DEF OpsInv, CallsInTime
<1>8. CASE OpsEndsForce
  <2>1. PICK f \in force : clock >= f.until
    BY <1>8 DEF OpsEndsForce, Elapsed
  <2>2. force = {f} /\ f.until \in Nat
    BY <2>1 DEF OpsInv, ForceTyped
  <2>3. \A m \in Markets : promised[m] <= clock
    BY <1>1, <1>3, <2>1, <2>2 DEF OpsInv, Promise
  <2>4. force' = {} /\ UNCHANGED promised
    BY <1>8 DEF OpsEndsForce
  <2>5. \/ pc'["market_ops"] = "idle"
        \/ pc'["market_ops"] = "resume" /\ Ops'.market \in Markets
    BY <1>1, <1>4, <1>8, Calling, Going DEF OpsEndsForce, Ops, FindHaltedMarket
  <2>6. Promise'
    BY <1>1, <1>2, <1>3, <2>3, <2>4 DEF OpsInv, Promise
  <2> QED
    BY <1>2, <1>5, <2>3, <2>4, <2>5, <2>6 DEF OpsInv, ForceTyped, CallsInTime
<1>9. CASE OpsFollowsOracle
  <2>1. UNCHANGED <<force, promised>>
    BY <1>9 DEF OpsFollowsOracle
  <2>2. \/ pc'["market_ops"] = "idle"
        \/ pc'["market_ops"] = "halt" /\ Ops'.market \in Newest
        \/ pc'["market_ops"] = "resume" /\ Ops'.market \in Markets /\ force = {}
    <3>1. \/ Goto("market_ops", "idle")
          \/ \E m \in FindActiveOpenMarket : Call(m, "halt")
          \/ \E m \in Resumable : Call(m, "resume")
      BY <1>9 DEF OpsFollowsOracle
    <3>2. CASE Goto("market_ops", "idle")
      BY <1>1, <3>2, Going
    <3>3. CASE \E m \in FindActiveOpenMarket : Call(m, "halt")
      BY <1>1, <1>4, <3>3, Calling DEF FindActiveOpenMarket, Ops
    <3>4. CASE \E m \in Resumable : Call(m, "resume")
      BY <1>1, <1>4, <3>4, Calling DEF Resumable, FindHaltedMarket, Ops
    <3> QED
      BY <3>1, <3>2, <3>3, <3>4
  <2>3. force = {} => \A m \in Markets : promised[m] <= clock
    BY <1>1, <1>3 DEF OpsInv, Promise
  <2>4. Promise'
    BY <1>2, <2>1 DEF OpsInv, Promise
  <2> QED
    BY <1>2, <1>5, <2>1, <2>2, <2>3, <2>4 DEF OpsInv, ForceTyped, CallsInTime
<1> QED
  BY <1>6, <1>7, <1>8, <1>9 DEF OpsLooks

LEMMA OpsKeeps ==
    ASSUME OpsInv, ChainTyped, RolesTyped, Bounded, OpsStep PROVE OpsInv'
<1>1. clock \in Nat /\ ForceSecs \in Nat /\ "market_ops" \in Roles /\ "idle" \in TickStates
      /\ {"look", "close"} \subseteq TickStates
  BY TimersAssumption DEF Bounded, Roles, TickStates
<1>2. Ops.market \in Markets
  BY DEF Ops, RolesTyped, View, Roles
<1>3. \A m \in Markets : promised[m] \in Nat
  BY DEF OpsInv, ForceTyped
<1>4. CASE OpsTick
  <2>1. UNCHANGED <<clock, status, force, seen, promised>>
    BY <1>4 DEF OpsTick, chain, memos, ghosts
  <2>2. pc'["market_ops"] \in {"look", "close"}
    <3>1. \E l \in {"look", "close"} : Goto("market_ops", l)
      BY <1>4 DEF OpsTick
    <3> QED
      BY <1>1, <3>1, Going
  <2> QED
    BY <2>1, <2>2 DEF OpsInv, ForceTyped, Promise, CallsInTime
<1>5. CASE TryCloseMarketWhenDue
  <2> DEFINE m == Min(todo["market_ops"])
  <2>1. PICK o \in Outcomes :
           /\ SetsStatus(m, MayClose(m), "closed", o)
           /\ promised' = [promised EXCEPT ![m] = IF o.done THEN 0 ELSE @]
    BY <1>5 DEF TryCloseMarketWhenDue
  <2> HIDE DEF m
  <2>2. UNCHANGED <<clock, force, seen>>
    BY <1>5 DEF TryCloseMarketWhenDue, memos
  <2>3. pc'["market_ops"] \in {"look", "close"}
    <3>1. \E l \in {"look", "close"} : Goto("market_ops", l)
      BY <1>5 DEF TryCloseMarketWhenDue
    <3> QED
      BY <1>1, <3>1, Going
  <2>4. \A n \in Markets : \/ promised'[n] = promised[n] /\ status'[n] = status[n]
                           \/ promised'[n] = 0
    BY <2>1 DEF SetsStatus, ChainTyped, OpsInv, ForceTyped
  <2>5. promised' \in [Markets -> Nat]
    BY <2>1 DEF OpsInv, ForceTyped
  <2>6. Promise'
    BY <1>1, <2>2, <2>4 DEF OpsInv, Promise
  <2> QED
    BY <2>2, <2>3, <2>5, <2>6 DEF OpsInv, ForceTyped, CallsInTime
<1>6. CASE HaltMarket
  <2>1. PICK o \in Outcomes :
           /\ SetsStatus(Ops.market, MayHalt(Ops.market), "halted", o)
           /\ promised' = [m \in Markets |->
                 IF o.done /\ m = Ops.market /\ (\E f \in force : f.market = m)
                 THEN Max({f.until : f \in force}) ELSE promised[m]]
           /\ GotoAfter("market_ops", o, "idle")
    BY <1>6 DEF HaltMarket
  <2>2. UNCHANGED <<clock, force, seen>> /\ pc["market_ops"] = "halt"
    BY <1>6 DEF HaltMarket, At, memos
  <2>3. Ops.market \in Newest
    BY <2>2 DEF OpsInv, CallsInTime
  <2>4. pc'["market_ops"] = "idle" \/ (pc'["market_ops"] = "halt" /\ UNCHANGED view)
    BY <1>1, <2>1, <2>2 DEF GotoAfter, Goto, RolesTyped
  <2>5. \A f \in force : Max({g.until : g \in force}) = f.until /\ f.until \in Nat
    <3>1. ASSUME NEW f \in force PROVE {g.until : g \in force} = {f.until} /\ f.until \in Nat
      BY <3>1 DEF OpsInv, ForceTyped
    <3>2. \A t \in Nat : Max({t}) = t
      BY DEF Max
    <3> QED
      BY <3>1, <3>2
  <2>6. \A n \in Markets :
           \/ promised'[n] = promised[n] /\ (status[n] = "halted" => status'[n] = "halted")
           \/ /\ status'[n] = "halted" /\ n \in Newest
              /\ \E f \in force : promised'[n] = f.until
    BY <2>1, <2>3, <2>5 DEF SetsStatus, ChainTyped
  <2>7. promised' \in [Markets -> Nat]
    <3>1. \A n \in Markets : promised'[n] \in Nat
      BY <1>3, <2>5, <2>6
    <3> QED
      BY <2>1, <3>1
  <2>8. Promise'
    <3>1. ASSUME NEW n \in Markets
          PROVE  /\ promised'[n] > 0 => status'[n] = "halted" /\ n \in Newest
                 /\ promised'[n] > clock => \E f \in force : f.until >= promised'[n]
                 /\ promised'[n] <= clock + ForceSecs
      <4>1. CASE promised'[n] = promised[n] /\ (status[n] = "halted" => status'[n] = "halted")
        BY <4>1 DEF OpsInv, Promise
      <4>2. ASSUME NEW f \in force, promised'[n] = f.until, status'[n] = "halted", n \in Newest
            PROVE  /\ promised'[n] > clock => \E g \in force : g.until >= promised'[n]
                   /\ promised'[n] <= clock + ForceSecs
        <5>1. f.until \in Nat
          BY <2>5
        <5>2. f.until >= promised'[n] /\ f.until <= clock + ForceSecs
          BY <4>2, <5>1 DEF OpsInv, Promise
        <5> QED
          BY <4>2, <5>2
      <4> QED
        BY <2>6, <4>1, <4>2
    <3>2. \A f \in force : f.until <= clock + ForceSecs
      BY DEF OpsInv, Promise
    <3> QED
      BY <2>2, <3>1, <3>2 DEF Promise, Newest
  <2>9. CallsInTime'
    BY <2>3, <2>4 DEF CallsInTime, Ops
  <2> QED
    BY <2>2, <2>7, <2>8, <2>9 DEF OpsInv, ForceTyped
<1>7. CASE ResumeMarket
  <2>1. PICK o \in Outcomes :
           /\ SetsStatus(Ops.market, MayResume(Ops.market), "open", o)
           /\ promised' = [promised EXCEPT ![Ops.market] = IF o.done THEN 0 ELSE @]
           /\ GotoAfter("market_ops", o, "idle")
    BY <1>7 DEF ResumeMarket
  <2>2. UNCHANGED <<clock, force, seen>> /\ pc["market_ops"] = "resume"
    BY <1>7 DEF ResumeMarket, At, memos
  <2>3. pc'["market_ops"] = "idle" \/ (pc'["market_ops"] = "resume" /\ UNCHANGED view)
    BY <1>1, <2>1, <2>2 DEF GotoAfter, Goto, RolesTyped
  <2>4. \A n \in Markets : \/ promised'[n] = promised[n] /\ status'[n] = status[n]
                           \/ promised'[n] = 0
    BY <2>1 DEF SetsStatus, ChainTyped, OpsInv, ForceTyped
  <2>5. promised' \in [Markets -> Nat]
    BY <2>1 DEF OpsInv, ForceTyped
  <2>6. Promise'
    BY <1>1, <2>2, <2>4 DEF OpsInv, Promise
  <2>7. CallsInTime'
    BY <1>1, <1>2, <2>2, <2>3, <2>4 DEF OpsInv, CallsInTime, Ops
  <2> QED
    BY <2>2, <2>5, <2>6, <2>7 DEF OpsInv, ForceTyped
<1> QED
  BY <1>4, <1>5, <1>6, <1>7, OpsLooksKeeps DEF OpsStep

LEMMA OpsInvKept ==
    ASSUME OpsInv, ChainTyped, RolesTyped, Bounded, [Next]_vars PROVE OpsInv'
<1>1. "market_ops" \in Roles /\ (UNCHANGED clock \/ clock' = clock + 1)
  BY TimePasses DEF Roles
<1>2. CASE TraderStep
  BY <1>1, <1>2, TraderAlone, OpsAtRest
<1>3. CASE HedgerStep
  BY <1>1, <1>3, HedgerAlone, OpsAtRest
<1>4. ASSUME NEW r \in Roles, Crash(r), r # "market_ops" PROVE OpsInv'
  BY <1>1, <1>4, OpsAtRest DEF Crash, chain, Untouched, RolesTyped
<1>5. CASE Crash("market_ops")
  <2>1. force' = {} /\ seen' = {} /\ promised' = [m \in Markets |-> 0]
        /\ pc'["market_ops"] = "idle" /\ UNCHANGED clock
    BY <1>1, <1>5 DEF Crash, RolesTyped
  <2> QED
    BY <2>1, TimersAssumption DEF OpsInv, ForceTyped, Promise, CallsInTime, Bounded
<1>6. CASE \E m \in Markets : Schedules(m)
  <2>1. \A m \in Markets : status[m] = "halted" => status'[m] = "halted"
    BY <1>6 DEF Schedules, ChainTyped
  <2> QED
    BY <1>1, <1>6, <2>1, OpsAtRest DEF Schedules, memos, ghosts, Untouched
<1>7. CASE Second \/ Ages \/ Publishes \/ UNCHANGED vars
  BY <1>1, <1>7, OpsAtRest DEF Second, Ages, Publishes, vars, chain, memos, ghosts, Untouched
<1> QED
  BY <1>2, <1>3, <1>4, <1>5, <1>6, <1>7, OpsKeeps DEF Next

-----------------------------------------------------------------------------
(* The theorems.                                                           *)

TradingInv ==
    /\ Bounded /\ RolesTyped /\ ChainTyped /\ TraderTyped /\ CapKnown
    /\ HedgerInv /\ TraderInv /\ OpsInv

LEMMA InitTrading == Init => TradingInv
<1> SUFFICES ASSUME Init PROVE TradingInv
  OBVIOUS
<1>1. Bounded /\ Lost = 0
  BY WindowsAssumption, DisturbancesAssumption DEF Init, Bounded, Lost
<1>2. RolesTyped
  BY EmptyView DEF Init, RolesTyped, TickStates
<1>3. ChainTyped
  BY DEF Init, ChainTyped
<1>4. TraderTyped
  BY DEF Init, TraderTyped, PolicyTyped, Memos, NoMemo
<1>5. \A r \in Roles : pc[r] = "idle"
  BY DEF Init
<1>6. pc["trader"] = "idle" /\ pc["risk_lp"] = "idle" /\ pc["market_ops"] = "idle"
  BY <1>5 DEF Roles
<1>7. HedgerInv
  <2>1. HedgesPerMarket \in Nat /\ HedgesPerMarket * Lost = 0
    BY <1>1, StakesAssumption
  <2>2. \A m \in Markets : hedges[m] = 0 /\ hedge[m].hedgesPlaced = 0
    BY DEF Init
  <2>3. HedgerTyped
    BY <2>1 DEF Init, HedgerTyped
  <2>4. HedgesCounted
    BY <2>1, <2>2 DEF HedgesCounted
  <2> QED
    BY <1>6, <2>3, <2>4 DEF HedgerInv, HedgeRoom
<1>8. TraderInv
  <2>1. \A m \in Markets : honestBets[m] = 0 /\ ~demo[m].honestPlaced
    BY DEF Init, NoMemo
  <2>2. HonestCounted
    BY <1>1, <2>1 DEF HonestCounted
  <2> QED
    BY <1>6, <2>2 DEF Init, TraderInv, HonestDue, Tightened, DemosNeverTrade, PolicyRestored
<1>9. OpsInv
  BY <1>6, TimersAssumption DEF Init, OpsInv, ForceTyped, Promise, CallsInTime
<1> QED
  BY <1>1, <1>2, <1>3, <1>4, <1>6, <1>7, <1>8, <1>9 DEF TradingInv, CapKnown

LEMMA NextTrading == TradingInv /\ [Next]_vars => TradingInv'
<1> SUFFICES ASSUME TradingInv, [Next]_vars PROVE TradingInv'
  OBVIOUS
<1>1. /\ Bounded /\ RolesTyped /\ ChainTyped /\ TraderTyped /\ CapKnown
      /\ HedgerInv /\ TraderInv /\ OpsInv /\ PolicyTyped
  BY DEF TradingInv, TraderTyped
<1>2. Bounded' /\ RolesTyped' /\ ChainTyped' /\ TraderTyped' /\ CapKnown'
  BY <1>1, BoundedKept, RolesKept, ChainKept, TraderTypesKept, CapStaysKnown
<1>3. HedgerInv' /\ TraderInv' /\ OpsInv'
  BY <1>1, HedgerInvKept, TraderInvKept, OpsInvKept
<1> QED
  BY <1>2, <1>3 DEF TradingInv

LEMMA SpecTrading == Spec => []TradingInv
  BY InitTrading, NextTrading, PTL DEF Spec

\* The chain, the roles' views and their memos keep their types: the hedger's
\* count never exceeds its limit, and at most one forced halt is remembered.
THEOREM TradingTypes == Spec => []TypeOK
<1>1. TradingInv => TypeOK
  <2> SUFFICES ASSUME TradingInv PROVE TypeOK
    OBVIOUS
  <2>1. force \in SUBSET [market : Markets, until : Nat] /\ Cardinality(force) <= 1
    <3>1. CASE force = {}
      BY <3>1, FS_EmptySet
    <3>2. ASSUME NEW m \in Markets, NEW t \in Nat, force = {[market |-> m, until |-> t]}
          PROVE  force \in SUBSET [market : Markets, until : Nat] /\ Cardinality(force) <= 1
      <4>1. Cardinality(force) = 1
        BY <3>2, FS_Singleton
      <4> QED
        BY <3>2, <4>1
    <3> QED
      BY <3>1, <3>2 DEF TradingInv, OpsInv, ForceTyped
  <2>2. /\ crew \in Crews /\ clock \in 0..MaxTime /\ spare \in 0..Disturbances
        /\ oracle \in {"fresh", "old", "expired"}
        /\ status \in [Markets -> {"pending", "open", "halted", "closed", "gone"}]
        /\ position \in [Bettors -> [Markets -> {"none", "shares", "residue"}]]
        /\ policy \in [allow : {"feed", "wrong"}, cap : {Registered, Template}]
    BY DEF TradingInv, Bounded, ChainTyped, TraderTyped, PolicyTyped
  <2>3. /\ pc \in [Roles -> TickStates] /\ view \in [Roles -> View]
        /\ todo \in [Roles -> SUBSET Markets]
    BY DEF TradingInv, RolesTyped
  <2>4. /\ demo \in [Markets -> Memos] /\ honestBets \in [Markets -> Nat]
        /\ demoTraded \in BOOLEAN
        /\ hedge \in [Markets -> [hedgesPlaced : 0..HedgesPerMarket, cancelled : BOOLEAN]]
        /\ hedges \in [Markets -> Nat] /\ seen \subseteq Markets /\ promised \in [Markets -> Nat]
    BY DEF TradingInv, TraderTyped, HedgerInv, HedgerTyped, OpsInv, ForceTyped
  <2> QED
    BY <2>1, <2>2, <2>3, <2>4 DEF TypeOK, TickStates, View, Memos
<1> QED
  BY <1>1, SpecTrading, PTL

\* Every honest bet on a market beyond the first has a lost answer or a restart
\* behind it, and the trader counts none that was not executed.
THEOREM OneHonestBet == Spec => []HonestOnce
<1>1. TradingInv => HonestOnce
  <2> SUFFICES ASSUME TradingInv, NEW m \in Markets
               PROVE  honestBets[m] <= 1 + Lost
                      /\ (demo[m].honestPlaced => honestBets[m] > 0)
    BY DEF HonestOnce
  <2>1. honestBets[m] \in Nat /\ Lost \in Nat
    BY DisturbancesAssumption DEF TradingInv, TraderTyped, Bounded, Lost
  <2>2. CASE demo[m].honestPlaced
    BY <2>1, <2>2 DEF TradingInv, TraderInv, HonestCounted
  <2>3. CASE ~demo[m].honestPlaced
    BY <2>1, <2>3 DEF TradingInv, TraderInv, HonestCounted
  <2> QED
    BY <2>2, <2>3
<1> QED
  BY <1>1, SpecTrading, PTL

\* No scripted violation trades, whatever the cap, the template and the script's
\* times, and whatever is lost.
THEOREM DemosAreRefused == Spec => []DemosNeverTrade
<1>1. TradingInv => DemosNeverTrade
  BY DEF TradingInv, TraderInv
<1> QED
  BY <1>1, SpecTrading, PTL

\* Outside the demo the wrong allowlist stands only after a loss.
THEOREM PolicyComesBack == Spec => []PolicyRestored
<1>1. TradingInv => PolicyRestored
  BY DEF TradingInv, TraderInv
<1> QED
  BY <1>1, SpecTrading, PTL

\* The hedges on a market are at most a window's number, and as many more for
\* each lost answer or restart.
THEOREM HedgesStayBounded == Spec => []HedgesBounded
<1>1. TradingInv => HedgesBounded
  <2> SUFFICES ASSUME TradingInv, NEW m \in Markets
               PROVE  hedges[m] <= HedgesPerMarket * (1 + Lost)
    BY DEF HedgesBounded
  <2>1. Lost \in Nat /\ HedgesPerMarket \in Nat
    BY DisturbancesAssumption, StakesAssumption DEF TradingInv, Bounded, Lost
  <2>2. /\ HedgesPerMarket * Lost \in Nat
        /\ HedgesPerMarket * (1 + Lost) = HedgesPerMarket * Lost + HedgesPerMarket
    BY <2>1, OneMoreLoss
  <2>3. /\ hedges[m] \in Nat /\ hedge[m].hedgesPlaced \in 0..HedgesPerMarket
        /\ hedges[m] <= hedge[m].hedgesPlaced + HedgesPerMarket * Lost
    BY DEF TradingInv, HedgerInv, HedgerTyped, HedgesCounted
  <2> QED
    BY <2>1, <2>2, <2>3
<1> QED
  BY <1>1, SpecTrading, PTL

\* A market halted by force opens again only after its time, whatever the other
\* markets, the oracle and the scheduler do meanwhile.
THEOREM ForcedHaltsLast == Spec => ForcedHaltLasts
<1> DEFINE Step == \A m \in Markets :
                      status[m] = "halted" /\ status'[m] = "open" => clock >= promised[m]
<1>1. TradingInv /\ [Next]_vars => [Step]_vars
  <2> SUFFICES ASSUME TradingInv, [Next]_vars, NEW m \in Markets,
                      status[m] = "halted", status'[m] = "open"
               PROVE  clock >= promised[m]
    OBVIOUS
  <2>1. ChainTyped /\ RolesTyped /\ OpsInv /\ clock \in Nat /\ promised[m] \in Nat
    BY DEF TradingInv, OpsInv, ForceTyped, Bounded
  <2>2. OpsStep
    <3>1. ~TraderStep /\ ~HedgerStep
      BY <2>1, TraderAlone, HedgerAlone
    <3>2. \A n \in Markets : ~Schedules(n)
      BY <2>1 DEF Schedules, ChainTyped
    <3> QED
      BY <3>1, <3>2 DEF Next, Second, Ages, Publishes, Crash, vars, chain
  <2>3. ResumeMarket /\ m = Ops.market
    <3>1. ~OpsTick /\ ~OpsLooks
      BY DEF OpsTick, OpsLooks, chain
    <3>2. ~TryCloseMarketWhenDue
      BY <2>1 DEF TryCloseMarketWhenDue, SetsStatus, ChainTyped
    <3>3. ~HaltMarket
      BY <2>1 DEF HaltMarket, SetsStatus, ChainTyped
    <3>4. ResumeMarket
      BY <2>2, <3>1, <3>2, <3>3 DEF OpsStep
    <3> QED
      BY <2>1, <3>4 DEF ResumeMarket, SetsStatus, ChainTyped
  <2> QED
    BY <2>1, <2>3 DEF ResumeMarket, At, OpsInv, CallsInTime
<1>2. Spec => [][Step]_vars
  BY <1>1, SpecTrading, PTL DEF Spec
<1> QED
  BY <1>2 DEF ForcedHaltLasts
=============================================================================
