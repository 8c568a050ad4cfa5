-------------------------- MODULE SchedulerProofs ---------------------------
(***************************************************************************)
(* doneAt is set only for markets that are closed and off the rollup.      *)
(*                                                                         *)
(* The scheduler sets it on the answer of a commit and on a cached row, so *)
(* the invariant says when an old row can be trusted: "closed, back on the *)
(* base chain" is final, because the only market the scheduler ever puts   *)
(* on the rollup is the one it has just created.                           *)
(*                                                                         *)
(* A window is scheduled twice only behind a row that the scan could not   *)
(* read, and all that happens to the accounts is a run of LifeCycle.       *)
(***************************************************************************)
EXTENDS SchedulerLifeCycle, Arithmetic

Typed ==
    /\ status \in [Ids -> Statuses]
    /\ mLoc \in [Ids -> Locations]
    /\ cache \in [Ids -> Rows]
    /\ done \subseteq Ids

\* A cached row may be old, but what it says of a finished market stays true.
FinishedRowsHold ==
    \A m \in Ids : cache[m].status = "closed" /\ ~cache[m].delegated =>
        status[m] = "closed" /\ mLoc[m] = "base"

UncreatedAtHome == \A m \in Ids : status[m] = "none" => mLoc[m] = "base"

\* Between create_market and delegate_market nobody touches the new market.
PlanIsPending ==
    pc = "delegate" /\ plan.id \in Ids =>
        status[plan.id] = "pending" /\ mLoc[plan.id] = "base"

IInv == Typed /\ DoneMeansFinished /\ FinishedRowsHold /\ UncreatedAtHome /\ PlanIsPending

-----------------------------------------------------------------------------

\* The initial state satisfies the invariant.
LEMMA InitInv == Init => IInv
  BY DEF Init, IInv, Typed, DoneMeansFinished, FinishedRowsHold, UncreatedAtHome,
         PlanIsPending, Unknown, Rows, Statuses, Locations

\* A step that leaves markets and memory alone and does not reach the point
\* between create_market and delegate_market keeps the invariant.
LEMMA Elsewhere ==
    ASSUME IInv, UNCHANGED <<status, mLoc, cache, done>>,
           UNCHANGED <<pc, plan>> \/ pc' # "delegate"
    PROVE  IInv'
  BY DEF IInv, Typed, DoneMeansFinished, FinishedRowsHold, UncreatedAtHome, PlanIsPending

\* Reading rows back, whichever rows, keeps the invariant.
LEMMA ReadingRows ==
    ASSUME IInv, UNCHANGED <<status, mLoc, done>>,
           UNCHANGED <<pc, plan>> \/ pc' # "delegate",
           cache' \in [Ids -> Rows],
           \A m \in Ids : cache'[m] \in {cache[m], Row(m), Unknown}
    PROVE  IInv'
<1>1. \A m \in Ids : Row(m).status = status[m] /\ (Row(m).delegated <=> mLoc[m] # "base")
  BY DEF Row
<1>2. Unknown.status # "closed"
  BY DEF Unknown
<1>3. FinishedRowsHold'
  BY <1>1, <1>2 DEF IInv, FinishedRowsHold
<1>4. QED
  BY <1>3 DEF IInv, Typed, DoneMeansFinished, UncreatedAtHome, PlanIsPending

\* A row that is read is a row.
LEMMA RowType == ASSUME IInv, NEW m \in Ids PROVE Row(m) \in Rows
  BY DEF IInv, Typed, Row, Rows

LEMMA FreshRows ==
    ASSUME IInv, NEW gone
    PROVE  /\ Fresh(gone) \in [Ids -> Rows]
           /\ \A m \in Ids : Fresh(gone)[m] \in {Row(m), Unknown}
<1>1. Unknown \in Rows
  BY DEF Unknown, Rows, Statuses
<1>2. QED
  BY <1>1, RowType DEF Fresh

\* refreshMarkets either replaces every row or none.
LEMMA RefreshedRows ==
    ASSUME IInv, RefreshMarkets
    PROVE  /\ cache' \in [Ids -> Rows]
           /\ \A m \in Ids : cache'[m] \in {cache[m], Row(m), Unknown}
<1>1. CASE \E gone \in Losses : cache' = Fresh(gone)
  BY <1>1, FreshRows
<1>2. CASE UNCHANGED cache
  BY <1>2 DEF IInv, Typed
<1>3. QED
  BY <1>1, <1>2 DEF RefreshMarkets

\* A change of one market's status, other than to "none" and never out of
\* "closed", while that market is not the one between creation and delegation.
LEMMA StatusMoves ==
    ASSUME IInv, NEW m \in Ids, NEW new \in {"open", "closed"},
           mLoc[m] = "er",
           status[m] # "closed",
           status' = [status EXCEPT ![m] = new],
           UNCHANGED <<mLoc, cache, done, pc, plan>>
    PROVE  IInv'
<1>1. status' \in [Ids -> Statuses]
  BY DEF IInv, Typed, Statuses
<1>2. \A n \in Ids : status'[n] = status[n] \/ (n = m /\ status'[n] = new)
  BY DEF IInv, Typed
<1>3. \A n \in Ids : n # m => status'[n] = status[n]
  BY DEF IInv, Typed
<1>4. DoneMeansFinished' /\ FinishedRowsHold'
  BY <1>3 DEF IInv, Typed, DoneMeansFinished, FinishedRowsHold
<1>5. UncreatedAtHome'
  BY <1>2 DEF IInv, UncreatedAtHome
<1>6. PlanIsPending'
  BY <1>3 DEF IInv, PlanIsPending
<1>7. QED
  BY <1>1, <1>4, <1>5, <1>6 DEF IInv, Typed

-----------------------------------------------------------------------------
(* tick.                                                                   *)

LEMMA TickBeginsKeeps ==
    ASSUME IInv, NEW aged \in BOOLEAN, TickBegins(aged) PROVE IInv'
<1>1. /\ cache' \in [Ids -> Rows]
      /\ \A m \in Ids : cache'[m] \in {cache[m], Row(m), Unknown}
  <2>1. CASE aged
    BY <2>1, RefreshedRows DEF TickBegins
  <2>2. CASE ~aged
    BY <2>2 DEF TickBegins, IInv, Typed
  <2>3. QED
    BY <2>1, <2>2
<1>2. UNCHANGED <<status, mLoc, done>> /\ pc' # "delegate"
  BY DEF TickBegins, Goto, chain
<1>3. QED
  BY <1>1, <1>2, ReadingRows

LEMMA SettlePhaseKeeps == ASSUME IInv, SettlePhase PROVE IInv'
<1>1. UNCHANGED <<status, mLoc, cache>> /\ pc' # "delegate"
  BY DEF SettlePhase, Goto, chain
<1>2. done' \subseteq Ids
  BY DEF SettlePhase, IInv, Typed
<1>3. \A m \in done' : m \in done
                       \/ (m \in Ids /\ cache[m].status = "closed" /\ ~cache[m].delegated)
  BY DEF SettlePhase
<1>4. DoneMeansFinished'
  BY <1>1, <1>3 DEF IInv, DoneMeansFinished, FinishedRowsHold
<1>5. QED
  BY <1>1, <1>2, <1>4 DEF IInv, Typed, FinishedRowsHold, UncreatedAtHome, PlanIsPending

LEMMA CreateMarketKeeps == ASSUME IInv, CreateMarket PROVE IInv'
<1>1. UNCHANGED <<mLoc, cache, done>>
  BY DEF CreateMarket, memory
<1>2. CASE UNCHANGED status /\ pc' # "delegate"
  BY <1>1, <1>2, Elsewhere
<1>3. CASE CanCreate /\ status' = [status EXCEPT ![plan.id] = "pending"]
           /\ (UNCHANGED plan \/ pc' # "delegate")
  <2>1. status' \in [Ids -> Statuses]
    BY <1>3 DEF IInv, Typed, Statuses
  <2>2. \A n \in Ids : IF n = plan.id THEN status[n] = "none" /\ status'[n] = "pending"
                                      ELSE status'[n] = status[n]
    BY <1>3 DEF IInv, Typed, CanCreate
  <2>3. DoneMeansFinished' /\ FinishedRowsHold'
    BY <1>1, <2>2 DEF IInv, Typed, DoneMeansFinished, FinishedRowsHold
  <2>4. UncreatedAtHome'
    BY <1>1, <2>2 DEF IInv, UncreatedAtHome
  <2>5. PlanIsPending'
    BY <1>1, <1>3, <2>2 DEF IInv, UncreatedAtHome, PlanIsPending
  <2>6. QED
    BY <1>1, <2>1, <2>3, <2>4, <2>5 DEF IInv, Typed
<1>4. QED
  BY <1>2, <1>3 DEF CreateMarket, GiveUp, Goto

LEMMA DelegateMarketKeeps == ASSUME IInv, DelegateMarket PROVE IInv'
<1>1. UNCHANGED <<status, cache, done>> /\ pc = "delegate" /\ pc' # "delegate"
  BY DEF DelegateMarket, memory, GiveUp, Goto
<1>2. CASE UNCHANGED mLoc
  BY <1>1, <1>2, Elsewhere
<1>3. CASE mLoc' = [mLoc EXCEPT ![plan.id] = "er"]
  <2>1. mLoc' \in [Ids -> Locations]
    BY <1>3 DEF IInv, Typed, Locations
  <2>2. \A n \in Ids : IF n = plan.id THEN status[n] = "pending" ELSE mLoc'[n] = mLoc[n]
    BY <1>1, <1>3 DEF IInv, Typed, PlanIsPending
  <2>3. DoneMeansFinished' /\ FinishedRowsHold' /\ UncreatedAtHome'
    BY <1>1, <2>2 DEF IInv, Typed, DoneMeansFinished, FinishedRowsHold, UncreatedAtHome
  <2>4. PlanIsPending'
    BY <1>1 DEF PlanIsPending
  <2>5. QED
    BY <1>1, <2>1, <2>3, <2>4 DEF IInv, Typed
<1>4. QED
  BY <1>2, <1>3 DEF DelegateMarket

LEMMA FetchCreatedKeeps == ASSUME IInv, FetchCreated PROVE IInv'
<1>1. UNCHANGED <<status, mLoc, done>> /\ pc' # "delegate"
  BY DEF FetchCreated, chain, Goto
<1>2. /\ cache' \in [Ids -> Rows]
      /\ \A m \in Ids : cache'[m] \in {cache[m], Row(m), Unknown}
  <2>1. CASE cache' = [cache EXCEPT ![plan.id] = Row(plan.id)]
    BY <2>1, RowType DEF IInv, Typed
  <2>2. CASE \E gone \in Losses : cache' = Fresh(gone)
    BY <2>2, FreshRows
  <2>3. CASE UNCHANGED cache
    BY <2>3 DEF IInv, Typed
  <2>4. QED
    BY <2>1, <2>2, <2>3 DEF FetchCreated
<1>3. QED
  BY <1>1, <1>2, ReadingRows

LEMMA TickKeeps == ASSUME IInv, Tick PROVE IInv'
<1>1. CASE \E expired \in BOOLEAN : TickBegins(expired)
  BY <1>1, TickBeginsKeeps
<1>2. CASE \E expired \in BOOLEAN : TickEnds(expired)
  BY <1>2, Elsewhere DEF TickEnds, Goto, chain, memory
<1>3. CASE RunErOpenClosePass
  <2>1. UNCHANGED <<status, mLoc, cache, done>>
    BY <1>3 DEF RunErOpenClosePass, chain, memory
  <2>2. UNCHANGED <<pc, plan>> \/ pc' # "delegate"
    BY <1>3 DEF RunErOpenClosePass, Goto, AfterPasses
  <2>3. QED
    BY <2>1, <2>2, Elsewhere
<1>4. CASE ScanHorizon
  BY <1>4, Elsewhere DEF ScanHorizon, GiveUp, Goto, chain, memory
<1>5. QED
  BY <1>1, <1>2, <1>3, <1>4, SettlePhaseKeeps, CreateMarketKeeps, DelegateMarketKeeps,
     FetchCreatedKeeps DEF Tick

-----------------------------------------------------------------------------
(* The handlers.                                                           *)

LEMMA SendStatusKeeps ==
    ASSUME IInv, NEW m \in Ids, HandleOpen(m) \/ HandleClose(m) PROVE IInv'
<1>1. UNCHANGED <<mLoc, cache, done, pc, plan>>
  BY DEF HandleOpen, HandleClose, SendStatus, loop, memory
<1>2. CASE UNCHANGED status
  BY <1>1, <1>2, Elsewhere
<1>3. CASE Openable(m) /\ status' = [status EXCEPT ![m] = "open"]
  BY <1>1, <1>3, StatusMoves DEF Openable
<1>4. CASE Closable(m) /\ status' = [status EXCEPT ![m] = "closed"]
  BY <1>1, <1>4, StatusMoves DEF Closable
<1>5. QED
  BY <1>2, <1>3, <1>4 DEF HandleOpen, HandleClose, SendStatus

LEMMA RefreshOneMarketKeeps ==
    ASSUME IInv, NEW m \in Ids, RefreshOneMarket(m) PROVE IInv'
<1>1. UNCHANGED <<status, mLoc, done, pc, plan>>
  BY DEF RefreshOneMarket, chain, loop
<1>2. CASE UNCHANGED cache
  BY <1>1, <1>2, Elsewhere
<1>3. CASE cache' = [cache EXCEPT ![m] = Row(m)]
  <2>1. cache' \in [Ids -> Rows] /\ \A n \in Ids : cache'[n] \in {cache[n], Row(n), Unknown}
    BY <1>3, RowType DEF IInv, Typed
  <2>2. QED
    BY <1>1, <2>1, ReadingRows
<1>4. QED
  BY <1>2, <1>3 DEF RefreshOneMarket

LEMMA CommitKeeps ==
    ASSUME IInv, NEW m \in Ids, CommitAndUndelegate(m) PROVE IInv'
<1>1. UNCHANGED <<status, cache, pc, plan>>
  BY DEF CommitAndUndelegate, loop
<1>2. CASE UNCHANGED <<mLoc, done>>
  BY <1>1, <1>2, Elsewhere
<1>3. CASE Leavable(m) /\ mLoc' = [mLoc EXCEPT ![m] = "leaving"]
           /\ done' \subseteq done \cup {m}
  <2>1. mLoc' \in [Ids -> Locations] /\ done' \subseteq Ids
    BY <1>3 DEF IInv, Typed, Locations
  <2>2. status[m] = "closed" /\ mLoc[m] = "er" /\ mLoc'[m] = "leaving"
    BY <1>3 DEF Leavable, IInv, Typed
  <2>3. \A n \in Ids : n # m => mLoc'[n] = mLoc[n]
    BY <1>3 DEF IInv, Typed
  <2>4. DoneMeansFinished'
    BY <1>1, <1>3, <2>1, <2>2, <2>3 DEF IInv, Typed, DoneMeansFinished
  <2>5. FinishedRowsHold' /\ UncreatedAtHome' /\ PlanIsPending'
    BY <1>1, <2>2, <2>3 DEF IInv, FinishedRowsHold, UncreatedAtHome, PlanIsPending
  <2>6. QED
    BY <1>1, <2>1, <2>4, <2>5 DEF IInv, Typed
<1>4. QED
  BY <1>2, <1>3 DEF CommitAndUndelegate, DoneAfter

LEMMA HandlerKeeps == ASSUME IInv, NEW m \in Ids, Handler(m) PROVE IInv'
<1>1. CASE FindUnsettledAgents(m)
  BY <1>1, Elsewhere DEF FindUnsettledAgents, chain, loop, memory
<1>2. CASE SettleBatch(m)
  BY <1>2, Elsewhere DEF SettleBatch, chain, loop, memory
<1>3. QED
  BY <1>1, <1>2, SendStatusKeeps, RefreshOneMarketKeeps, CommitKeeps DEF Handler

-----------------------------------------------------------------------------
(* Everyone else.                                                          *)

LEMMA HandBackKeeps == ASSUME IInv, HandBack PROVE IInv'
<1>1. UNCHANGED <<status, cache, done, pc, plan>>
  BY DEF HandBack, loop, memory
<1>2. CASE UNCHANGED mLoc
  BY <1>1, <1>2, Elsewhere
<1>3. ASSUME NEW m \in Ids, mLoc[m] = "leaving", mLoc' = [mLoc EXCEPT ![m] = "base"]
      PROVE  IInv'
  <2>1. mLoc' \in [Ids -> Locations]
    BY <1>3 DEF IInv, Typed, Locations
  <2>2. \A n \in Ids : mLoc'[n] = mLoc[n] \/ mLoc'[n] = "base"
    BY <1>3 DEF IInv, Typed
  <2>3. DoneMeansFinished' /\ FinishedRowsHold' /\ UncreatedAtHome' /\ PlanIsPending'
    BY <1>1, <2>2 DEF IInv, Typed, DoneMeansFinished, FinishedRowsHold, UncreatedAtHome,
                      PlanIsPending
  <2>4. QED
    BY <1>1, <2>1, <2>3 DEF IInv, Typed
<1>4. QED
  BY <1>2, <1>3 DEF HandBack

LEMMA CrashKeeps == ASSUME IInv, Crash PROVE IInv'
<1>1. UNCHANGED <<status, mLoc>> /\ done' = {} /\ pc' = "idle"
      /\ cache' = [m \in Ids |-> Unknown]
  BY DEF Crash, Restarted, chain
<1>2. QED
  BY <1>1 DEF IInv, Typed, DoneMeansFinished, FinishedRowsHold, UncreatedAtHome,
              PlanIsPending, Unknown, Rows, Statuses

LEMMA OthersKeep == ASSUME IInv, Others PROVE IInv'
<1>1. ASSUME NEW m \in Ids, OpsClose(m) PROVE IInv'
  BY <1>1, StatusMoves DEF OpsClose, Closable, loop, memory
<1>2. ASSUME NEW a \in Agents, LeaveRollup(a) PROVE IInv'
  BY <1>2, Elsewhere DEF LeaveRollup, chain, loop, memory
<1>3. ASSUME NEW a \in Agents, NEW m \in Ids, PlaceBet(a, m) \/ SellOut(a, m) \/ FlattenPosition(a, m)
      PROVE  IInv'
  BY <1>3, Elsewhere DEF PlaceBet, SellOut, FlattenPosition, chain, loop, memory
<1>4. QED
  BY <1>1, <1>2, <1>3, CrashKeeps DEF Others

\* Every step keeps the invariant.
LEMMA NextInv == IInv /\ [Next]_vars => IInv'
<1> SUFFICES ASSUME IInv, [Next]_vars PROVE IInv'
  OBVIOUS
<1>1. ASSUME NEW a \in Agents, DelegateAgent(a) PROVE IInv'
  BY <1>1, Elsewhere DEF DelegateAgent, chain, loop, memory
<1>2. CASE Second
  BY <1>2, Elsewhere DEF Second, chain, loop, memory
<1>3. CASE UNCHANGED vars
  BY <1>3, Elsewhere DEF vars, chain, loop, memory
<1>4. QED
  BY <1>1, <1>2, <1>3, TickKeeps, HandlerKeeps, HandBackKeeps, OthersKeep DEF Next

\* loop.ts sets doneAt, after which it never looks at the market again, only for
\* a market that is closed and has left the rollup: for any number of markets
\* and profiles, any schedule, and any sequence of failures, lost answers and
\* restarts.
THEOREM DoneIsFinished == Spec => []DoneMeansFinished
<1>1. IInv => DoneMeansFinished
  BY DEF IInv
<1>2. QED
  BY <1>1, InitInv, NextInv, PTL DEF Spec

-----------------------------------------------------------------------------
(* The types of the rest.                                                  *)

HoldsTyped == holds \in [Agents -> SUBSET Ids] /\ free \in [Agents -> SUBSET Ids]

LEMMA InitHolds == Init => HoldsTyped
  BY IdsAssumption DEF Init, HoldsTyped, Ids

\* Everything but a bet, a sale, a settlement batch and a flattened position leaves
\* the slots alone.
LEMMA HoldsKept == HoldsTyped /\ [Next]_vars => HoldsTyped'
<1> SUFFICES ASSUME HoldsTyped, [Next]_vars PROVE HoldsTyped'
  OBVIOUS
<1>1. CASE Tick
  BY <1>1 DEF Tick, TickBegins, TickEnds, RunErOpenClosePass, SettlePhase, ScanHorizon,
              CreateMarket, DelegateMarket, FetchCreated, profiles, slots, HoldsTyped
<1>0. 0 \in Ids
  BY IdsAssumption DEF Ids
<1>2. ASSUME NEW m \in Ids, Handler(m) PROVE HoldsTyped'
  <2>1. CASE SettleBatch(m)
    BY <1>0, <2>1 DEF SettleBatch, Settled, Reset, slots, HoldsTyped
  <2>2. CASE ~SettleBatch(m)
    BY <1>2, <2>2 DEF Handler, HandleOpen, HandleClose, SendStatus, RefreshOneMarket,
       FindUnsettledAgents, CommitAndUndelegate, profiles, slots, HoldsTyped
  <2>3. QED
    BY <2>1, <2>2
<1>3. ASSUME NEW a \in Agents, NEW m \in Ids, PlaceBet(a, m) \/ SellOut(a, m) \/ FlattenPosition(a, m)
      PROVE  HoldsTyped'
  <2>1. CASE PlaceBet(a, m)
    BY <2>1 DEF PlaceBet, Remaining, HoldsTyped
  <2>2. CASE SellOut(a, m)
    BY <2>2 DEF SellOut, HoldsTyped
  <2>3. CASE FlattenPosition(a, m)
    BY <1>0, <2>3 DEF FlattenPosition, Settled, Reset, HoldsTyped
  <2> QED
    BY <1>3, <2>1, <2>2, <2>3
<1>4. CASE Others
  BY <1>3, <1>4 DEF Others, OpsClose, LeaveRollup, Crash, profiles, slots, HoldsTyped
<1>5. CASE Second \/ HandBack \/ UNCHANGED vars
  BY <1>5 DEF Second, HandBack, vars, profiles, slots, HoldsTyped
<1>6. ASSUME NEW a \in Agents, DelegateAgent(a) PROVE HoldsTyped'
  BY <1>6 DEF DelegateAgent, slots, HoldsTyped
<1>7. QED
  BY <1>1, <1>2, <1>4, <1>5, <1>6 DEF Next

\* Time passes second by second; whatever goes wrong is a disturbance.
Bounded == clock \in 0..MaxTime /\ spare \in 0..Disturbances

LEMMA TimePasses == [Next]_vars => UNCHANGED clock \/ (clock < MaxTime /\ clock' = clock + 1)
<1> SUFFICES ASSUME [Next]_vars, clock' # clock PROVE clock < MaxTime /\ clock' = clock + 1
  OBVIOUS
<1>1. ~Tick
  BY DEF Tick, TickBegins, TickEnds, RunErOpenClosePass, SettlePhase, ScanHorizon,
         CreateMarket, DelegateMarket, FetchCreated
<1>2. \A m \in Ids : ~Handler(m)
  BY DEF Handler, HandleOpen, HandleClose, SendStatus, RefreshOneMarket,
         FindUnsettledAgents, SettleBatch, CommitAndUndelegate
<1>3. ~Others
  BY DEF Others, OpsClose, LeaveRollup, PlaceBet, SellOut, FlattenPosition, Crash
<1> QED
  BY <1>1, <1>2, <1>3 DEF Next, DelegateAgent, Second, HandBack, vars

LEMMA FaultsAreSpent == [Next]_vars => UNCHANGED spare \/ Fault
<1> SUFFICES ASSUME [Next]_vars PROVE UNCHANGED spare \/ Fault
  OBVIOUS
<1>1. CASE Tick
  BY <1>1 DEF Tick, TickBegins, RefreshMarkets, LossOf, TickEnds, RunErOpenClosePass, SettlePhase,
     ScanHorizon, CreateMarket, DelegateMarket, FetchCreated
<1>2. ASSUME NEW m \in Ids, Handler(m) PROVE UNCHANGED spare \/ Fault
  BY <1>2 DEF Handler, HandleOpen, HandleClose, SendStatus, RefreshOneMarket, Answer, NoAnswer,
     FindUnsettledAgents, SettleBatch, CommitAndUndelegate
<1>3. CASE Others
  BY <1>3 DEF Others, OpsClose, LeaveRollup, PlaceBet, SellOut, FlattenPosition, Crash
<1> QED
  BY <1>1, <1>2, <1>3 DEF Next, DelegateAgent, Second, HandBack, vars

LEMMA BoundedKept == Bounded /\ [Next]_vars => Bounded'
  BY TimePasses, FaultsAreSpent, BoundsAssumption DEF Bounded, Fault

\* Each round that creates a market ends in a pass, after which the loop goes on
\* only while there are rounds left.
LoopTyped ==
    /\ pc \in {"idle", "first", "horizon", "create", "delegate", "fetch", "mid",
               "last", "settle", "await"}
    /\ pass \in 0..MaxPasses
    /\ round \in 0..MaxRounds /\ (pc # "mid" => round < MaxRounds)
    /\ plan \in [id : Ids, openTs : Nat, unread : SUBSET Ids]

LEMMA StartOfLoop ==
    /\ NoPlan \in [id : Ids, openTs : Nat, unread : SUBSET Ids]
    /\ 0 \in 0..MaxPasses /\ 0 \in 0..MaxRounds /\ 0 < MaxRounds
  BY IdsAssumption, ScheduleAssumption DEF NoPlan, Ids

LEMMA IdsFinite == IsFiniteSet(Ids) /\ Cardinality(Ids) = LastId + 1
  BY IdsAssumption, FS_Interval DEF Ids

\* The next id is one that the instance has.
LEMMA NextId == ASSUME Created # Ids PROVE Cardinality(Created) \in Ids
<1>1. Created \subseteq Ids /\ Created # Ids
  BY DEF Created
<1>2. Cardinality(Created) \in Nat /\ Cardinality(Created) < Cardinality(Ids)
  BY <1>1, IdsFinite, FS_Subset, FS_CardinalityType
<1> QED
  BY <1>2, IdsFinite, IdsAssumption DEF Ids

\* A time rounded up to the schedule is at least that time.
LEMMA AlignsUp ==
    ASSUME NEW t \in Nat PROVE AlignUp(t) \in Nat /\ AlignUp(t) >= t
<1> DEFINE n == t + Window - 1
           q == n \div Window
<1>1. Window \in Nat /\ Window > 0 /\ n \in Nat
  BY ScheduleAssumption
<1>2. q \in Nat /\ n < Window * (q + 1)
  BY <1>1, FloorBounds
<1>3. Window * (q + 1) = q * Window + Window /\ q * Window \in Nat
  BY <1>1, <1>2
<1> HIDE DEF q
<1>4. q * Window >= t
  BY <1>1, <1>2, <1>3
<1>5. AlignUp(t) = q * Window
  BY DEF AlignUp, q
<1> QED
  BY <1>3, <1>4, <1>5

\* The window that ensureHorizonOnce takes begins no earlier than now, and after
\* every market that it counts as stock.
LEMMA NextWindow ==
    ASSUME clock \in Nat, openTs \in [Ids -> Nat], NEW gone
    PROVE  /\ NextOpenTs(gone) \in Nat
           /\ NextOpenTs(gone) >= clock
           /\ \A m \in FuturePending(gone) : openTs[m] < NextOpenTs(gone)
<1> DEFINE T == {openTs[m] : m \in FuturePending(gone)}
<1>1. FuturePending(gone) \subseteq Ids /\ IsFiniteSet(FuturePending(gone))
  BY IdsFinite, FS_Subset DEF FuturePending, Listing, Created
<1>2. CASE FuturePending(gone) = {}
  BY <1>2, AlignsUp DEF NextOpenTs
<1>3. CASE FuturePending(gone) # {}
  <2>1. T \subseteq Nat /\ T # {} /\ IsFiniteSet(T)
    <3> DEFINE f == [m \in FuturePending(gone) |-> openTs[m]]
    <3>1. f \in Surjection(FuturePending(gone), T)
      BY DEF Surjection
    <3>2. T \subseteq Nat /\ T # {}
      BY <1>1, <1>3
    <3> HIDE DEF T, f
    <3> QED
      BY <1>1, <3>1, <3>2, FS_Surjection
  <2>2. \A m \in FuturePending(gone) : openTs[m] \in T /\ openTs[m] >= clock
    BY DEF FuturePending
  <2>3. NextOpenTs(gone) = AlignUp(Max(T) + Window)
    BY <1>3 DEF NextOpenTs
  <2> HIDE DEF T
  <2>4. Max(T) \in Nat /\ \A y \in T : y <= Max(T)
    BY <2>1, MaxIsLargest
  <2>5. Max(T) + Window \in Nat /\ Window > 0 /\ Window \in Nat
    BY <2>4, ScheduleAssumption
  <2>6. AlignUp(Max(T) + Window) \in Nat /\ AlignUp(Max(T) + Window) >= Max(T) + Window
    BY <2>5, AlignsUp
  <2>7. ASSUME NEW m \in FuturePending(gone) PROVE openTs[m] < NextOpenTs(gone)
    <3>1. openTs[m] \in Nat /\ openTs[m] <= Max(T)
      BY <2>1, <2>2, <2>4
    <3> QED
      BY <3>1, <2>3, <2>4, <2>5, <2>6
  <2>8. NextOpenTs(gone) \in Nat
    BY <2>3, <2>6
  <2>9. NextOpenTs(gone) >= clock
    <3>1. PICK m \in FuturePending(gone) : TRUE
      BY <1>3
    <3>2. openTs[m] \in Nat /\ openTs[m] >= clock /\ openTs[m] < NextOpenTs(gone)
      BY <2>1, <2>2, <2>7
    <3> QED
      BY <2>8, <3>2
  <2> QED
    BY <2>7, <2>8, <2>9
<1> QED
  BY <1>2, <1>3

LEMMA TickKeepsLoop ==
    ASSUME LoopTyped, Bounded, openTs \in [Ids -> Nat], Tick PROVE LoopTyped'
<1>1. CASE \E expired \in BOOLEAN : TickBegins(expired) \/ TickEnds(expired)
  BY <1>1, StartOfLoop DEF TickBegins, TickEnds, Goto, LoopTyped
<1>2. CASE RunErOpenClosePass
  <2>1. PassLimit \in Nat /\ PassLimit <= MaxPasses
    BY ScheduleAssumption DEF PassLimit
  <2>2. CASE pass < PassLimit /\ pass' = pass + 1 /\ UNCHANGED <<pc, plan, round>>
    BY <2>1, <2>2, ScheduleAssumption DEF LoopTyped
  <2>3. CASE pc = "mid" /\ round = MaxRounds /\ Goto("last") /\ round' = 0
    BY <2>3, StartOfLoop DEF LoopTyped, Goto
  <2>4. CASE ~(pc = "mid" /\ round = MaxRounds) /\ Goto(AfterPasses) /\ UNCHANGED round
    <3>1. round < MaxRounds
      BY <2>4, ScheduleAssumption DEF LoopTyped
    <3>2. AfterPasses \in {"settle", "horizon"}
      BY DEF AfterPasses
    <3> QED
      BY <2>4, <3>1, <3>2, StartOfLoop DEF LoopTyped, Goto
  <2> QED
    BY <1>2, <2>2, <2>3, <2>4 DEF RunErOpenClosePass
<1>3. CASE SettlePhase
  BY <1>3, StartOfLoop DEF SettlePhase, Goto, LoopTyped
<1>4. CASE ScanHorizon
  <2>1. CASE GiveUp
    BY <2>1, StartOfLoop DEF GiveUp, Goto, LoopTyped
  <2>2. ASSUME NEW gone \in Losses, Created # Ids, pc' = "create",
               plan' = [id |-> Cardinality(Created), openTs |-> NextOpenTs(gone),
                        unread |-> gone],
               UNCHANGED <<pass, round>>
        PROVE  LoopTyped'
    <3>1. clock \in Nat
      BY BoundsAssumption DEF Bounded
    <3>2. gone \subseteq Ids
      BY BoundsAssumption DEF Losses, Ids
    <3>3. plan' \in [id : Ids, openTs : Nat, unread : SUBSET Ids]
      BY <2>2, <3>1, <3>2, NextId, NextWindow
    <3> QED
      BY <1>4, <2>2, <3>3 DEF ScanHorizon, LoopTyped
  <2> QED
    BY <1>4, <2>1, <2>2 DEF ScanHorizon
<1>5. CASE CreateMarket \/ DelegateMarket
  BY <1>5, StartOfLoop DEF CreateMarket, DelegateMarket, GiveUp, Goto, LoopTyped
<1>6. CASE FetchCreated
  BY <1>6, StartOfLoop, ScheduleAssumption DEF FetchCreated, Goto, LoopTyped
<1> QED
  BY <1>1, <1>2, <1>3, <1>4, <1>5, <1>6 DEF Tick

LEMMA LoopKept ==
    ASSUME LoopTyped, Bounded, openTs \in [Ids -> Nat], [Next]_vars PROVE LoopTyped'
<1>1. CASE UNCHANGED loop
  BY <1>1 DEF loop, LoopTyped
<1>2. CASE Crash
  BY <1>2, StartOfLoop DEF Crash, Restarted, LoopTyped
<1>3. ASSUME NEW m \in Ids, Handler(m) PROVE UNCHANGED loop
  BY <1>3 DEF Handler, HandleOpen, HandleClose, SendStatus, RefreshOneMarket,
     FindUnsettledAgents, SettleBatch, CommitAndUndelegate
<1>4. CASE Others
  BY <1>1, <1>2, <1>4 DEF Others, OpsClose, LeaveRollup, PlaceBet, SellOut, FlattenPosition
<1> QED
  BY <1>1, <1>3, <1>4, TickKeepsLoop DEF Next, DelegateAgent, Second, HandBack, vars

\* A market gets its window when it is created.
LEMMA WindowsSet ==
    [Next]_vars => \/ UNCHANGED <<openTs, unread>>
                   \/ /\ CreateMarket /\ CanCreate
                      /\ openTs' = [openTs EXCEPT ![plan.id] = plan.openTs]
                      /\ unread' = [unread EXCEPT ![plan.id] = plan.unread]
                      /\ status' = [status EXCEPT ![plan.id] = "pending"]
<1> SUFFICES ASSUME [Next]_vars, ~UNCHANGED <<openTs, unread>>
             PROVE  /\ CreateMarket /\ CanCreate
                    /\ openTs' = [openTs EXCEPT ![plan.id] = plan.openTs]
                    /\ unread' = [unread EXCEPT ![plan.id] = plan.unread]
                    /\ status' = [status EXCEPT ![plan.id] = "pending"]
  OBVIOUS
<1>1. CASE CreateMarket
  BY <1>1 DEF CreateMarket
<1>2. CASE Tick /\ ~CreateMarket
  BY <1>2 DEF Tick, TickBegins, TickEnds, RunErOpenClosePass, SettlePhase, ScanHorizon,
         DelegateMarket, FetchCreated, chain
<1>3. \A m \in Ids : ~Handler(m)
  BY DEF Handler, HandleOpen, HandleClose, SendStatus, RefreshOneMarket,
         FindUnsettledAgents, SettleBatch, CommitAndUndelegate, chain
<1>4. ~Others
  BY DEF Others, OpsClose, LeaveRollup, PlaceBet, SellOut, FlattenPosition, Crash, chain
<1> QED
  BY <1>1, <1>2, <1>3, <1>4 DEF Next, DelegateAgent, Second, HandBack, vars, chain

WindowsTyped == openTs \in [Ids -> Nat] /\ unread \in [Ids -> SUBSET Ids]

LEMMA WindowsKept == ASSUME WindowsTyped, LoopTyped, [Next]_vars PROVE WindowsTyped'
  BY WindowsSet DEF LoopTyped, WindowsTyped

\* Profiles.
LayersTyped == aLoc \in [Agents -> Locations]

LEMMA LayersKept == LayersTyped /\ [Next]_vars => LayersTyped'
<1> SUFFICES ASSUME LayersTyped, [Next]_vars PROVE LayersTyped'
  OBVIOUS
<1>1. CASE Tick
  BY <1>1 DEF Tick, TickBegins, TickEnds, RunErOpenClosePass, SettlePhase, ScanHorizon,
              CreateMarket, DelegateMarket, FetchCreated, profiles, LayersTyped
<1>2. ASSUME NEW m \in Ids, Handler(m) PROVE LayersTyped'
  BY <1>2 DEF Handler, HandleOpen, HandleClose, SendStatus, RefreshOneMarket, SettleBatch,
     FindUnsettledAgents, CommitAndUndelegate, profiles, LayersTyped
<1>3. CASE Others
  BY <1>3 DEF Others, OpsClose, LeaveRollup, PlaceBet, SellOut, FlattenPosition, Crash, profiles,
     LayersTyped, Locations
<1>4. ASSUME NEW a \in Agents, DelegateAgent(a) PROVE LayersTyped'
  BY <1>4 DEF DelegateAgent, LayersTyped, Locations
<1>5. CASE Second \/ HandBack \/ UNCHANGED vars
  BY <1>5 DEF Second, HandBack, vars, profiles, LayersTyped, Locations
<1> QED
  BY <1>1, <1>2, <1>3, <1>4, <1>5 DEF Next

\* What the scheduler is waiting for.
WorkTyped ==
    /\ job \in [Ids -> {"none", "open", "close", "list", "pay", "commit", "read"}]
    /\ listed \in [Ids -> SUBSET Agents] /\ strays \subseteq Agents

LEMMA DispatchTypes ==
    ASSUME WorkTyped, NEW ops \in SUBSET {"open", "close", "list"},
           NEW ready \in SUBSET ToDo(ops), Dispatch(ready, ops)
    PROVE  job' \in [Ids -> {"none", "open", "close", "list", "pay", "commit", "read"}]
<1>1. ASSUME NEW m \in ready PROVE (CHOOSE op \in ops : Due(m, op)) \in ops
  BY <1>1 DEF ToDo
<1>2. \A m \in ready : (CHOOSE op \in ops : Due(m, op)) \in {"open", "close", "list"}
  BY <1>1
<1> QED
  BY <1>2 DEF Dispatch, WorkTyped

LEMMA WorkKept == WorkTyped /\ [Next]_vars => WorkTyped'
<1> SUFFICES ASSUME WorkTyped, [Next]_vars PROVE WorkTyped'
  OBVIOUS
<1>1. CASE Tick
  <2>1. CASE RunErOpenClosePass
    BY <2>1, DispatchTypes DEF RunErOpenClosePass, WorkTyped
  <2>2. CASE SettlePhase
    BY <2>2, DispatchTypes DEF SettlePhase, WorkTyped
  <2>3. CASE \E agentsDue \in BOOLEAN : TickEnds(agentsDue)
    BY <2>3, OwnersAssumption DEF TickEnds, work, WorkTyped
  <2> QED
    BY <1>1, <2>1, <2>2, <2>3 DEF Tick, TickBegins, ScanHorizon, CreateMarket,
       DelegateMarket, FetchCreated, work, WorkTyped
<1>2. ASSUME NEW m \in Ids, Handler(m) PROVE WorkTyped'
  <2>1. CASE SettleBatch(m)
    BY <2>1 DEF SettleBatch, NoAnswer, Then, WorkTyped
  <2>2. CASE FindUnsettledAgents(m)
    BY <2>2 DEF FindUnsettledAgents, Then, WorkTyped
  <2> QED
    BY <1>2, <2>1, <2>2 DEF Handler, HandleOpen, HandleClose, SendStatus, Answer, NoAnswer,
       RefreshOneMarket, CommitAndUndelegate, Then, WorkTyped
<1>3. CASE Others
  BY <1>3 DEF Others, OpsClose, LeaveRollup, PlaceBet, SellOut, FlattenPosition, Crash, Restarted,
     work, WorkTyped
<1> QED
  BY <1>1, <1>2, <1>3 DEF Next, DelegateAgent, Second, HandBack, vars, work, WorkTyped

-----------------------------------------------------------------------------
(* Type correctness.                                                       *)

AllTyped ==
    /\ IInv /\ HoldsTyped /\ Bounded /\ LoopTyped /\ WindowsTyped
    /\ LayersTyped /\ WorkTyped

LEMMA AllTypedHolds == Init => AllTyped
<1> SUFFICES ASSUME Init PROVE AllTyped
  OBVIOUS
<1>1. Bounded
  BY BoundsAssumption DEF Init, Bounded
<1>2. LoopTyped
  BY StartOfLoop DEF Init, LoopTyped
<1>3. WindowsTyped /\ LayersTyped /\ WorkTyped
  BY DEF Init, WindowsTyped, LayersTyped, Locations, WorkTyped
<1> QED
  BY <1>1, <1>2, <1>3, InitInv, InitHolds DEF AllTyped

LEMMA AllTypedKept == AllTyped /\ [Next]_vars => AllTyped'
  BY NextInv, HoldsKept, BoundedKept, LoopKept, WindowsKept, LayersKept, WorkKept
     DEF AllTyped, WindowsTyped

LEMMA AllTypedMeans == AllTyped => TypeOK
  BY DEF AllTyped, IInv, Typed, HoldsTyped, Bounded, LoopTyped, WindowsTyped, LayersTyped,
         WorkTyped, TypeOK

\* The scheduler's memory and the chain it keeps stay within their types: the
\* passes and rounds of a tick within their limits, the planned market among
\* those that can be created.
THEOREM TypesHold == Spec => []TypeOK
  BY AllTypedHolds, AllTypedKept, AllTypedMeans, PTL DEF Spec

-----------------------------------------------------------------------------
(* No window twice.                                                        *)

\* From the scan of the horizon until the market is created, which nobody but the
\* scheduler does, the planned window stays free of every market the scan was given.
WindowFree ==
    pc = "create" =>
        \A m \in Ids : status[m] = "pending" /\ openTs[m] = plan.openTs => m \in plan.unread

Stock == AllTyped /\ NoDoubleWindow /\ WindowFree

\* No step but create_market makes a market pending.
LEMMA PendingIsCreated ==
    ASSUME AllTyped, [Next]_vars, ~CreateMarket
    PROVE  \A m \in Ids : status'[m] = "pending" => status[m] = "pending"
<1> USE DEF AllTyped, IInv, Typed
<1>1. CASE Tick
  BY <1>1 DEF Tick, TickBegins, TickEnds, RunErOpenClosePass, SettlePhase, ScanHorizon,
              DelegateMarket, FetchCreated, chain
<1>2. ASSUME NEW m \in Ids, Handler(m) PROVE \A n \in Ids : status'[n] = "pending" => status[n] = "pending"
  BY <1>2 DEF Handler, HandleOpen, HandleClose, SendStatus, RefreshOneMarket, SettleBatch,
     FindUnsettledAgents, CommitAndUndelegate, chain
<1>3. CASE Others
  BY <1>3 DEF Others, OpsClose, LeaveRollup, PlaceBet, SellOut, FlattenPosition, Crash, chain
<1> QED
  BY <1>1, <1>2, <1>3 DEF Next, DelegateAgent, Second, HandBack, vars, chain

LEMMA StockHolds == Init => Stock
<1> SUFFICES ASSUME Init PROVE Stock
  OBVIOUS
<1>1. pc = "idle" /\ \A m \in Ids : status[m] = "none"
  BY DEF Init
<1> QED
  BY <1>1, AllTypedHolds DEF Stock, NoDoubleWindow, WindowFree

\* The tick gets to create_market by a scan of the horizon, and stays there.
LEMMA ComesToCreate ==
    ASSUME [Next]_vars, pc' = "create"
    PROVE  \/ UNCHANGED <<pc, plan>> /\ ~CreateMarket
           \/ ScanHorizon /\ \E gone \in Losses : /\ plan'.openTs = NextOpenTs(gone)
                                                   /\ plan'.unread = gone
<1>1. CASE Tick
  <2>1. CASE ScanHorizon
    BY <2>1 DEF ScanHorizon, GiveUp, Goto
  <2>2. CASE RunErOpenClosePass
    BY <2>2 DEF RunErOpenClosePass, Goto, AfterPasses, CreateMarket
  <2> QED
    BY <1>1, <2>1, <2>2 DEF Tick, TickBegins, TickEnds, SettlePhase, CreateMarket,
       DelegateMarket, FetchCreated, GiveUp, Goto
<1>2. CASE CreateMarket
  BY <1>2 DEF CreateMarket, GiveUp, Goto
<1>3. ASSUME NEW m \in Ids, Handler(m) PROVE UNCHANGED <<pc, plan>>
  BY <1>3 DEF Handler, HandleOpen, HandleClose, SendStatus, RefreshOneMarket, SettleBatch,
     FindUnsettledAgents, CommitAndUndelegate, loop
<1>4. ASSUME Others PROVE UNCHANGED <<pc, plan>>
  BY <1>4 DEF Others, OpsClose, LeaveRollup, PlaceBet, SellOut, FlattenPosition, Crash, Restarted, loop
<1> QED
  BY <1>1, <1>2, <1>3, <1>4 DEF Next, DelegateAgent, Second, HandBack, vars, loop

\* A scan plans a window that no pending market has that it was given.
LEMMA PlannedWindowIsFree ==
    ASSUME AllTyped, NEW gone \in Losses,
           NEW m \in Ids \ gone, status[m] = "pending"
    PROVE  openTs[m] < NextOpenTs(gone)
<1>2. clock \in Nat /\ openTs \in [Ids -> Nat] /\ openTs[m] \in Nat
  BY BoundsAssumption DEF AllTyped, WindowsTyped, Bounded
<1>3. NextOpenTs(gone) \in Nat /\ NextOpenTs(gone) >= clock
  BY <1>2, NextWindow
<1>4. CASE openTs[m] >= clock
  <2>1. m \in FuturePending(gone)
    BY <1>4 DEF FuturePending, Listing, Created
  <2> QED
    BY <1>2, <2>1, NextWindow
<1>5. CASE openTs[m] < clock
  BY <1>2, <1>3, <1>5
<1> QED
  BY <1>2, <1>4, <1>5

LEMMA StockKept == ASSUME Stock, [Next]_vars PROVE Stock'
<1>1. AllTyped /\ AllTyped'
  BY AllTypedKept DEF Stock
<1>2. /\ openTs \in [Ids -> Nat] /\ unread \in [Ids -> SUBSET Ids]
      /\ status \in [Ids -> Statuses]
  BY <1>1 DEF AllTyped, WindowsTyped, IInv, Typed
<1>3. CASE UNCHANGED <<openTs, unread>> /\ ~CreateMarket
  <2>1. \A m \in Ids : status'[m] = "pending" => status[m] = "pending"
    BY <1>1, <1>3, PendingIsCreated
  <2>2. NoDoubleWindow'
    BY <1>3, <2>1 DEF Stock, NoDoubleWindow
  <2>3. ASSUME pc' = "create", NEW m \in Ids, status'[m] = "pending", openTs'[m] = plan'.openTs
        PROVE  m \in plan'.unread
    <3>1. CASE UNCHANGED <<pc, plan>>
      BY <1>3, <2>1, <2>3, <3>1 DEF Stock, WindowFree
    <3>2. ASSUME NEW gone \in Losses, plan'.openTs = NextOpenTs(gone), m \notin gone
          PROVE  FALSE
      <4>1. openTs[m] < NextOpenTs(gone)
        BY <1>1, <2>1, <2>3, <3>2, PlannedWindowIsFree
      <4>2. openTs[m] \in Nat /\ NextOpenTs(gone) \in Nat
        BY <1>1, <1>2, NextWindow, BoundsAssumption DEF AllTyped, Bounded
      <4> QED
        BY <1>3, <2>3, <3>2, <4>1, <4>2
    <3> QED
      BY <2>3, <3>1, <3>2, ComesToCreate
  <2> QED
    BY <1>1, <2>2, <2>3 DEF Stock, WindowFree
<1>4. CASE CreateMarket
  <2>1. pc = "create" /\ pc' # "create"
    <3>1. ~ScanHorizon
      BY <1>4 DEF CreateMarket, ScanHorizon
    <3> QED
      BY <1>4, <3>1, ComesToCreate DEF CreateMarket
  <2>2. CASE UNCHANGED <<status, openTs, unread>>
    BY <1>1, <2>1, <2>2 DEF Stock, NoDoubleWindow, WindowFree
  <2>3. CASE /\ status' = [status EXCEPT ![plan.id] = "pending"]
             /\ openTs' = [openTs EXCEPT ![plan.id] = plan.openTs]
             /\ unread' = [unread EXCEPT ![plan.id] = plan.unread]
    <3>1. plan.id \in Ids
      BY <1>1 DEF AllTyped, LoopTyped
    <3>2. \A m \in Ids :
             IF m = plan.id
             THEN openTs'[m] = plan.openTs /\ unread'[m] = plan.unread
             ELSE openTs'[m] = openTs[m] /\ unread'[m] = unread[m] /\ status'[m] = status[m]
      BY <1>2, <2>3, <3>1
    <3>3. NoDoubleWindow'
      BY <2>1, <3>2 DEF Stock, NoDoubleWindow, WindowFree
    <3> QED
      BY <1>1, <2>1, <3>3 DEF Stock, WindowFree
  <2> QED
    BY <1>4, <2>2, <2>3 DEF CreateMarket
<1> QED
  BY <1>3, <1>4, WindowsSet

\* The scheduler never creates a market for a window that a pending one has, unless
\* the very scan that planned it was not given that one: whatever answers were
\* lost, whichever rows could not be read before and after, wherever the process
\* was restarted, and however long it waited between the scan and the creation.
THEOREM NoWindowTwice == Spec => []NoDoubleWindow
<1>1. Stock /\ [Next]_vars => Stock'
  BY StockKept
<1>2. Stock => NoDoubleWindow
  BY DEF Stock
<1> QED
  BY <1>1, <1>2, StockHolds, PTL DEF Spec

-----------------------------------------------------------------------------
(* Every step of the scheduler's model is a step of LifeCycle or changes   *)
(* nothing there.  The market a tick creates and then delegates is the     *)
(* only case that rests on the invariant: between the two awaits nobody    *)
(* has touched it, so it is delegated from the base chain, and created.    *)

\* Profiles hold sets of markets; the pay-out of one profile and that of a batch
\* are then the same change.
Inv == IInv /\ HoldsTyped

LEMMA InitMaps == Init => L!Init
  BY DEF Init, L!Init

\* tick.
LEMMA TickMaps == ASSUME Inv, Tick PROVE [L!Next]_(L!vars)
<1>1. CASE CreateMarket
  <2>1. CASE UNCHANGED status
    BY <1>1, <2>1 DEF CreateMarket, profiles, slots, L!vars
  <2>2. CASE CanCreate /\ status' = [status EXCEPT ![plan.id] = "pending"]
    <3>1. CASE plan.id \in Ids
      <4>1. mLoc[plan.id] = "base"
        BY <2>2, <3>1 DEF CanCreate, Inv, IInv, UncreatedAtHome
      <4>2. L!Create(plan.id)
        BY <1>1, <2>2, <4>1 DEF CreateMarket, CanCreate, profiles, slots, L!Create, L!Advance
      <4>3. QED
        BY <3>1, <4>2 DEF L!Next, L!MarketStep
    <3>2. CASE plan.id \notin Ids
      <4>1. UNCHANGED status
        BY <2>2, <3>2 DEF Inv, IInv, Typed
      <4>2. QED
        BY <2>1, <4>1
    <3>3. QED
      BY <3>1, <3>2
  <2>3. QED
    BY <1>1, <2>1, <2>2 DEF CreateMarket
<1>2. CASE DelegateMarket
  <2>1. CASE UNCHANGED mLoc
    BY <1>2, <2>1 DEF DelegateMarket, profiles, slots, L!vars
  <2>2. CASE mLoc' = [mLoc EXCEPT ![plan.id] = "er"] /\ plan.id \in Ids
    <3>1. status[plan.id] = "pending" /\ mLoc[plan.id] = "base"
      BY <1>2, <2>2 DEF DelegateMarket, Inv, IInv, PlanIsPending
    <3>2. L!Delegate(plan.id)
      BY <1>2, <2>2, <3>1 DEF DelegateMarket, profiles, slots, L!Delegate, L!Carry
    <3>3. QED
      BY <2>2, <3>2 DEF L!Next, L!MarketStep
  <2>3. CASE mLoc' = [mLoc EXCEPT ![plan.id] = "er"] /\ plan.id \notin Ids
    <3>1. UNCHANGED mLoc
      BY <2>3 DEF Inv, IInv, Typed
    <3>2. QED
      BY <2>1, <3>1
  <2>4. QED
    BY <1>2, <2>1, <2>2, <2>3 DEF DelegateMarket
<1>3. CASE ~CreateMarket /\ ~DelegateMarket
  BY <1>3 DEF Tick, TickBegins, TickEnds, RunErOpenClosePass, SettlePhase, ScanHorizon,
              FetchCreated, chain, profiles, slots, L!vars
<1>4. QED
  BY <1>1, <1>2, <1>3

\* The handlers of a market.
LEMMA HandlerMaps == ASSUME Inv, NEW m \in Ids, Handler(m) PROVE [L!Next]_(L!vars)
<1>1. CASE HandleOpen(m)
  <2>1. CASE UNCHANGED status
    BY <1>1, <2>1 DEF HandleOpen, SendStatus, profiles, slots, L!vars
  <2>2. CASE Openable(m) /\ status' = [status EXCEPT ![m] = "open"]
    <3>1. L!Open(m)
      BY <1>1, <2>2 DEF HandleOpen, SendStatus, Openable, profiles, slots, L!Open, L!Advance
    <3>2. QED
      BY <3>1 DEF L!Next, L!MarketStep
  <2>3. QED
    BY <1>1, <2>1, <2>2 DEF HandleOpen, SendStatus
<1>2. CASE HandleClose(m)
  <2>1. CASE UNCHANGED status
    BY <1>2, <2>1 DEF HandleClose, SendStatus, profiles, slots, L!vars
  <2>2. CASE Closable(m) /\ status' = [status EXCEPT ![m] = "closed"]
    <3>1. L!Close(m)
      BY <1>2, <2>2 DEF HandleClose, SendStatus, Closable, profiles, slots, L!Close, L!Advance
    <3>2. QED
      BY <3>1 DEF L!Next, L!MarketStep
  <2>3. QED
    BY <1>2, <2>1, <2>2 DEF HandleClose, SendStatus
<1>3. CASE SettleBatch(m)
  <2>1. CASE UNCHANGED holds
    BY <1>3, <2>1 DEF SettleBatch, chain, slots, L!vars
  <2>2. ASSUME NEW batch, Payable(m, batch \cap Agents), holds' = Settled(batch, m)
        PROVE  [L!Next]_(L!vars)
    <3> DEFINE paid == batch \cap Agents
    <3>1. holds' = [a \in Agents |-> IF a \in paid THEN holds[a] \ {m} ELSE holds[a]]
      BY <2>2 DEF Settled
    <3>2. status[m] = "closed" /\ \A a \in paid : aLoc[a] = mLoc[m] /\ mLoc[m] # "leaving"
      BY <2>2 DEF Payable, Leavable
    <3>3. L!Pay(paid, m)
      BY <1>3, <3>1, <3>2 DEF SettleBatch, chain, L!Pay, L!Beside
    <3>4. QED
      BY <3>3 DEF L!Next, L!MarketStep
  <2>3. \A batch : Payable(m, batch) => Payable(m, batch \cap Agents)
    BY DEF Payable
  <2>4. QED
    BY <1>3, <2>1, <2>2, <2>3 DEF SettleBatch, slots
<1>4. CASE CommitAndUndelegate(m)
  <2>1. CASE UNCHANGED mLoc
    BY <1>4, <2>1 DEF CommitAndUndelegate, profiles, slots, L!vars
  <2>2. CASE Leavable(m) /\ mLoc' = [mLoc EXCEPT ![m] = "leaving"]
    <3>1. L!Leave(m)
      BY <1>4, <2>2 DEF CommitAndUndelegate, Leavable, profiles, slots, L!Leave, L!Carry
    <3>2. QED
      BY <3>1 DEF L!Next, L!MarketStep
  <2>3. QED
    BY <1>4, <2>1, <2>2 DEF CommitAndUndelegate
<1>5. CASE RefreshOneMarket(m) \/ FindUnsettledAgents(m)
  BY <1>5 DEF RefreshOneMarket, FindUnsettledAgents, chain, profiles, slots, L!vars
<1>6. QED
  BY <1>1, <1>2, <1>3, <1>4, <1>5 DEF Handler

\* Owners, market-ops, the agent pass, the validator and the clock.
LEMMA OthersMap == ASSUME Inv, Others PROVE [L!Next]_(L!vars)
<1>1. ASSUME NEW m \in Ids, OpsClose(m) PROVE L!Next
  <2>1. L!Close(m)
    BY <1>1 DEF OpsClose, Closable, profiles, slots, L!Close, L!Advance
  <2>2. QED
    BY <2>1 DEF L!Next, L!MarketStep
<1>2. ASSUME NEW a \in Agents, LeaveRollup(a) PROVE L!Next
  <2>1. L!Move(a, "er", "leaving")
    BY <1>2 DEF LeaveRollup, chain, slots, L!Move
  <2>2. QED
    BY <2>1 DEF L!Next, L!AgentStep
<1>3. ASSUME NEW a \in Agents, NEW m \in Ids, PlaceBet(a, m) PROVE L!Next
  <2>1. L!Enter(a, m)
    BY <1>3 DEF PlaceBet, TradesOn, chain, L!Enter, L!Beside
  <2>2. QED
    BY <2>1 DEF L!Next, L!AgentStep
<1>7. ASSUME NEW a \in Agents, NEW m \in Ids, SellOut(a, m) PROVE L!Next
  <2>1. L!Sell(a, m)
    BY <1>7 DEF SellOut, TradesOn, chain, L!Sell, L!Beside
  <2>2. QED
    BY <2>1 DEF L!Next, L!AgentStep
<1>4. ASSUME NEW a \in Agents, NEW m \in Ids, FlattenPosition(a, m) PROVE L!Next
  <2>1. holds' = [b \in Agents |-> IF b \in {a} THEN holds[b] \ {m} ELSE holds[b]]
    BY <1>4 DEF FlattenPosition, Settled
  <2>2. L!Pay({a}, m)
    BY <1>4, <2>1 DEF FlattenPosition, Payable, Leavable, chain, L!Pay, L!Beside
  <2>3. QED
    BY <2>2 DEF L!Next, L!MarketStep
<1>5. CASE Crash
  BY <1>5 DEF Crash, chain, profiles, slots, L!vars
<1>6. QED
  BY <1>1, <1>2, <1>3, <1>4, <1>5, <1>7 DEF Others

LEMMA NextMaps == Inv /\ [Next]_vars => [L!Next]_(L!vars)
<1> SUFFICES ASSUME Inv, [Next]_vars PROVE [L!Next]_(L!vars)
  OBVIOUS
<1>1. ASSUME NEW a \in Agents, DelegateAgent(a) PROVE [L!Next]_(L!vars)
  <2>1. CASE UNCHANGED aLoc
    BY <1>1, <2>1 DEF DelegateAgent, chain, slots, L!vars
  <2>2. CASE aLoc[a] = "base" /\ aLoc' = [aLoc EXCEPT ![a] = "er"]
    <3>1. L!Move(a, "base", "er")
      BY <1>1, <2>2 DEF DelegateAgent, chain, slots, L!Move
    <3>2. QED
      BY <3>1 DEF L!Next, L!AgentStep
  <2>3. QED
    BY <1>1, <2>1, <2>2 DEF DelegateAgent
<1>2. CASE HandBack
  <2>1. ASSUME NEW m \in Ids, mLoc[m] = "leaving", mLoc' = [mLoc EXCEPT ![m] = "base"],
               UNCHANGED aLoc
        PROVE  L!Next
    <3>1. L!Return(m)
      BY <1>2, <2>1 DEF HandBack, slots, L!Return, L!Carry
    <3>2. QED
      BY <3>1 DEF L!Next, L!MarketStep
  <2>2. ASSUME NEW a \in Agents, aLoc[a] = "leaving", aLoc' = [aLoc EXCEPT ![a] = "base"],
               UNCHANGED mLoc
        PROVE  L!Next
    <3>1. L!Move(a, "leaving", "base")
      BY <1>2, <2>2 DEF HandBack, slots, L!Move
    <3>2. QED
      BY <3>1 DEF L!Next, L!AgentStep
  <2>3. QED
    BY <1>2, <2>1, <2>2 DEF HandBack
<1>3. CASE Second \/ UNCHANGED vars
  BY <1>3 DEF Second, vars, chain, profiles, slots, L!vars
<1>4. QED
  BY <1>1, <1>2, <1>3, TickMaps, HandlerMaps, OthersMap DEF Next

\* The accounts under the scheduler, market-ops, traders, owners and the
\* validator keep to the life cycle that the program keeps to, for any number of
\* markets and profiles, any schedule and any sequence of failures and restarts.
THEOREM LifeCycleKept == Spec => KeepsLifeCycle
<1>1. Init => Inv
  BY InitInv, InitHolds DEF Inv
<1>2. Inv /\ [Next]_vars => Inv'
  BY NextInv, HoldsKept DEF Inv
<1>3. QED
  BY <1>1, <1>2, InitMaps, NextMaps, PTL DEF Spec, KeepsLifeCycle, L!Spec
=============================================================================
