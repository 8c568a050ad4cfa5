----------------------------- MODULE Scheduler ------------------------------
(***************************************************************************)
(* The scheduler process over the accounts it keeps alive.  Its loop is    *)
(* sequential but awaits every call; each action is the code between two   *)
(* awaits, so the clock, the owners of profiles, market-ops and the        *)
(* rollup's validator act in between.                                      *)
(*                                                                         *)
(* Of a market only its status, its window and its layer matter here; what *)
(* the instructions do to a book is in Kestrel.  "open" stands for open    *)
(* and halted: close_market and the scheduler treat the two alike.         *)
(*                                                                         *)
(* The wall clock counts seconds, for windows.  Timers in milliseconds     *)
(* (cool-downs, age of the cache, the agent pass) are not kept: a step that *)
(* depends on one may find it running or run out, and Fairness says that   *)
(* it does not find it running for ever.                                   *)
(***************************************************************************)
EXTENDS Integers, FiniteSets, FiniteSetsExt

CONSTANTS
    LastId,         \* the last market id the instance creates
    Agents,         \* owners of profiles
    Keyed,          \* owners whose key is in agentKeypairsDir
    MaxPositions,   \* the length of a profile's slot array
    Window,         \* windowSecs
    Target,         \* horizonSecs \div windowSecs
    Buffer,         \* onchainWindowBufferSecs
    MaxPasses,      \* MAX_ER_OPEN_CLOSE_PASSES_PER_TICK
    MaxRounds,      \* MAX_HORIZON_CREATE_DELEGATE_PER_TICK
    BatchSize,      \* SETTLE_BATCH_SIZE
    \* What the environment does (bounds of the instance, not of the code):
    MaxTime,        \* the clock stops here
    Disturbances,   \* how often a call fails, the process dies or an owner leaves
    Lossy           \* markets whose copy on the rollup may be unreadable

ASSUME IdsAssumption == LastId \in Nat
ASSUME ScheduleAssumption ==
    /\ Window \in Nat \ {0} /\ Target \in Nat /\ Buffer \in Nat
    /\ MaxPasses \in Nat \ {0} /\ MaxRounds \in Nat \ {0} /\ BatchSize \in Nat \ {0}
ASSUME OwnersAssumption == Keyed \subseteq Agents /\ MaxPositions \in Nat \ {0}
ASSUME BoundsAssumption ==
    /\ MaxTime \in Nat /\ Disturbances \in Nat /\ Lossy \subseteq 0..LastId

\* config.market_count is the next id: the scheduler creates them in order.
Ids == 0..LastId

VARIABLES
    clock,                \* the wall clock, in seconds
    status, openTs, mLoc, \* the markets on chain
    aLoc, holds,          \* the profiles: layer, markets they hold positions in
    free,                 \* the market ids that the empty slots of each still name
    spare,                \* disturbances left
    pc,                   \* where tick() is
    pass, round,          \* its loop counters
    plan,                 \* the market ensureHorizonOnce is creating
    cache,                \* state.markets
    done,                 \* markets whose doneAt is set
    job,                  \* what the handler of each market awaits
    listed,               \* profiles a settle handler still has to send
    strays,               \* profiles the agent pass still has to delegate
    \* History, which no step looks at: the markets that the scan which planned
    \* each market was not given.
    unread

chain == <<status, openTs, unread, mLoc>>
slots == <<holds, free>>
profiles == <<aLoc, slots>>
memory == <<cache, done>>
loop == <<pc, pass, round, plan>>
work == <<job, listed>>
vars == <<clock, chain, profiles, spare, loop, memory, work, strays>>

-----------------------------------------------------------------------------
Statuses == {"none", "pending", "open", "closed"}
Locations == {"base", "er", "leaving"}
Rows == [status : Statuses, delegated : BOOLEAN]
Unknown == [status |-> "none", delegated |-> FALSE]
NoPlan == [id |-> 0, openTs |-> 0, unread |-> {}]

TypeOK ==
    /\ clock \in 0..MaxTime
    /\ status \in [Ids -> Statuses] /\ openTs \in [Ids -> Nat] /\ mLoc \in [Ids -> Locations]
    /\ unread \in [Ids -> SUBSET Ids] /\ aLoc \in [Agents -> Locations]
    /\ holds \in [Agents -> SUBSET Ids] /\ free \in [Agents -> SUBSET Ids]
    /\ spare \in 0..Disturbances
    /\ pc \in {"idle", "first", "horizon", "create", "delegate", "fetch", "mid",
               "last", "settle", "await"}
    /\ pass \in 0..MaxPasses /\ round \in 0..MaxRounds
    /\ plan \in [id : Ids, openTs : Nat, unread : SUBSET Ids]
    /\ cache \in [Ids -> Rows] /\ done \subseteq Ids
    /\ job \in [Ids -> {"none", "open", "close", "list", "pay", "commit", "read"}]
    /\ listed \in [Ids -> SUBSET Agents] /\ strays \subseteq Agents

\* A process that has just started: it knows nothing of what it did before.
Restarted ==
    /\ pc' = "idle" /\ pass' = 0 /\ round' = 0 /\ plan' = NoPlan
    /\ cache' = [m \in Ids |-> Unknown] /\ done' = {}
    /\ job' = [m \in Ids |-> "none"] /\ listed' = [m \in Ids |-> {}] /\ strays' = {}

Init ==
    /\ clock = 0
    /\ status = [m \in Ids |-> "none"] /\ openTs = [m \in Ids |-> 0]
    /\ mLoc = [m \in Ids |-> "base"] /\ unread = [m \in Ids |-> {}]
    /\ aLoc \in [Agents -> {"base", "er"}]
    /\ holds = [a \in Agents |-> {}] /\ free = [a \in Agents |-> {0}]
    /\ spare = Disturbances
    /\ pc = "idle" /\ pass = 0 /\ round = 0 /\ plan = NoPlan
    /\ cache = [m \in Ids |-> Unknown] /\ done = {}
    /\ job = [m \in Ids |-> "none"] /\ listed = [m \in Ids |-> {}] /\ strays = {}

-----------------------------------------------------------------------------
(* The chain as the scheduler meets it.                                    *)

CloseTs(m) == openTs[m] + Window
Created == {m \in Ids : status[m] # "none"}

\* The checks of open_market, close_market and commit_and_undelegate_market on
\* the rollup.  A stale price is one of the reasons a call fails (Fault).
Openable(m) ==
    mLoc[m] = "er" /\ status[m] = "pending" /\ openTs[m] <= clock /\ clock < CloseTs(m)
Closable(m) == mLoc[m] = "er" /\ status[m] = "open" /\ clock >= CloseTs(m)
Leavable(m) == mLoc[m] = "er" /\ status[m] = "closed"

\* findUnsettledAgentsForMarket looks at the id of a slot and not at what is in
\* it: 0 in a slot never used or settled, the old market in one that was sold.
LooksUnsettled(a, m) == m \in holds[a] \cup free[a]

Fault == spare > 0 /\ spare' = spare - 1

\* What an account's row reads; isDelegated looks at the base chain's owner,
\* which is the delegation program until the validator hands the account back.
Row(m) == [status |-> status[m], delegated |-> mLoc[m] # "base"]

\* listMarkets leaves out a row whose copy on the rollup cannot be fetched.
Listing(gone) == Created \ gone
Losses == SUBSET {m \in Lossy : mLoc[m] # "base"}
LossOf(gone) == IF gone = {} THEN UNCHANGED spare ELSE Fault

\* refreshMarkets replaces the map; a version that only adds what is missing.
Fresh_AddsOnly(gone) ==
    [m \in Ids |-> IF cache[m] = Unknown /\ m \in Listing(gone) THEN Row(m) ELSE cache[m]]
Fresh(gone) == [m \in Ids |-> IF m \in Listing(gone) THEN Row(m) ELSE Unknown]

RefreshMarkets ==
    \/ \E gone \in Losses : cache' = Fresh(gone) /\ LossOf(gone)
    \/ Fault /\ UNCHANGED cache

-----------------------------------------------------------------------------
(* tick: the phases of the loop.                                           *)

\* Every handler a phase started has returned (Promise.allSettled).
Quiet == \A m \in Ids : job[m] = "none"

Goto(l) == pc' = l /\ pass' = 0 /\ plan' = NoPlan

\* The list is fetched again if it is older than marketListRefreshMs.
TickBegins(aged) ==
    /\ pc = "idle"
    /\ Goto("first") /\ UNCHANGED round
    /\ IF aged THEN RefreshMarkets ELSE UNCHANGED <<cache, spare>>
    /\ UNCHANGED <<clock, chain, profiles, done, work, strays>>

\* The call a cached row asks for now.
Due(m, op) ==
    /\ m \notin done /\ cache[m].delegated
    /\ \/ op = "open" /\ cache[m].status = "pending" /\ clock >= openTs[m] + Buffer
       \/ op = "close" /\ cache[m].status = "open" /\ clock >= CloseTs(m) + Buffer
       \/ op = "list" /\ cache[m].status = "closed"

ToDo(ops) == {m \in Ids : \E op \in ops : Due(m, op)}

\* A handler is started, all of them at once, for each market that is due and
\* not cooling down from an earlier attempt.
Dispatch(ready, ops) ==
    job' = [m \in Ids |-> IF m \in ready THEN CHOOSE op \in ops : Due(m, op) ELSE job[m]]

\* The slip runs one pass too many.
PassLimit_OffByOne == IF pc = "mid" THEN 1 ELSE MaxPasses + 1
PassLimit == IF pc = "mid" THEN 1 ELSE MaxPasses
AfterPasses == IF pc = "last" THEN "settle" ELSE "horizon"

RunErOpenClosePass ==
    /\ pc \in {"first", "mid", "last"} /\ Quiet
    /\ \E ready \in SUBSET ToDo({"open", "close"}) :
          /\ Dispatch(ready, {"open", "close"})
          /\ IF pass < PassLimit /\ ready # {}
             THEN pass' = pass + 1 /\ UNCHANGED <<pc, plan, round>>
             ELSE /\ ready = {}
                  /\ IF pc = "mid" /\ round = MaxRounds
                     THEN Goto("last") /\ round' = 0
                     ELSE Goto(AfterPasses) /\ UNCHANGED round
    /\ UNCHANGED <<clock, chain, profiles, spare, memory, listed, strays>>

SettlePhase ==
    /\ pc = "settle"
    /\ Goto("await") /\ UNCHANGED round
    /\ \E ready \in SUBSET ToDo({"list"}) : Dispatch(ready, {"list"})
    /\ done' = done \cup {m \in Ids : cache[m].status = "closed" /\ ~cache[m].delegated}
    /\ UNCHANGED <<clock, chain, profiles, spare, cache, listed, strays>>

\* The pass over agents is not awaited: it runs on while ticks follow, and a
\* later one may start before it ends.  listAgents comes first in it.
TickEnds(agentsDue) ==
    /\ pc = "await" /\ Quiet
    /\ Goto("idle") /\ UNCHANGED round
    /\ \/ /\ strays' = IF agentsDue THEN strays \cup {a \in Keyed : aLoc[a] = "base"}
                                    ELSE strays
          /\ UNCHANGED spare
       \/ agentsDue /\ Fault /\ UNCHANGED strays
    /\ UNCHANGED <<clock, chain, profiles, memory, work>>

-----------------------------------------------------------------------------
(* ensureHorizonOnce.                                                      *)

AlignUp(ts) == ((ts + Window - 1) \div Window) * Window

\* The markets that count as stock: pending ones still ahead, delegated or not.
FuturePending_Delegated(gone) ==
    {m \in Listing(gone) : /\ status[m] = "pending" /\ openTs[m] >= clock
                           /\ mLoc[m] # "base"}
FuturePending(gone) ==
    {m \in Listing(gone) : status[m] = "pending" /\ openTs[m] >= clock}

NextOpenTs(gone) ==
    IF FuturePending(gone) = {} THEN AlignUp(clock)
    ELSE AlignUp(Max({openTs[m] : m \in FuturePending(gone)}) + Window)

\* ensureHorizonOnce returned null: the horizon is full, or a call failed.
GiveUp == Goto("last") /\ round' = 0

ScanHorizon ==
    /\ pc = "horizon"
    /\ \/ Fault /\ GiveUp
       \/ \E gone \in Losses :
             /\ LossOf(gone)
             /\ IF Cardinality(FuturePending(gone)) < Target /\ Created # Ids
                THEN /\ pc' = "create"
                     /\ plan' = [id |-> Cardinality(Created), openTs |-> NextOpenTs(gone),
                                 unread |-> gone]
                     /\ UNCHANGED <<pass, round>>
                ELSE GiveUp
    /\ UNCHANGED <<clock, chain, profiles, memory, work, strays>>

CanCreate == status[plan.id] = "none" /\ plan.openTs + Window > clock

\* create_market: executed and answered, executed with the answer lost, or not
\* executed (its close_ts has passed, or the call failed).
CreateMarket ==
    /\ pc = "create"
    /\ \/ /\ CanCreate
          /\ status' = [status EXCEPT ![plan.id] = "pending"]
          /\ openTs' = [openTs EXCEPT ![plan.id] = plan.openTs]
          /\ unread' = [unread EXCEPT ![plan.id] = plan.unread]
          /\ \/ pc' = "delegate" /\ UNCHANGED <<pass, round, plan, spare>>
             \/ Fault /\ GiveUp
       \/ /\ IF CanCreate THEN Fault ELSE UNCHANGED spare
          /\ GiveUp /\ UNCHANGED <<status, openTs, unread>>
    /\ UNCHANGED <<clock, mLoc, profiles, memory, work, strays>>

DelegateMarket ==
    /\ pc = "delegate"
    /\ \/ /\ mLoc' = [mLoc EXCEPT ![plan.id] = "er"]
          /\ \/ pc' = "fetch" /\ UNCHANGED <<pass, round, plan, spare>>
             \/ Fault /\ GiveUp
       \/ Fault /\ GiveUp /\ UNCHANGED mLoc
    /\ UNCHANGED <<clock, status, openTs, unread, profiles, memory, work, strays>>

\* Back in tick: the new row alone, or the whole list if that read failed.
FetchCreated ==
    /\ pc = "fetch"
    /\ Goto("mid") /\ round' = round + 1
    /\ \/ cache' = [cache EXCEPT ![plan.id] = Row(plan.id)] /\ UNCHANGED spare
       \/ Fault /\ \E gone \in Losses : cache' = Fresh(gone)
       \/ Fault /\ UNCHANGED cache
    /\ UNCHANGED <<clock, chain, profiles, done, work, strays>>

-----------------------------------------------------------------------------
(* The handlers: one per market at a time, those of a phase in parallel.    *)

Then(m, stage) == job' = [job EXCEPT ![m] = stage]

\* The answer of a transaction that was executed: seen, or lost.  sendErTx's
\* second attempt at an executed transaction fails on chain, like a lost answer.
Answer(m, stage) == \/ Then(m, stage) /\ UNCHANGED spare
                    \/ Then(m, "none") /\ Fault

\* A transaction that is not executed: refused on chain, or failed before.
NoAnswer(m, allowed) ==
    Then(m, "none") /\ IF allowed THEN Fault ELSE UNCHANGED spare

SendStatus(m, op, allowed, new) ==
    /\ job[m] = op
    /\ \/ allowed /\ status' = [status EXCEPT ![m] = new] /\ Answer(m, "read")
       \/ NoAnswer(m, allowed) /\ UNCHANGED status
    /\ UNCHANGED <<clock, openTs, unread, mLoc, profiles, loop, memory, listed, strays>>

HandleOpen(m) == SendStatus(m, "open", Openable(m), "open")
HandleClose(m) == SendStatus(m, "close", Closable(m), "closed")

\* refreshOneMarket: on an error the old row stays.
RefreshOneMarket(m) ==
    /\ job[m] = "read"
    /\ Then(m, "none")
    /\ \/ cache' = [cache EXCEPT ![m] = Row(m)] /\ UNCHANGED spare
       \/ Fault /\ UNCHANGED cache
    /\ UNCHANGED <<clock, chain, profiles, loop, done, listed, strays>>

\* finalizeMarket, first await: only profiles the program owns on the base chain
\* are listed.
FindUnsettledAgents(m) ==
    /\ job[m] = "list"
    /\ \/ /\ listed' = [listed EXCEPT ![m] =
                 {a \in Agents : aLoc[a] = "base" /\ LooksUnsettled(a, m)}]
          /\ Then(m, "pay") /\ UNCHANGED spare
       \/ Then(m, "none") /\ Fault /\ UNCHANGED listed
    /\ UNCHANGED <<clock, chain, profiles, loop, memory, strays>>

Batches(m) ==
    {b \in SUBSET listed[m] : \/ b = listed[m] /\ Cardinality(b) <= BatchSize
                              \/ Cardinality(b) = BatchSize}

\* settle_positions wants the market and every profile of the batch on the ER, and
\* resets the slot of the market.  The slip empties all slots of a profile.
Payable(m, batch) == Leavable(m) /\ \A a \in batch : aLoc[a] = "er"
Settled_Whole(batch, m) == [a \in Agents |-> IF a \in batch THEN {} ELSE holds[a]]
Settled(batch, m) == [a \in Agents |-> IF a \in batch THEN holds[a] \ {m} ELSE holds[a]]
Reset(batch, m) ==
    [a \in Agents |-> IF a \in batch /\ m \in holds[a] THEN free[a] \cup {0} ELSE free[a]]

\* Batches go out one after the other; a failure of one ends the handler.
SettleBatch(m) ==
    /\ job[m] = "pay" /\ listed[m] # {}
    /\ \E batch \in Batches(m) :
          \/ /\ Payable(m, batch)
             /\ holds' = Settled(batch, m) /\ free' = Reset(batch, m)
             /\ \/ /\ listed' = [listed EXCEPT ![m] = @ \ batch]
                   /\ UNCHANGED <<job, spare>>
                \/ Fault /\ Then(m, "none") /\ listed' = [listed EXCEPT ![m] = {}]
          \/ /\ NoAnswer(m, Payable(m, batch))
             /\ listed' = [listed EXCEPT ![m] = {}] /\ UNCHANGED slots
    /\ UNCHANGED <<clock, chain, aLoc, loop, memory, strays>>

\* doneAt is set when the commit answered; a failed one is only logged.  The
\* slip forgets to look at the answer.
DoneAfter_Anyway(m, answered) == done \cup {m}
DoneAfter(m, answered) == IF answered THEN done \cup {m} ELSE done

CommitAndUndelegate(m) ==
    /\ job[m] = "pay" /\ listed[m] = {}
    /\ Then(m, "read")
    /\ \/ /\ Leavable(m)
          /\ mLoc' = [mLoc EXCEPT ![m] = "leaving"]
          /\ \/ done' = DoneAfter(m, TRUE) /\ UNCHANGED spare
             \/ done' = DoneAfter(m, FALSE) /\ Fault
       \/ /\ IF Leavable(m) THEN Fault ELSE UNCHANGED spare
          /\ done' = DoneAfter(m, FALSE) /\ UNCHANGED mLoc
    /\ UNCHANGED <<clock, status, openTs, unread, profiles, loop, cache, listed, strays>>

Handler(m) ==
    \/ HandleOpen(m) \/ HandleClose(m) \/ RefreshOneMarket(m)
    \/ FindUnsettledAgents(m) \/ SettleBatch(m) \/ CommitAndUndelegate(m)

\* delegateUndelegatedAgentsOnce, one profile of its list; errors are logged.
DelegateAgent(a) ==
    /\ a \in strays
    /\ strays' = strays \ {a}
    /\ \/ aLoc[a] = "base" /\ aLoc' = [aLoc EXCEPT ![a] = "er"] /\ UNCHANGED spare
       \/ aLoc[a] = "base" /\ Fault /\ UNCHANGED aLoc
       \/ aLoc[a] # "base" /\ UNCHANGED <<aLoc, spare>>
    /\ UNCHANGED <<clock, chain, slots, loop, memory, work>>

-----------------------------------------------------------------------------
(* Everyone else.                                                          *)

Second ==
    /\ clock < MaxTime /\ clock' = clock + 1
    /\ UNCHANGED <<chain, profiles, spare, loop, memory, work, strays>>

\* market-ops closes markets that are past their window, too.
OpsClose(m) ==
    /\ Closable(m)
    /\ status' = [status EXCEPT ![m] = "closed"]
    /\ UNCHANGED <<clock, openTs, unread, mLoc, profiles, spare, loop, memory, work, strays>>

\* The ids left in the empty slots when one that reads id is taken; several may
\* read the same.
Remaining(a, id, taken) ==
    {rest \in {free[a], free[a] \ {id}} :
        /\ rest = {} <=> taken = MaxPositions
        /\ taken + Cardinality(rest) <= MaxPositions}

TradesOn(a, m) == aLoc[a] = "er" /\ mLoc[m] = "er" /\ status[m] = "open" /\ clock < CloseTs(m)

PlaceBet(a, m) ==
    /\ TradesOn(a, m) /\ m \notin holds[a]
    /\ holds' = [holds EXCEPT ![a] = @ \cup {m}]
    /\ \E id \in free[a] : \E rest \in Remaining(a, id, Cardinality(holds[a]) + 1) :
          free' = [free EXCEPT ![a] = rest]
    /\ UNCHANGED <<clock, chain, aLoc, spare, loop, memory, work, strays>>

\* close_position of all shares or cancel_bet, which leave the id in the slot.
SellOut(a, m) ==
    /\ TradesOn(a, m) /\ m \in holds[a]
    /\ holds' = [holds EXCEPT ![a] = @ \ {m}]
    /\ free' = [free EXCEPT ![a] = @ \cup {m}]
    /\ UNCHANGED <<clock, chain, aLoc, spare, loop, memory, work, strays>>

\* An owner frees the slot of a closed market, with settle_position.
FlattenPosition(a, m) ==
    /\ m \in holds[a] /\ Payable(m, {a})
    /\ holds' = Settled({a}, m) /\ free' = Reset({a}, m)
    /\ UNCHANGED <<clock, chain, aLoc, spare, loop, memory, work, strays>>

\* An owner takes the profile off the rollup, to deposit or to withdraw.
LeaveRollup(a) ==
    /\ aLoc[a] = "er" /\ Fault
    /\ aLoc' = [aLoc EXCEPT ![a] = "leaving"]
    /\ UNCHANGED <<clock, chain, slots, loop, memory, work, strays>>

HandBack ==
    /\ \/ \E m \in Ids : /\ mLoc[m] = "leaving"
                         /\ mLoc' = [mLoc EXCEPT ![m] = "base"] /\ UNCHANGED aLoc
       \/ \E a \in Agents : /\ aLoc[a] = "leaving"
                            /\ aLoc' = [aLoc EXCEPT ![a] = "base"] /\ UNCHANGED mLoc
    /\ UNCHANGED <<clock, status, openTs, unread, slots, spare, loop, memory, work, strays>>

Crash ==
    /\ Fault /\ Restarted
    /\ UNCHANGED <<clock, chain, profiles>>

-----------------------------------------------------------------------------

Tick ==
    \/ \E expired \in BOOLEAN : TickBegins(expired) \/ TickEnds(expired)
    \/ RunErOpenClosePass \/ SettlePhase
    \/ ScanHorizon \/ CreateMarket \/ DelegateMarket \/ FetchCreated

Others ==
    \/ \E m \in Ids : OpsClose(m)
    \/ \E a \in Agents : LeaveRollup(a)
    \/ \E a \in Agents, m \in Ids : PlaceBet(a, m) \/ SellOut(a, m) \/ FlattenPosition(a, m)
    \/ Crash

Next ==
    \/ Tick
    \/ \E m \in Ids : Handler(m)
    \/ \E a \in Agents : DelegateAgent(a)
    \/ Second \/ HandBack
    \/ Others

Spec == Init /\ [][Next]_vars

\* A handler for market m is started.
Starts(m) == (RunErOpenClosePass \/ SettlePhase) /\ job'[m] # job[m]

\* setInterval keeps calling tick, every awaited call returns one way or the
\* other, time passes and the validator hands accounts back.  Strong fairness
\* stands for the timers: one that is looked at again and again has run out at
\* some of the looks.  Nothing is assumed of traders, owners or market-ops.
Fairness ==
    /\ WF_vars(Tick) /\ SF_vars(TickBegins(TRUE)) /\ SF_vars(TickEnds(TRUE))
    /\ \A m \in Ids : SF_vars(Starts(m)) /\ WF_vars(Handler(m))
    /\ \A a \in Agents : WF_vars(DelegateAgent(a))
    /\ WF_vars(Second) /\ WF_vars(HandBack)

FairSpec == Spec /\ Fairness

-----------------------------------------------------------------------------
(* What must hold.                                                         *)

\* loop.ts never looks at a market again once doneAt is set, and a restart
\* forgets it: it is set only for a market that is closed and has left the
\* rollup, whatever was lost or retried on the way.
DoneMeansFinished == \A m \in done : status[m] = "closed" /\ mLoc[m] # "er"

\* Two pending markets share a window only if the scan that planned one of them
\* was not given the other, which listMarkets leaves out when its copy on the
\* rollup cannot be read; even if an answer was lost or the process restarted
\* between create_market and delegate_market.
NoDoubleWindow ==
    \A m, n \in Ids :
        m # n /\ status[m] = "pending" /\ status[n] = "pending" /\ openTs[m] = openTs[n] =>
            m \in unread[n] \/ n \in unread[m]

\* Finished: closed, back on the base chain and off the scheduler's hands.
Retired(m) == status[m] = "closed" /\ mLoc[m] = "base" /\ m \in done

\* Every market that opened is closed, brought home and retired, in spite of lost
\* answers, a stale cache, a crash, or a profile that comes to the base chain with
\* a position in it.  It says nothing of positions: NoneFoundMeansNone does.
OpenedIsRetired ==
    \A m \in Ids : (status[m] = "open" /\ CloseTs(m) + Buffer <= MaxTime) ~> Retired(m)

\* "Scheduler creates markets on base layer, delegates them to ER" (README.md),
\* "Create one market on base + delegate it to ER" (horizon.ts): no market that
\* was created stays on the base chain for good.
CreatedIsDelegated == \A m \in Ids : status[m] = "pending" ~> mLoc[m] # "base"

\* "settle: no agent positions to settle" (settle.ts): when the handler finds
\* nobody and goes on to commit, nobody holds a position in the market.
NoneFoundMeansNone ==
    [][\A m \in Ids : FindUnsettledAgents(m) /\ job'[m] = "pay" /\ listed'[m] = {} =>
          \A a \in Agents : m \notin holds[a]]_vars

=============================================================================
