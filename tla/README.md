# Kestrel in TLA+

Models, model-checking configurations and machine-checked proofs for Kestrel, a
prediction market on Solana whose trading runs on a MagicBlock ephemeral rollup
(ER). The reference is the source tree; paths below are relative to it.

## 1. The system

| Component | State it keeps | Operations | What makes it correct |
|---|---|---|---|
| **On-chain program** `programs/kestrel/src` | `Config` (fee, market count), one `Market` account per id, one `AgentProfile` per owner, vault and treasury token accounts; the owner of each account says which layer it is on | 20 instructions: create, delegate, open, halt, resume, close, commit, undelegate a market; register, fund, withdraw, delegate, undelegate a profile; bet, sell, cancel, settle | Books stay solvent under rounding; the vault covers every claim; an outcome is final; a position is paid once, from its own market |
| **Scheduler** `scheduler/src` | per-market cool-downs and `doneAt`, the set of delegated agents, an in-memory snapshot of the accounts | every tick: list, open, close, create and delegate ahead of time, settle in batches of 8, undelegate; delegate stray profiles; patch rows of markets as it opens and closes them | Every window gets a market, every market is closed and settled, no position is left behind |
| **Agents** `agents/src` (`trader`, `risk_lp`, `market_ops`) | what each process believes of the current market and of its profile | boot (register, deposit, delegate, wait), bet, hedge, cancel, halt, resume, close | They follow the open market; a demo step is undone; two of them and the scheduler may act on the same account |
| **Indexer** `app/lib/indexer` | a queue, a cursor per cluster, a subscription, what is in flight; rows in Postgres | backfill, live subscription, reconnect, ingest one signature | Every signature ends in the rows, once; what one writer found out no other blanks |
| **REST API** `app/app/api/v1` | none | builds unsigned transactions after a few reads; sends signed ones; reads accounts | What it offers can be executed; nobody is left between the layers |
| **Web app, queries, scripts, generated code** | none | rendering, reads, one-shot operator calls | not modelled |

They interact only through the chain: the scheduler and the agents send
transactions to either layer and read accounts back later, the indexer reads
the logs; scheduler, agents and indexer also write to the same rows of the
database. A transaction is atomic; what is read before it is stale by the time
it runs. Nothing tells an account's reader that the account has moved to the
other layer.

The hard behaviours are of four kinds: integer arithmetic whose error
accumulates over many trades; money that lives on one layer and bookkeeping
that lives on the other; two off-chain actors that act on the same account from
different snapshots; and transactions that fail, time out or are seen out of
order. `PROJECT.json` lists each hazard at its line with the properties that
cover it, or with the reason why none does.

## 2. Modules

| Module | What it is |
|---|---|
| `Cpmm` | The book's integer arithmetic: `CeilDiv`, `SharesOut`, `UsdcOut` |
| `Kestrel` | The program: one action per instruction, plus clock, price publisher and rollup validator |
| `Escrow` | The abstract specification: balances, claims, one pot per market, and what may move between them |
| `KestrelEscrow` | The refinement mapping from `Kestrel` to `Escrow` |
| `LifeCycle` | The abstract specification of both `Kestrel` and `Scheduler`: where markets and profiles are, and who holds a position when |
| `KestrelLifeCycle`, `SchedulerLifeCycle` | The refinement mappings to it |
| `Scheduler` | The scheduler process: tick, handlers, agent pass, over the accounts of two layers |
| `Calls` | A transaction sent from outside, what becomes of it and what its sender learns |
| `Trading` | trader, risk LP and market-ops over a few market windows; uses `Calls` |
| `Profiles` | A profile on two layers: register, deposit, withdraw, delegate, undelegate, the scheduler's pass over strays; uses `Calls` |
| `Onboarding` | Boots of the agents and REST clients, composed with `Profiles` |
| `IndexerRows` | What the indexer makes of one transaction: pure definitions |
| `Indexer` | The indexer's worker on both clusters, with the other writers of its tables; uses `IndexerRows` |
| `Arithmetic` | Lemmas about numbers, least and largest elements, and sums over finite sets |
| `KestrelProofs`, `LedgerProofs`, `RefinementProofs` | Theorems about the program: one market's book; all books, slots and accounts together; `LifeCycle` and `Escrow` |
| `SchedulerProofs`, `TradingProofs`, `OnboardingProofs`, `IndexerProofs` | Theorems about the other components |
| `MCBook`, `MCCustody`, `MCEscrow`, `MCScheduler`, `MCIndexer`, `MCTrading`, `MCOnboarding` | Instances for TLC |

`Kestrel` and `Scheduler` both describe the program, one in full and one as far
as the scheduler sees it. `LifeCycle` is what ties them: both are shown to
implement it, so that neither does what it forbids. It is permissive, and does
not say that the scheduler's chain has every behaviour of the program. `Trading` and `Profiles` are reductions of the same program
too, to a market's status and a profile's slots and to a profile's place and
balance; their map entries name the lines of the handlers they reduce.

### State and actions of `Kestrel`

* `market[m]` is a `Market` account with the two reserves and the two share
  totals as functions of the side, so that one definition serves both arms of
  each `match side`. Status `"none"` is an account that does not exist.
* `agent[a]` is the `AgentProfile` of owner `a`; `slots` is its `positions`
  array. The index a handler uses is the first one that fits, as in the code.
* `mLoc` and `aLoc` say where an account can be written: `"base"`, `"er"`, or
  `"leaving"` between `commit_and_undelegate` and the validator's hand-back.
  `Together` is the runtime's rule that a transaction's writable accounts are
  on one layer.
* `wallet`, `vault`, `treasury` are token accounts. Bets move none of them: a
  stake goes from `balance` to `total_collateral` inside the program's books.
* A failed instruction has no effect, so an error return is a conjunct of the
  action. Every check of the code that some state can fail is there, the
  solvency checks and the `u64` additions included. `u128` reserves cannot
  overflow with `u64` amounts and are plain naturals.
* A position's `settled` flag is only ever written `false` (settlement resets
  the slot instead) and `AgentStatus` is always `Active`; both are left out.
  `commit_market` copies the market to the base chain, where no instruction
  reads it before it has come back; it has no action.

The rollup itself, the clock and the price publisher are not in this repository.
They are modelled as the code uses them (`"external"` in the map): the clock
moves by itself, a price carries any publish time up to `MaxSkew` ahead of the
clock, and an account that left the rollup arrives some time later.

### State and actions of `Scheduler`

The process is single-threaded but awaits every call, so an action is the code
between two awaits, and everything else may act in between.

* `pc`, `pass`, `round`, `plan` say where `tick` is: the two loops of open/close
  passes, the horizon loop with its create, delegate and refetch, the settle
  phase. `ticking` keeps ticks apart; `pc = "idle"` is between two of them.
* `job[m]` is what the handler of market m awaits, `"none"` without one. A phase
  starts its handlers together and waits for all (`Quiet`), so there is one per
  market at most, and the handlers of several markets interleave. `listed[m]`
  are the profiles a settle handler has still to send, in batches.
* `strays` is the agent pass, which is not awaited: it runs beside later ticks.
* `cache` and `done` are `state.markets` and the markets with a `doneAt`. The
  window of a market never changes after creation and is read from the chain.
* Of the chain only what the scheduler looks at is kept: a market's status
  (`"open"` also stands for halted, which it treats alike), its window, its
  layer; a profile's layer and the markets it holds positions in. `free` are the
  ids its empty slots name: 0 in a new or a settled one, the market in one
  emptied by a sale or a cancel. An empty slot counts as an unsettled position of
  that market, as in `findUnsettledAgentsForMarket`. Which slot a bet takes, and
  whether another names the same id, is left open.
* `unread[m]` is a history variable: the markets that the scan which planned m
  was not given, because their copies on the rollup could not be read.
* A transaction may be executed and answered, executed with the answer lost, not
  executed though it could have been, or refused on chain. `Fault` takes one
  from the budget `spare` for each outcome that the chain does not force; so do
  a crash (`Restarted`: everything in memory is lost, the chain is not) and an
  owner taking a profile off the rollup. A stale price is such a failure, of
  open and of close.
* Timers in milliseconds (age of the cache, cool-downs, the agent interval) are
  left out: a step that asks one may find it running or run out.
* market-ops (`OpsClose`), traders (`PlaceBet`, `SellOut`, `FlattenPosition`), owners
  (`LeaveRollup`) and the validator (`HandBack`) act at any moment.

### State of `LifeCycle`, and the two mappings

`phase`, `layer`, `place` and `holds` are a market's status with halted read as
open, the layer of a market, the layer of a profile, and the markets it has a
position in. `KestrelLifeCycle` reads them off the accounts: a position is a slot
that holds shares or a stake. In `SchedulerLifeCycle` they are variables already.

### State and actions of `IndexerRows` and `Indexer`

* A signature is its position in the constant `Ledger`, the transactions of the
  instance in the order they land on either cluster (`Land`). A transaction is
  its instructions, inner ones last, and the position of the one that failed.
* `IndexerRows` says what `ingestSignature` makes of one: rows of events with
  their keys (`Batch`, `Numbered`), the patch of the market's row with the price
  read from its account, the patches of profiles. Which columns a call names is
  kept, since an upsert overwrites exactly those; the wording of a row is not.
* `job[s]` is the chain of awaited calls that stores s: `Fetch` (the transaction,
  the accounts, the policy), then one action for each write, in the code's order,
  then the cursor for a live one. A write that fails is logged and the chain goes
  on. Chains of different signatures interleave; `inflight` keeps two chains of
  one signature apart.
* `phase[c]`, `queue[c]`, `last[c]` are the worker of cluster c: `Boot`, list
  (`ListSignatures`, newest `Limit` in pages of `Page`), drain with `Runners`
  runners, save the cursor, subscribe (`AttachLogs`), wait and reconnect.
* `wire` holds notifications under way; they arrive in any order, may be lost or
  repeated. A live notification of a failed transaction is `dropped`.
* `PatchMarketRow` (the scheduler's, once `through` holds what it is about to
  write) and `TagAgentRole` (an agent's) write to the same tables.
* `excused` are the signatures that are lost in a way the code has no remedy for:
  an RPC or database call that failed, a listing cut at `Limit`, a lost
  notification, what landed between the listing and the subscription, what a
  crash cut off at or below the cursor. Nothing in the repository promises that
  these are stored, or says that they may be lost. Everything else must be stored.

### State and actions of `Calls`, `Profiles` and `Onboarding`

* `Calls`: a transaction is executed or not, and `sendRefreshedTx` returns a
  signature, throws, or takes it for expired and sends it signed anew. The
  ordinary outcome is the one the chain forces; every other takes a disturbance.
  A plain `sendAndConfirmTransaction` sends once (`SentOnce`).
* `profile[o]` is where a profile is, its balance, the copy of it the base chain
  shows and whether its cap on open positions was raised. `Settles` moves the
  balance while it trades; a withdrawal is free of the fee on profits.
* `pc[b]` is the step of `ensureErTradingReady` a process has reached; `Mode` says
  whether it sends everything itself, has the API build two of the transactions,
  or is market-ops. `ensureAgent` is two steps, so that a registration executed
  but taken for expired is sent again without another look, and fails. `Start`
  may come at any time, `Crash` too; a deposit of a process that died may still
  land (`late`). That nothing else it sent does is an assumption: the commit of
  the profile, the other call that could, is a rollup's transaction, and the
  rollup's blockhashes are short-lived.
* A REST client posts, signs and sends: `SendTx` is one such round, whose checks
  are those of the route it posted to, and whose transaction finds the state it
  finds; `bet/place`, `bet/close` and `bet/cancel` move its balance, and what a
  sale brings is left open. Roles trade once they run (`Bets`, `Sells`).
  `SchedulerPass` lists profiles and delegates those it holds the key of.

### State and actions of `Trading`

* One process per role, each between two awaits at a time: `pc[r]` is the call it
  makes next, `view[r]` what its tick read when it began, `todo[r]` the positions
  or markets it has still to work through. A tick ends, and the next begins.
* `demo`, `hedge`, `force`, `seen` are the memos in memory, lost in a `Crash`.
* A market is its status; who wins, amounts and prices of shares are left out. A
  position is shares, nothing, or the stake without shares of section 5. The
  price is fresh, too old for the roles, or too old for the chain.
* `Schedules` opens and closes markets as the scheduler would, at any moment, or
  never.
* `honestBets`, `hedges`, `demoTraded`, `promised` are history variables.

## 3. What the runs check

| Run | Instance | Shows |
|---|---|---|
| `book` | 1 market, 2 traders, 1 slot; seed 3, bets of 1..3, prices 1 and 2 | every order of rounded trades, halts, settlement and withdrawals |
| `custody` | 2 markets, 1 trader with 2 slots, 2 policies, rollup, prices that may be stale or early | layers, slots and policies; refinement of `LifeCycle` |
| `escrow` | 2 markets, 2 traders, 1 slot | refinement of `Escrow` |
| `cancel_leaves_zeros` | as `book` | a divergence of section 5 |
| `scheduler` | 2 windows of 2 s, horizon of 2, 1 trader with 2 slots, 2 disturbances anywhere, unreadable rows | no market is given up early; no window is scheduled twice from a full listing; refinement of `LifeCycle` |
| `scheduler_live` | 1 window of 2 s and a buffer of 1, 2 traders, batches of 1, 2 disturbances, unreadable rows | every opened market is retired |
| `created_is_delegated` | 1 market, 1 disturbance | a divergence of section 5 |
| `none_found_means_none` | 1 market, 1 trader, no disturbance | a divergence of section 5 |
| `indexer` | 4 transactions on 2 clusters, 2 runners, limit 2, pages of 1, 1 disturbance anywhere | what the cursor has passed is stored; rows only gain |
| `blocked_bets_are_shown` | 3 transactions, one refused | a divergence of section 5 |
| `trading` | 2 windows of 2 s, the trader or the risk LP beside market-ops, 1 slot, 1 disturbance anywhere | demos never trade, hedges and bets stay within their number, halts end |
| `onboarding` | a bot booting in any mode, a REST client, keys held or not, 1 disturbance anywhere | profiles are funded to the target and no further, every boot ends |

Properties of `book`: `TypeOK`; `Solvent` (shares of both sides are covered by
the stakes, without the seed, which no USDC backs); `BookMatchesPositions` (a
market's totals are the sum over the profiles); `VaultCoversClaims` (the vault
pays all balances and every market, whoever wins); `SolvencyChecksNeverFire`;
`FeesComeFromProfit`; `ResolutionFinal`. Of `custody`: `VaultCoversClaims` again,
now with accounts on two layers; `OneSlotPerMarket`; `LenCoversPositions`;
`CapRespected`; `HaltOnlyReduces`; `KeepsLifeCycle`. Of `escrow`: `ImplementsEscrow`. Of
`scheduler`: `TypeOK`; `DoneMeansFinished` (a market with `doneAt`, which no tick
looks at again, is closed and off the rollup); `NoDoubleWindow` (two pending
markets share a window only if the scan that planned one was not given the
other); `KeepsLifeCycle` (a pay-out only of a closed market and beside it, no
market off the rollup without its outcome). Of `scheduler_live`:
`OpenedIsRetired`, the leads-to from open to closed, home and done. It says
nothing of who was paid.

Properties of `indexer`: `TypeOK`; `NoUnexplainedGap` (a signature the cursor has
passed is stored, has nothing to store, is under way, or was lost in one of the
ways of section 2); `EventRowsWhole` (all rows of a signature or none, one to a
key, however often it is stored); `AppendOnly` (rows of events are never
rewritten, with other prices or policies in them, by a second pass);
`NothingBlanked` (no writer nulls a market's column, or a profile's address or
role, that another has filled in); `CatchesUp`. Of `trading`: `TypeOK`;
`HonestOnce`; `DemosNeverTrade`; `PolicyRestored`; `HedgesBounded`;
`ForcedHaltLasts`; `NoHaltForever`. Those that bound a number of bets allow one
more for each answer that was lost, and `PolicyRestored` asks nothing once one
was: the code has no other memory than the process's. Of `onboarding`: `TypeOK`;
`NeverOverfunded`; `ReadyToTrade`; `StartsEnd`; `StrayIsDelegated`.

**Bounds.** `MinSeed` is 3 instead of 1,000,000 and stakes are up to the seed:
the smaller the numbers, the larger the rounding in proportion. With k = 9 a bet
of 1 moves the price from 3:3 to 2:4 and loses a ninth of k; bets of 2 and 3 buy
the same number of shares; and a trader who waits for the other one sells at a
profit or at a loss. `Seeds` contains one value below the minimum, which
`open_market` must refuse. `U64Max` is 100: large against every amount of the
instance, so no checked addition fails there (the proofs cover any value).
`FeeBps` is 5000, so that the fee of a unit of profit is visible. The clock
stops at `MaxTime`: 1 is before and after `close_ts`, 2 adds a price that has
become stale. Two slots are the fewest in which a slot can be freed before
another that is in use. Deadlock checking is off: the instances end when the
clock has stopped and all money is out. The two traders are interchangeable,
hence the symmetry; no liveness is checked under it.

For the scheduler, two disturbances are enough for a lost answer followed by a
crash, or for a profile that leaves the rollup while a settle batch fails. Two
passes and one round per tick exercise both ways out of each loop. A horizon of
two windows makes the second window depend on the first. The clock runs until
the last window of the instance and its buffer are over: `OpenedIsRetired` asks
nothing of a market whose close the clock does not reach.

The indexer's ledger has one signature the base chain's worker must skip, a
market opened, a bet, and a bet refused behind an instruction of another
program, whose events and candidates are numbered differently. A limit of 2
and pages of 1 make a listing of three miss one and take two calls; two runners
are the fewest that finish out of order. One disturbance at any place is a lost,
repeated or failed call or a restart: together with reordering by the runners
and the socket it reaches every branch of the worker; the second one multiplies
the states beyond the time a run should take, and combines losses that the model
excuses one by one.

In `trading` two windows of two seconds put both demos, the flatten of the first
market from within the second, a late close and a forced halt (every second
market, one second) inside the instance; with one slot an old position stands in
the way of a new bet. The crews are pairs, because trader and risk LP share
nothing but the market's status. In `onboarding` the target is 2 of 3 units, so
that play and earlier runs leave a profile below, at and above it.

The indexer's instance ends when the ledger has landed and is stored, so deadlock
is not checked there. It is in `trading`, where market-ops ticks for ever, and in
`onboarding`: every stop there would be a stuck process.

**Fairness** (`Fairness` in `Scheduler`, used by `FairSpec` only). `setInterval`
keeps calling `tick` and every awaited call returns one way or the other: weak
fairness of `Tick`, of each `Handler` and of the agent pass. Time passes and the
validator hands accounts back. Strong fairness of a full refresh, of the agent
pass and of starting a handler stands for the timers: whoever looks again and
again at a cool-down finds it over at some of the looks. Nothing is assumed of
traders, owners or market-ops. Failures are finite in number, by `spare`: the
claim is that the loop recovers, not that it makes progress while calls fail.
In the live run the scheduler holds every owner's key. Without one, a profile
that sits on the base chain stays there, its empty slots name market 0 or a
market it sold out of, and that market never retires: its settle batch always
fails.

`Indexer` assumes weak fairness of `Busy`, the disjunction of everything the
worker and its chains do: one Node process, whose awaited calls return, whose
reconnect timer fires and which the server's start boots. It need not be fair
between clusters or chains, and is not assumed to be: each of them has finitely
much to do. Losses are finite by `Disturbances`. `Trading` assumes it of
market-ops (its loop ticks for ever), of the seconds and of the price publisher
coming back; of the scheduler, the trader and the risk LP nothing, which is why
`NoHaltForever` says that market-ops alone is enough. `Onboarding` assumes it of
each process's step (a call returns, polling ends by its own limit), of the
scheduler's pass and of the validator; nobody need start a process again.

**Limits of `NoDoubleWindow`.** A row that cannot be fetched from the rollup is
left out of the listing (`state.ts:178`), the horizon then looks shorter than it
is, and the window is scheduled again. The property excuses exactly that, scan by
scan (`unread`); the run has `Lossy = {0, 1}`, and without the excuse TLC finds
two markets for a window there. It speaks of pending markets: one that opens in
the very second the horizon is scanned, with no other stock, no longer counts,
and `alignUp(now)` gives its window to the next market (`horizon.ts:69`).

## 4. What is proved

Every theorem is about `Spec`, for every value of the constants that satisfies
the named assumptions of the modules (ids are naturals and include 0, sets of
accounts are finite, the minimum seed is positive, `Null` is no value of a
column, and so on; TLC evaluates each on the instances). They cover every
invariant and every action property the passing runs check. One has a hypothesis
more; it is named with it.

| Module | Theorem | States |
|---|---|---|
| `KestrelProofs` | `TypeCorrect`, `AlwaysSolvent` | `TypeOK`, `Solvent` |
| | `SalesAlwaysCovered` | no sale is worth more than its market holds |
| | `OutcomesAreFinal`, `HaltLetsNobodyIn` | `ResolutionFinal`, `HaltOnlyReduces` |
| `LedgerProofs` | `BooksAlwaysMatch`, `VaultAlwaysCovers` | `BookMatchesPositions`, `VaultCoversClaims` |
| | `NoTraderIsRefused`, `FeesAreOnProfit` | `SolvencyChecksNeverFire`, `FeesComeFromProfit` |
| | `OneSlotEach`, `LengthCoversAll`, `CapIsRespected` | `OneSlotPerMarket`, `LenCoversPositions`, `CapRespected` |
| `RefinementProofs` | `ProgramKeepsLifeCycle`, `ProgramImplementsEscrow` | `KeepsLifeCycle`, `ImplementsEscrow` |
| `SchedulerProofs` | `TypesHold`, `DoneIsFinished`, `LifeCycleKept` | `TypeOK`, `DoneMeansFinished`, `KeepsLifeCycle` |
| | `NoWindowTwice` | `NoDoubleWindow` |
| `TradingProofs` | `TradingTypes`, `OneHonestBet`, `DemosAreRefused` | `TypeOK`, `HonestOnce`, `DemosNeverTrade` |
| | `PolicyComesBack`, `HedgesStayBounded`, `ForcedHaltsLast` | `PolicyRestored`, `HedgesBounded`, `ForcedHaltLasts` |
| `OnboardingProofs` | `OnboardingTypes`, `NoRoleIsOverfunded`, `RolesStartReady` | `TypeOK`, `NeverOverfunded`, `ReadyToTrade` |
| `IndexerProofs` | `IndexerTypes`, `NoGapIsUnexplained`, `RowsAreWhole` | `TypeOK`, `NoUnexplainedGap`, `EventRowsWhole` |
| | `TimelineOnlyGrows` | `AppendOnly` |
| | `NothingIsBlanked` | `NothingBlanked`, if every transaction is `Apart` |

**A market's book** (`KestrelProofs`). `Solvent` is not inductive: nothing in it
says how many shares a bet may buy. The inductive invariant `IInv` adds, for
every traded market,

    k = seed * seed
    yes_reserve + no_reserve + yes_shares + no_shares = 2 * seed + collateral
    yes_reserve + no_reserve >= 2 * seed

The equation is kept by a bet (one reserve and the collateral grow by the stake,
shares move from the other reserve to the total) and by a sale (the reverse),
whatever the rounding did. The inequality is `BalancedSumIsLeast`: after either,
one reserve is x and the other at least the floor of s*s/x, and the two sum to
2s or more because (s - x)^2 >= 0. Subtracting gives solvency. It follows that
the direction in which sales round is immaterial to solvency.

**All books and accounts** (`LedgerProofs`). `LedgerInv` adds to `IInv` that the
slots of every profile are in order (`SlotsOK`: one slot for a market, none in
use above `len`), that each market's shares are the sum of the slots' until it
closes, and no fewer afterwards (`Books`), that the vault holds the balances and
what each market's pot has left (`vault = Balances + Pots`), and that fees are
within their share of what was returned. Each is needed by the next: with two
slots for a market a settlement would clear one and leave the other to be paid
again, and without matching books a pot would not bound what the winners ask of
the vault. A step writes the accounts of one profile and one market, or pays the
profiles of a batch, and the lemmas on sums of `Arithmetic` turn that into a
change of those terms. `NoTraderIsRefused` follows: no sale, cancel or settlement
of a position on record meets one of the program's solvency errors. That does not
make every position saleable: where the rounding of small amounts makes the
proceeds negative, the sale is refused with `MathOverflow`
(`close_position.rs:73`).

**The refinements** (`RefinementProofs`, and `LifeCycleKept`). Initial states map
to initial states and every action to one step of the abstract specification or
to none. For the program this needs all of `LedgerInv` and that a market without
an account is on the base chain: a settlement takes one position out of `holds`
only because the market has one slot, and a pot pays out no more than it holds
only because the books match. For the scheduler it needs `UncreatedAtHome` and
`PlanIsPending`, described next. Both models of the chain thus keep to one
`LifeCycle`, for any numbers of markets and profiles.

**The scheduler.** `DoneMeansFinished` is not inductive. A tick marks a market
done because its *cached* row says closed and undelegated, and that row may be
old; so `FinishedRowsHold` says that such a row, once written, stays true. This
needs that nothing delegates a closed market again: the only delegation is of
the market just created, so `PlanIsPending` (while `pc` is `"delegate"` that
market is pending and on the base chain) and `UncreatedAtHome` (an id without an
account is on the base chain). `TypesHold` adds the ranges of the loop's
counters, its plan and its cache. For `NoWindowTwice` the invariant `Stock` says
(`WindowFree`) that while a creation is planned its window is still free of every
pending market the scan was given: the plan opens after the last of them, and
nobody else creates any.

**The roles** (`TradingProofs`). `TradingInv` says, for each call a tick can come
to, what the process knows of its view and its memos then. Bets and hedges are
counted against the disturbances spent (`Lost`): an executed call whose sender
does not know is one of them. `DemosNeverTrade` needs that a cap the trader read from the chain
is still the one there when it bets (`CapKnown`). `ForcedHaltLasts` needs
`Promise`: while a market's forced halt runs it is halted, among the markets
market-ops looks at, and the memo runs as long or longer.

**Onboarding** (`OnboardingProofs`). `Money` is about wallets, balances and the
base chain's copy and knows nothing of processes; `Booting` says what each step
of a boot may rely on: from `"prepare"` on the profile can only have moved to the
rollup, what was read is what the copy still shows unless an earlier deposit is
unsettled, and from `"delegate"` on the target is there.

**The indexer** (`IndexerProofs`). The cursor is moved by chains, and by the end
of a backfill to whichever signature was stored last; neither looks at what lies
below. `IndexerInv` says why no gap is left unexplained: what a worker has passed
(`Passed`) is explained up to its cursor; up to the end of its list, unless still
queued, while it drains; and entirely while it listens, because whatever lands
then is on the wire. `ChainRelies` adds that a chain has written its market's row
before the rows of events that refer to it, and has settled its own signature by
its end. `Whole` says that a signature's rows are those of one chain; it rests on
`InsertsOnce` (inserting a batch again adds nothing, because its keys are those
of the rows already there, whatever the card) and on `RowKeys` (no two rows of a
batch share a key). `NothingBlanked` has a hypothesis, for the reason given in
section 5: the upsert of profiles names for every row the columns any row has.
`Apart` says of a transaction that it has an instruction of each owner whose row
it patches, or that it does no more than settle each profile once. All
transactions this repository sends are of these two kinds; one that registered a
profile and settled the position of another would blank the address of the other.

The assumption that an instruction which changes a market's status names one
(`LedgerAssumption`) is the program's: those instructions have the id as an
argument.

**Only model-checked:** the liveness properties `OpenedIsRetired`, `CatchesUp`,
`NoHaltForever`, `StartsEnd` and `StrayIsDelegated`, and the four runs that show
a divergence.

**Out of the prover's reach**, and so left to TLC wherever it comes up: liveness
under fairness and `ENABLED`. Induction theorems with an operator as parameter
cannot be used either; sums, maxima and concatenations are handled by induction
in first-order form (`LeastElement` gives the smallest counterexample,
`JoinerExists` the function that `FlattenSeq` unfolds to). Modules with theorems
avoid `RECURSIVE`, and write out what the provers have no rules for: `Sets` and
`Over` in `IndexerRows` are `:>` and `@@`.

## 5. Findings

* `settle_position.rs:60` says a cancel leaves its slot with zeros. `cancel_bet`
  subtracts the proceeds from the stake and stops at zero, so a cancel at a loss
  leaves the loss in `stake`; the slot counts as open until the market is settled.
* `horizon.ts:78` and the main README say that a market is created on the base
  chain and delegated to the rollup. If `delegate_market` fails, or the process
  dies after `create_market`, nothing delegates that market later: the horizon
  counts it as stock and every other phase wants it delegated. It stays pending.
* `settle.ts:99` reports that there are no positions to settle whenever
  `listAgents` finds none, but that list is of profiles the program owns on the
  base chain, and traders are on the rollup. The market is committed away from
  the rollup while they hold unpaid positions in it. `settle_position` can still
  pay them once market and profile are on one layer again.
* `place_bet.rs:42` says that a refused bet is a deterministic on-chain block that
  the indexer surfaces as a `PlaceBetBlocked` row, and `ingest.ts:547` builds that
  row. But the subscription's callback returns on `logs.err` (`worker.ts:159`):
  a bet refused while the worker is live is not ingested, the cursor moves past it
  with the next signature, and no later backfill lists it. Only what is refused
  while the worker is away, or before it first lists, is shown.

Read off the code while modelling, and not the subject of a run:

* The open market is not found. `trader.ts:4` promises a bet on each open market
  window. The roles look for the open market among the eight newest ids
  (`markets.ts:98`), and the newest ids are the windows furthest ahead.
  `scheduler/.env.example:35` documents windows of 300 s and a horizon of 24 h or
  48 h, 288 windows or more: once the horizon is full no role finds the open
  market. `trading` sets `Scan` to reach it, and so says what the roles do where
  the horizon is at most eight windows.
* The polled view is old. `docs/page.tsx:315` tells a client to poll
  `GET /agent/:pubkey` at any time, and `route.ts:16` to do so after placing bets.
  The route reads the base chain's copy of the profile (`copy` in `Profiles`),
  which no bet on the rollup changes.
* Moving a profile home. `app/app/docs/page.tsx:329` and `bet/place/route.ts:29`
  say that the scheduler undelegates, or delegates, an agent. It delegates those
  whose key file it has (`agents.ts:89`) and undelegates none, and the API has
  no endpoint to undelegate. A keyed owner delegated between register and
  deposit cannot deposit through the API; an owner without a key file never gets
  to the rollup through it. The models have both; `ReadyToTrade` is about the
  agents' own processes.
* Signing again. `sendRefreshedTx` re-signs a transaction that expired, so one
  that was executed and reported expired runs twice, and a deposit of a killed
  process may land after its successor read the balance. `NeverOverfunded` and
  `HonestOnce` make exactly these exceptions.
* Agents. A trader that dies between tightening its allowlist and restoring it
  leaves the wrong one for good (`trader.ts:220`); a template cap below the one on
  chain makes the over-cap demo's fallback execute (`trader.ts:171`); the hedger
  marks a market cancelled even when the cancel failed; market-ops forgets a
  forced halt when a read of the configuration fails; positions that are on the
  base chain are not settled by `flattenPositions`, which uses the rollup only.
* Rows. `ingest.ts:293` says that the first-seen `registered_at` wins. A bet makes
  two patches of its owner's row; merging them spells out every column, those
  neither has included, and the upsert writes NULL over what the registration
  stored, in `registered_at` and `current_policy`. The model keeps it, and
  `NothingBlanked` is about the other columns. Markets are patched for failed
  transactions too (`ingest.ts:479`). The cursor may go back (`worker.ts:98` says
  it advances monotonically). A write that fails is logged, and the cursor moves
  on.
* Screens. `RealtimeTimeline.tsx:57` takes market 0 for no market; pollers and
  subscriptions may replace newer rows by older ones
  (`SystemStatusStrip.tsx:123`, `LiveMarketCard.tsx:65`).

## 6. Not modelled, and why

* The web application: rendering and wallet interaction. It keeps copies of rows
  and accounts, no state of the system; how it merges polled and pushed rows is
  item 6 of the plan. The reading routes of the API, and the SQL queries, change
  nothing.
* Scripts are one-shot calls of instructions the program's model has in any
  order; `migrate_config` rewrites one account's layout once, by hand. Generated
  code (the IDL, `dist`) repeats the sources.
* Of the program: its price account and admin check are folded as said in
  section 2. Public keys, PDAs and account validation are reduced to "the owner's
  own profile": the model has no transaction signed by the wrong key.
* Of the indexer: the wording of rows, the decoding of bytes, and transactions
  that name two markets, which nothing in this repository sends.
* Of the agents: amounts, sides, the imbalance that picks a hedge and the model
  of momentum, which are choices or constants; several profiles of one owner.

## 7. Plan

In order of importance; the project has the number of runs it means to have, so
that new properties join existing ones or replace weaker ones.

1. *Done*: `Cpmm`, `Kestrel`, `Escrow`, `KestrelEscrow`, their instances and
   theorems.
2. *Done*: `Scheduler`, two passing runs, two divergences, `DoneIsFinished`;
   `LifeCycle` with both mappings, and `LifeCycleKept`.
3. *Done*: `IndexerRows` and `Indexer`, with the divergence on blocked bets.
4. *Done*: `Calls`, `Profiles` and `Onboarding`: boots, REST clients and the
   scheduler's pass on the same profiles.
5. *Done*: `Trading`: the three agents' loops.
6. The dashboard's merge of polled and pushed rows, if it is given an order to
   keep to.
7. *Done*: theorems for every invariant and action property of the runs, and
   both refinements. What is left is liveness, which stays with the runs, and
   a property still to be stated: how many signatures one disturbance can cost
   the indexer.
