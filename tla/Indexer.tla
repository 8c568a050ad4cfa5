------------------------------ MODULE Indexer -------------------------------
(***************************************************************************)
(* The indexer's worker: per cluster it lists what landed since its cursor, *)
(* stores it with a few runners in parallel, then subscribes to logs and   *)
(* stores what it is notified of, each transaction in a chain of awaited   *)
(* calls of its own.  Reading the transaction and the accounts is one      *)
(* action, each write to the database another.  A write that fails is      *)
(* logged, and the worker goes on.                                         *)
(*                                                                         *)
(* Signatures are the positions of Ledger, in the order they land.         *)
(***************************************************************************)
EXTENDS IndexerRows, FiniteSetsExt

CONSTANTS
    Ledger,         \* the transactions of the instance, in landing order
    Markets, Owners,
    Runners,        \* PROCESS_CONCURRENCY
    Limit,          \* backfillLimit
    Page,           \* the RPC's page size: 1000
    \* Bounds of the instance, not of the code:
    Disturbances    \* failed calls, lost or repeated notifications, crashes

\* What changes a market's status has the market's id among its arguments.
Instruction == [name : STRING, market : Markets \cup {Null}, owners : Seq(Owners)]
Transaction == [cluster : Clusters, ixs : Seq(Instruction), fails : Nat]

ASSUME LedgerAssumption ==
    /\ Ledger \in Seq(Transaction)
    /\ \A s \in DOMAIN Ledger :
          /\ Ledger[s].fails <= Len(Ledger[s].ixs)
          /\ \A i \in DOMAIN Ledger[s].ixs :
                Ledger[s].ixs[i].name \in DOMAIN StatusFor => Ledger[s].ixs[i].market # Null
ASSUME SizesAssumption ==
    Runners \in Nat \ {0} /\ Limit \in Nat \ {0} /\ Page \in Nat \ {0} /\ Disturbances \in Nat

VARIABLES
    landed,                       \* how many transactions of Ledger have landed
    markets, agents, events,      \* tables: rows by key, rows of events by signature
    cursor,                       \* table cursors: last_signature by cluster, 0 for NULL
    phase, queue, last,           \* per cluster: where startup is, what the backfill has
                                  \* still to take, the signature it finished last
    upTo,                         \* per cluster: what had landed when it was listed
    wire,                         \* notifications under way
    job,                          \* the chain of calls that stores a signature
    through,                      \* rows the scheduler is about to patch
    excused,                      \* signatures lost in one of the ways the code has no
                                  \* remedy for
    dropped,                      \* and those it dropped because they had failed
    spare                         \* disturbances left

tables == <<markets, agents, events, cursor>>
worker == <<phase, queue, last, upTo, job>>
world == <<landed, wire, through>>
losses == <<excused, dropped>>
vars == <<tables, worker, world, losses, spare>>

Sigs == DOMAIN Ledger
Idle == [by |-> "none", todo |-> <<>>, price |-> Null, card |-> Null]
Prices == {Null, "before", "set"}

TypeOK ==
    /\ landed \in 0..Len(Ledger)
    /\ DOMAIN markets \subseteq Markets
    /\ \A m \in DOMAIN markets : DOMAIN markets[m] = MarketColumns
    /\ agents \in [Owners -> SUBSET (AgentColumns \cup {"role"})]
    /\ DOMAIN events = Sigs /\ cursor \in [Clusters -> {0} \cup Sigs]
    /\ phase \in [Clusters -> {"off", "list", "run", "attach", "live", "wait"}]
    /\ queue \in [Clusters -> SUBSET Sigs]
    /\ last \in [Clusters -> {0} \cup Sigs] /\ upTo \in [Clusters -> 0..Len(Ledger)]
    /\ wire \subseteq Sigs /\ through \subseteq Sigs /\ excused \cup dropped \subseteq Sigs
    /\ DOMAIN job = Sigs
    /\ \A s \in Sigs : /\ job[s].by \in {"none", "live", "backfill"}
                       /\ job[s].todo \in Seq({"fetch", "markets", "events", "agents", "cursor"})
                       /\ job[s].price \in Prices /\ job[s].card \in Nat \cup {Null}
    /\ \A c \in Clusters : LET running == {s \in Sigs : job[s].by = "backfill"
                                                     /\ Ledger[s].cluster = c}
                          IN  /\ Cardinality(running) <= Runners
                              /\ running # {} => phase[c] = "run"
    /\ spare \in 0..Disturbances

\* Nothing of the worker survives its process, the tables do.
ForEach(value) == [c \in Clusters |-> value]
NoJobs == [s \in Sigs |-> Idle]

Init ==
    /\ landed = 0 /\ through = {} /\ excused = {} /\ dropped = {} /\ spare = Disturbances
    /\ markets = <<>> /\ agents = [o \in Owners |-> {}]
    /\ events = [s \in Sigs |-> {}] /\ cursor = ForEach(0)
    /\ phase = ForEach("off") /\ queue = ForEach({}) /\ last = ForEach(0) /\ upTo = ForEach(0)
    /\ job = NoJobs /\ wire = {}

Fault == spare > 0 /\ spare' = spare - 1
Fine == UNCHANGED spare
Excuse(S) == excused' = excused \cup S /\ UNCHANGED dropped
Listable(c) == {s \in 1..landed : Ledger[s].cluster = c /\ s > cursor[c]}

-----------------------------------------------------------------------------
(* What ingestSignature makes of each transaction of the ledger.           *)

MarketAt == [s \in Sigs |-> MarketOf(Ledger[s])]
Empty == {s \in Sigs : Candidates(Ledger[s]) = {}}
Carded == {s \in Sigs : \E name \in DecisionKinds : Has(Ledger[s], name)}
PriceAt == [s \in Sigs |-> PriceColumn(Ledger[s])]
Policies == {s \in Sigs : Has(Ledger[s], "update_policy")}
Batches == [s \in Sigs |-> Numbered(Batch(Ledger[s]))]
PatchAt == [s \in Sigs |-> StatusPatch(Ledger[s], s)]
GivenAt == [s \in Sigs |-> [o \in AgentsOf(Ledger[s]) |-> Given(Ledger[s], o)]]
NamedAt == [s \in Sigs |-> NamedColumns(Ledger[s])]

-----------------------------------------------------------------------------
(* The chain: at most one per signature at a time (inflight).              *)

Start(s, by) == job' = [job EXCEPT ![s] = [Idle EXCEPT !.by = by, !.todo = <<"fetch">>]]
JobsOf(c) == {s \in Sigs : Ledger[s].cluster = c /\ job[s].by = "backfill"}

\* The writes that have something to write, in this order: a row of events refers
\* to the row of its market.  The slip writes the events first.
Writes_EventsFirst(s) ==
    <<"events">> \o (IF MarketAt[s] = Null THEN <<>> ELSE <<"markets">>)
    \o (IF DOMAIN GivenAt[s] = {} THEN <<>> ELSE <<"agents">>)
Writes(s) ==
    (IF MarketAt[s] = Null THEN <<>> ELSE <<"markets">>) \o <<"events">>
    \o (IF DOMAIN GivenAt[s] = {} THEN <<>> ELSE <<"agents">>)

At(s, call) == job[s].todo # <<>> /\ Head(job[s].todo) = call

\* ingestSignature returned: a backfill remembers the signature, a live chain
\* goes on to save it.
Returned(s) ==
    IF job[s].by = "backfill"
    THEN /\ job' = [job EXCEPT ![s] = Idle]
         /\ last' = [last EXCEPT ![Ledger[s].cluster] = s]
    ELSE job' = [job EXCEPT ![s].todo = <<"cursor">>] /\ UNCHANGED last

Written(s) ==
    IF Len(job[s].todo) = 1 THEN Returned(s)
    ELSE job' = [job EXCEPT ![s].todo = Tail(@)] /\ UNCHANGED last

\* The policy's version, out of the account or out of a cache that may be older;
\* Null if the profile could not be read.
PoliciesSeen ==
    {Null} \cup 0..Cardinality(Policies \cap 1..landed)
CardsSeen(s) == IF s \in Carded THEN PoliciesSeen ELSE {Null}

\* The account may lag behind the log line, or be gone from the cluster by now.
PriceSeen(s, price) ==
    IF PriceAt[s] = Null THEN price = Null /\ Fine
    ELSE \/ price = "set" /\ Fine
         \/ price \in {Null, "before"} /\ Fault

\* A transaction the RPC does not return is skipped like one without candidates.
Fetch(s) ==
    /\ At(s, "fetch")
    /\ \/ Fault /\ Excuse({s}) /\ Returned(s)
       \/ s \in Empty /\ Returned(s) /\ UNCHANGED <<losses, spare>>
       \/ /\ s \notin Empty
          /\ \E price \in Prices, card \in CardsSeen(s) :
                /\ PriceSeen(s, price)
                /\ job' = [job EXCEPT ![s].todo = Writes(s), ![s].price = price,
                                      ![s].card = card]
          /\ UNCHANGED <<last, losses>>
    /\ UNCHANGED <<tables, phase, queue, upTo, world>>

ApplyMarketPatches(s) ==
    /\ At(s, "markets")
    /\ Written(s)
    /\ LET m == MarketAt[s]
           row == IF m \in DOMAIN markets THEN markets[m] ELSE BlankMarket
       IN  \/ /\ markets' = Over(Sets({m}, Upsert(row, Over(PricePatch(PriceAt[s], job[s].price),
                                                         PatchAt[s]))), markets)
              /\ UNCHANGED <<losses, spare>>
           \/ Fault /\ Excuse({s}) /\ UNCHANGED markets
    /\ UNCHANGED <<agents, events, cursor, phase, queue, upTo, world>>

\* The foreign key refuses the whole insert if the market has no row.
InsertEvents(s) ==
    /\ At(s, "events")
    /\ Written(s)
    /\ \/ /\ events' = IF MarketAt[s] \in DOMAIN markets \cup {Null}
                       THEN [events EXCEPT ![s] = Insert(@, WithCard(Batches[s], job[s].card))]
                       ELSE events
          /\ UNCHANGED <<losses, spare>>
       \/ Fault /\ Excuse({s}) /\ UNCHANGED events
    /\ UNCHANGED <<markets, agents, cursor, phase, queue, upTo, world>>

ApplyAgentPatches(s) ==
    /\ At(s, "agents")
    /\ Written(s)
    /\ \/ /\ agents' = [o \in Owners |-> IF o \in DOMAIN GivenAt[s]
                             THEN AgentRow(agents[o], GivenAt[s][o], NamedAt[s]) ELSE agents[o]]
          /\ Fine
       \/ Fault /\ UNCHANGED agents
    /\ UNCHANGED <<markets, events, cursor, phase, queue, upTo, world, losses>>

SaveOwnCursor(s) ==
    /\ At(s, "cursor")
    /\ job' = [job EXCEPT ![s] = Idle]
    /\ \/ cursor' = [cursor EXCEPT ![Ledger[s].cluster] = s] /\ Fine
       \/ Fault /\ UNCHANGED cursor
    /\ UNCHANGED <<markets, agents, events, phase, queue, last, upTo, world, losses>>

IngestStep(s) ==
    \/ Fetch(s) \/ ApplyMarketPatches(s) \/ InsertEvents(s) \/ ApplyAgentPatches(s)
    \/ SaveOwnCursor(s)

-----------------------------------------------------------------------------
(* Startup of a cluster: backfill, then subscribe.                         *)

\* register: the base chain first; the rollup when its turn comes.
Boot ==
    /\ \A c \in Clusters : phase[c] = "off"
    /\ phase' = [phase EXCEPT !["base"] = "list"]
    /\ UNCHANGED <<tables, queue, last, upTo, job, world, losses, spare>>

\* Pages come newest first.  One that fails ends the list, with the pages
\* before it kept.  The slip passes over the oldest signature of a full list.
NewestOf(S, n) == {s \in S : Cardinality({t \in S : t > s}) < n}
Collected_SkipsOldest(S, n) == NewestOf(S, IF n > 1 THEN n - 1 ELSE n)
Collected(S, n) == NewestOf(S, n)
PagesBefore(n) == {k * Page : k \in {i \in 0..n : i * Page < n}}

\* What the limit or the failed page cut off stays below the cursor to come.
ListSignatures(c) ==
    /\ phase[c] = "list"
    /\ LET all == Listable(c)
           full == Min({Limit, Cardinality(all)})
       IN  \E n \in {full} \cup PagesBefore(full) :
              /\ IF n = full THEN Fine ELSE Fault
              /\ queue' = [queue EXCEPT ![c] = Collected(all, n)]
              /\ Excuse(all \ NewestOf(all, n))
    /\ phase' = [phase EXCEPT ![c] = "run"]
    /\ last' = [last EXCEPT ![c] = 0] /\ upTo' = [upTo EXCEPT ![c] = landed]
    /\ UNCHANGED <<tables, job, world>>

\* loadCursor throws: no backfill, on to the subscription.
LoadCursorFails(c) ==
    /\ phase[c] = "list" /\ Fault
    /\ phase' = [phase EXCEPT ![c] = "attach"] /\ upTo' = [upTo EXCEPT ![c] = cursor[c]]
    /\ UNCHANGED <<tables, queue, last, job, world, losses>>

RunnerFree(c) == Cardinality(JobsOf(c)) < Runners

\* Oldest first; a signature whose chain is running already is passed over.
RunnerTakes(c) ==
    /\ phase[c] = "run" /\ queue[c] # {} /\ RunnerFree(c)
    /\ queue' = [queue EXCEPT ![c] = @ \ {Min(@)}]
    /\ IF job[Min(queue[c])] = Idle THEN Start(Min(queue[c]), "backfill") ELSE UNCHANGED job
    /\ UNCHANGED <<tables, phase, last, upTo, world, losses, spare>>

\* Promise.all; the slip does not wait for the runners, only for the items.
RunnersIdle_NotAwaited(c) == queue[c] = {}
RunnersIdle(c) == queue[c] = {} /\ JobsOf(c) = {}

\* Every runner returned: the cursor becomes the signature that was stored last
\* in time, whichever that was.
RunnersDone(c) ==
    /\ phase[c] = "run" /\ RunnersIdle(c)
    /\ phase' = [phase EXCEPT ![c] = "attach"]
    /\ \/ last[c] # 0 /\ cursor' = [cursor EXCEPT ![c] = last[c]] /\ Fine
       \/ last[c] = 0 /\ UNCHANGED <<cursor, spare>>
       \/ last[c] # 0 /\ Fault /\ UNCHANGED cursor
    /\ UNCHANGED <<markets, agents, events, queue, last, upTo, job, world, losses>>

\* onLogs; the rollup's turn comes after the base chain's, attached or not.
\* What landed since the list was taken is in neither.
AttachLogs(c) ==
    /\ phase[c] = "attach"
    /\ \E to \in {"live", "wait"} :
          /\ IF to = "live" THEN Fine ELSE Fault
          /\ phase' = [d \in Clusters |-> IF d = c THEN to
                                          ELSE IF phase[d] = "off" THEN "list" ELSE phase[d]]
          /\ Excuse(IF to = "live" THEN {s \in Listable(c) : s > upTo[c]} ELSE {})
    /\ UNCHANGED <<tables, queue, last, upTo, job, world>>

\* scheduleReconnect: the timer fires, back to the backfill.
Reconnect(c) ==
    /\ phase[c] = "wait"
    /\ phase' = [phase EXCEPT ![c] = "list"]
    /\ UNCHANGED <<tables, queue, last, upTo, job, world, losses, spare>>

WorkerStep(c) ==
    \/ ListSignatures(c) \/ LoadCursorFails(c) \/ RunnerTakes(c) \/ RunnersDone(c)
    \/ AttachLogs(c) \/ Reconnect(c)

-----------------------------------------------------------------------------
(* The live subscription.                                                  *)

\* A failed transaction is dropped; so is one whose chain is still running.
Deliver(s) ==
    /\ s \in wire
    /\ wire' = wire \ {s}
    /\ IF ~Failed(Ledger[s]) /\ job[s] = Idle THEN Start(s, "live") ELSE UNCHANGED job
    /\ dropped' = IF Failed(Ledger[s]) THEN dropped \cup {s} ELSE dropped
    /\ UNCHANGED <<tables, phase, queue, last, upTo, landed, through, excused, spare>>

\* The socket drops a notification, or repeats one.
Lose(s) ==
    /\ s \in wire /\ Fault
    /\ wire' = wire \ {s} /\ Excuse({s})
    /\ UNCHANGED <<tables, worker, landed, through>>

Repeat(s) ==
    /\ s \in 1..landed /\ s \notin wire /\ phase[Ledger[s].cluster] = "live" /\ Fault
    /\ wire' = wire \cup {s}
    /\ UNCHANGED <<tables, worker, landed, through, losses>>

-----------------------------------------------------------------------------
(* Everyone else.                                                          *)

SchedulerPatches(t) == ~Failed(t) /\ (Has(t, "open_market") \/ Has(t, "close_market"))

Land ==
    /\ landed < Len(Ledger) /\ landed' = landed + 1
    /\ LET t == Ledger[landed + 1]
       IN  /\ wire' = IF phase[t.cluster] = "live" THEN wire \cup {landed + 1} ELSE wire
           /\ through' = IF SchedulerPatches(t) THEN through \cup {landed + 1} ELSE through
    /\ UNCHANGED <<tables, worker, losses, spare>>

\* The scheduler writes the row itself after open_market and close_market, with
\* what it reads back from the account; a failure is ignored.
ThroughPatch(s) ==
    IF Has(Ledger[s], "open_market")
    THEN [status |-> "open", opened_sig |-> s, strike_price |-> "set"]
    ELSE [status |-> "closed", closed_sig |-> s, close_price |-> "set", winner |-> "set"]

PatchMarketRow(s) ==
    /\ s \in through
    /\ through' = through \ {s}
    /\ LET m == MarketAt[s]
           row == IF m \in DOMAIN markets THEN markets[m] ELSE BlankMarket
       IN  \/ markets' = Over(Sets({m}, Upsert(row, ThroughPatch(s))), markets) /\ Fine
           \/ Fault /\ UNCHANGED markets
    /\ UNCHANGED <<agents, events, cursor, worker, landed, wire, losses>>

\* A process of the owner writes its role beside what the indexer writes.
TagAgentRole(o) ==
    /\ "role" \notin agents[o]
    /\ agents' = [agents EXCEPT ![o] = @ \cup {"agent_pda", "role"}]
    /\ UNCHANGED <<markets, events, cursor, worker, world, losses, spare>>

\* Signatures at or below the cursor are not listed again.
Crash ==
    /\ phase["base"] # "off" /\ Fault
    /\ phase' = ForEach("off") /\ queue' = ForEach({}) /\ last' = ForEach(0) /\ upTo' = ForEach(0)
    /\ job' = NoJobs /\ wire' = {}
    /\ Excuse({s \in 1..landed : /\ s <= cursor[Ledger[s].cluster]
                                 /\ job[s] # Idle \/ s \in wire})
    /\ UNCHANGED <<tables, landed, through>>

-----------------------------------------------------------------------------

Next ==
    \/ Boot \/ Land \/ Crash
    \/ \E c \in Clusters : WorkerStep(c)
    \/ \E s \in Sigs : IngestStep(s) \/ Deliver(s) \/ Lose(s) \/ Repeat(s) \/ PatchMarketRow(s)
    \/ \E o \in Owners : TagAgentRole(o)

Spec == Init /\ [][Next]_vars

\* The server starts the worker, awaited calls return one way or the other,
\* timers fire and a notification that is not lost arrives: while anything of
\* this is due, something of it happens.
Busy ==
    \/ Boot
    \/ \E c \in Clusters : WorkerStep(c)
    \/ \E s \in Sigs : IngestStep(s) \/ Deliver(s)

FairSpec == Spec /\ WF_vars(Busy)

-----------------------------------------------------------------------------
(* What must hold.                                                         *)

Stored(s) == events[s] # {}
Nothing(s) == s \in Empty

\* The cursor is where the next backfill starts: a signature it has passed is
\* stored, has nothing to store, is being stored now, or was lost in one of the
\* listed ways, for which the code has no remedy: a failed call, a lost
\* notification, a crash at or below the cursor, the end of a list, the gap before
\* a subscription.  Chains run side by side and each moves the cursor.
NoUnexplainedGap ==
    \A s \in 1..landed : s <= cursor[Ledger[s].cluster] =>
        \/ Stored(s) \/ Nothing(s) \/ s \in excused \cup dropped
        \/ job[s] # Idle \/ s \in wire

\* The rows of a signature are complete and stand one to a key, however often it
\* was stored, by one process and by the next after a restart.
EventRowsWhole ==
    \A s \in Sigs : Stored(s) => Cardinality(events[s]) = Len(Batches[s])

\* "append-only timeline" (0001_indexer.sql): a row, with the card of what the
\* indexer read that day, is never rewritten when the signature is stored again.
AppendOnly == [][\A s \in Sigs : events[s] \subseteq events'[s]]_vars

\* The indexer and the scheduler write to one row of a market, the indexer and
\* an agent's process to one row of a profile: nobody blanks what another found
\* out, nor the address it is known by.
NothingBlanked ==
    [][/\ \A m \in DOMAIN markets : \A c \in MarketColumns :
             markets[m][c] # Null => m \in DOMAIN markets' /\ markets'[m][c] # Null
       /\ \A o \in Owners : agents[o] \cap {"agent_pda", "role"} \subseteq agents'[o]]_vars

\* Whatever crashes, is repeated or comes out of order, the worker catches up
\* again and again: everything that landed is in the rows (for good, by
\* AppendOnly), except what was lost in one of the ways NoUnexplainedGap lists.
CatchesUp == []<>(\A s \in 1..landed : Stored(s) \/ Nothing(s) \/ s \in excused \cup dropped)

\* "a deterministic on-chain block that the indexer surfaces as a
\* `PlaceBetBlocked` row" (place_bet.rs): once the cursor has passed a refused
\* bet that was listed or notified, and nothing is under way for it, its row is
\* there.
BlockedBetsAreShown ==
    \A s \in 1..landed :
        (/\ Failed(Ledger[s]) /\ Has(Ledger[s], "place_bet") /\ s \notin excused
         /\ s <= cursor[Ledger[s].cluster] /\ job[s] = Idle /\ s \notin wire)
        => \E r \in events[s] : r.kind = "PlaceBetBlocked"
=============================================================================
