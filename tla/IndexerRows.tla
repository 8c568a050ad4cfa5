---------------------------- MODULE IndexerRows -----------------------------
(***************************************************************************)
(* What the indexer makes of one transaction: the rows of its events and   *)
(* the patches of the market and of the profiles it names.                 *)
(*                                                                         *)
(* A transaction is [cluster, ixs, fails].  ixs are its instructions, the  *)
(* inner ones last; fails is the position of the one that failed, or 0.  An *)
(* instruction is [name, market, owners]; one of another program has a name *)
(* the program's IDL does not know.  Instructions of one transaction name  *)
(* at most one market, as all the transactions of this repository do.      *)
(***************************************************************************)
EXTENDS Integers, Sequences, FiniteSets, FiniteSetsExt, SequencesExt

CONSTANT Null   \* SQL's NULL, an account that is not there

Clusters == {"base", "er"}

\* sigColumnFor, statusFor: what a row of markets learns from an instruction.
SigColumn ==
    [create_market |-> "created_sig", delegate_market |-> "delegated_sig",
     open_market |-> "opened_sig", close_market |-> "closed_sig",
     settle_position |-> "settled_sig", settle_positions |-> "settled_sig",
     commit_and_undelegate_market |-> "undelegated_sig"]

StatusFor ==
    [create_market |-> "pending", delegate_market |-> "pending",
     open_market |-> "open", halt_market |-> "halted", resume_market |-> "open",
     close_market |-> "closed", commit_and_undelegate_market |-> "settled"]

\* The event an instruction emits when it succeeds.
EventOf ==
    [register_agent |-> "AgentRegistered", update_policy |-> "PolicyUpdated",
     place_bet |-> "BetPlaced", withdraw |-> "Withdrawn",
     halt_market |-> "MarketHalted", resume_market |-> "MarketResumed",
     close_market |-> "MarketClosed", settle_position |-> "AgentSettled",
     settle_positions |-> "AgentSettled"]

\* Instructions with an account called "owner".
OwnerSigned == {"register_agent", "update_policy", "deposit", "withdraw", "place_bet",
                "cancel_bet", "close_position", "commit_and_undelegate_agent"}

\* Those that get a decision card.
DecisionKinds == {"place_bet", "cancel_bet", "close_position"}

\* Those of the program's IDL: the ones above, and those that say nothing.
Instructions == OwnerSigned \cup DOMAIN SigColumn \cup DOMAIN StatusFor \cup DOMAIN EventOf
                    \cup {"delegate_agent", "commit_market", "init_config", "migrate_config",
                          "process_undelegation"}

\* NULL is no value of a column: no status, no price and no signature.
ASSUME NullAssumption ==
    Null \notin {StatusFor[name] : name \in DOMAIN StatusFor} \cup {"before", "set"} \cup Nat

MarketColumns == {"open_ts", "close_ts", "status", "strike_price", "close_price", "winner"}
                    \cup {SigColumn[name] : name \in DOMAIN SigColumn}
AgentColumns == {"agent_pda", "registered_at", "current_policy", "current_balance",
                 "last_event_at"}   \* of the indexer; role and label are not
BlankMarket == [c \in MarketColumns |-> Null]

-----------------------------------------------------------------------------
(* Candidates and events of a transaction.                                 *)

Failed(t) == t.fails # 0

\* The instructions that ran: their log lines stay, even if a later one fails.
Ran(t) == IF Failed(t) THEN SubSeq(t.ixs, 1, t.fails - 1) ELSE t.ixs

\* ixIndex counts the instructions of every program.
Candidates(t) == {i \in DOMAIN t.ixs : t.ixs[i].name \in Instructions}
FirstCandidate(t) == CHOOSE i \in Candidates(t) : \A j \in Candidates(t) : i <= j

Has(t, name) == \E i \in Candidates(t) : t.ixs[i].name = name

\* A market event names no owner; a settlement emits one event per profile.
EventsOfIx(ix) ==
    IF ix.name \notin DOMAIN EventOf THEN <<>>
    ELSE IF ix.owners = <<>> THEN <<[kind |-> EventOf[ix.name], owner |-> Null]>>
    ELSE [k \in DOMAIN ix.owners |-> [kind |-> EventOf[ix.name], owner |-> ix.owners[k]]]

AnchorEvents(t) == FlattenSeq([i \in DOMAIN Ran(t) |-> EventsOfIx(Ran(t)[i])])

\* The market its candidates name; their events name no other.
MarketOf(t) ==
    LET named == {t.ixs[i].market : i \in Candidates(t)} \ {Null}
    IN  IF named = {} THEN Null ELSE CHOOSE m \in named : TRUE

-----------------------------------------------------------------------------
(* The rows of events.                                                     *)

KindsOfIx(t, i) ==
    <<t.ixs[i].name>> \o
    (IF t.ixs[i].name # "place_bet" THEN <<>>
     ELSE <<"PlaceBetAttempted">> \o (IF Failed(t) THEN <<"PlaceBetBlocked">> ELSE <<>>))

\* Decoded instructions first, the events after them, under the first of them.
\* Only decoded bets and exits carry a card, and the rows made up beside them.
Batch(t) ==
    FlattenSeq([i \in DOMAIN t.ixs |->
        IF i \notin Candidates(t) THEN <<>>
        ELSE [k \in DOMAIN KindsOfIx(t, i) |->
                 [ix |-> i, kind |-> KindsOfIx(t, i)[k],
                  carries |-> t.ixs[i].name \in DecisionKinds]]])
    \o [k \in DOMAIN AnchorEvents(t) |->
           [ix |-> FirstCandidate(t), kind |-> AnchorEvents(t)[k].kind, carries |-> FALSE]]

\* Rows of one instruction number on; the slip counts the kinds apart.
NextSeq_PerKind(batch, n) == Cardinality({k \in 1..(n - 1) : batch[k] = batch[n]})
NextSeq(batch, n) == Cardinality({k \in 1..(n - 1) : batch[k].ix = batch[n].ix})

Numbered(batch) ==
    [n \in DOMAIN batch |-> [ix |-> batch[n].ix, seq |-> NextSeq(batch, n),
                             kind |-> batch[n].kind, carries |-> batch[n].carries]]
WithCard(rows, card) ==
    [n \in DOMAIN rows |-> [ix |-> rows[n].ix, seq |-> rows[n].seq, kind |-> rows[n].kind,
                            card |-> IF rows[n].carries THEN card ELSE Null]]

\* INSERT ... ON CONFLICT (signature, ix_index, event_seq) DO NOTHING: a row
\* whose key is taken, by the table or earlier in the batch, is left out.  The
\* slip is an upsert that replaces.
SameKey(r, q) == r.ix = q.ix /\ r.seq = q.seq
Insert_Replaces(table, new) ==
    {r \in table : \A n \in DOMAIN new : ~SameKey(r, new[n])} \cup ToSet(new)
Insert(table, new) ==
    table \cup {new[n] : n \in {k \in DOMAIN new :
        /\ \A r \in table : ~SameKey(r, new[k])
        /\ \A j \in 1..(k - 1) : ~SameKey(new[j], new[k])}}

-----------------------------------------------------------------------------
(* The patch of a market's row: the columns it names, no others.           *)

\* A patch is a function of its columns.  These stand for :> and @@, which are
\* beyond the prover.
Sets(columns, value) == [c \in columns |-> value]
Over(new, old) ==
    [c \in DOMAIN new \cup DOMAIN old |-> IF c \in DOMAIN new THEN new[c] ELSE old[c]]

IxPatch(ix, sig) ==
    Over(IF ix.name \in DOMAIN StatusFor THEN Sets({"status"}, StatusFor[ix.name]) ELSE <<>>,
         Over(IF ix.name \in DOMAIN SigColumn THEN Sets({SigColumn[ix.name]}, sig) ELSE <<>>,
              IF ix.name = "create_market" THEN Sets({"open_ts", "close_ts"}, sig) ELSE <<>>))

\* The price is read from the account, and patched only if it was there.
PriceColumn(t) ==
    IF Has(t, "open_market") THEN "strike_price"
    ELSE IF Has(t, "close_market") THEN "close_price" ELSE Null
PricePatch_Null(column, price) == IF column = Null THEN <<>> ELSE Sets({column}, price)
PricePatch(column, price) == IF price = Null THEN <<>> ELSE Sets({column}, price)

\* The patches of all instructions merged, the last that names a column winning;
\* whether the transaction failed is not asked.
Patching(t) == {i \in DOMAIN t.ixs : t.ixs[i].market # Null}
StatusPatch(t, sig) ==
    LET naming(c) == {i \in Patching(t) : c \in DOMAIN IxPatch(t.ixs[i], sig)}
    IN  [c \in UNION {DOMAIN IxPatch(t.ixs[i], sig) : i \in Patching(t)} |->
            IxPatch(t.ixs[Max(naming(c))], sig)[c]]

Upsert(row, patch) == [c \in DOMAIN row |-> IF c \in DOMAIN patch THEN patch[c] ELSE row[c]]

-----------------------------------------------------------------------------
(* The patches of profiles' rows.  Within one transaction a column has one  *)
(* value, so a patch is the set of its columns, and a row the set of those *)
(* that are not NULL.                                                      *)

OwnerPatch(ix) ==
    {"agent_pda", "last_event_at"} \cup
    (IF ix.name = "register_agent" THEN {"registered_at", "current_policy"} ELSE {})

EventPatch(kind) ==
    {"last_event_at"} \cup
    (IF kind = "AgentRegistered" THEN {"agent_pda", "registered_at", "current_policy"}
     ELSE IF kind = "PolicyUpdated" THEN {"agent_pda", "current_policy"} ELSE {})

\* Where the patches of a profile come from: instructions and events.
Signed(t, owner) ==
    {i \in DOMAIN t.ixs : t.ixs[i].name \in OwnerSigned /\ t.ixs[i].owners = <<owner>>}
Heard(t, owner) == {k \in DOMAIN AnchorEvents(t) : AnchorEvents(t)[k].owner = owner}

AgentsOf(t) == {o \in UNION {ToSet(t.ixs[i].owners) : i \in Candidates(t)} :
                    Signed(t, o) \cup Heard(t, o) # {}}
Given(t, owner) == UNION ({OwnerPatch(t.ixs[i]) : i \in Signed(t, owner)}
                          \cup {EventPatch(AnchorEvents(t)[k].kind) : k \in Heard(t, owner)})

\* Merging two patches of one owner spells out every column, those neither has
\* included.  The client names the columns of all rows of an upsert, and the
\* database writes NULL where a row has none of them.
SpelledOut(t, owner) ==
    IF Cardinality(Signed(t, owner)) + Cardinality(Heard(t, owner)) = 1
    THEN Given(t, owner) ELSE AgentColumns
NamedColumns(t) == UNION {SpelledOut(t, o) : o \in AgentsOf(t)}
AgentRow(row, given, named) == (row \ named) \cup given
=============================================================================
