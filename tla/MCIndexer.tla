----------------------------- MODULE MCIndexer ------------------------------
(* One market and one trader; the ledgers of two instances.                *)
EXTENDS Indexer

Ix(name, market, owners) == [name |-> name, market |-> market, owners |-> owners]
Tx(cluster, fails, ixs) == [cluster |-> cluster, ixs |-> ixs, fails |-> fails]

CONSTANTS m1, a1

\* On the base chain one that concerns the program and has nothing to store; on
\* the rollup a market opened, a bet, and a bet refused behind the instruction
\* of another program.
Story == <<
    Tx("base", 0, <<Ix("other", Null, <<>>)>>),
    Tx("er", 0, <<Ix("open_market", m1, <<>>)>>),
    Tx("er", 0, <<Ix("place_bet", m1, <<a1>>)>>),
    Tx("er", 2, <<Ix("other", Null, <<>>), Ix("place_bet", m1, <<a1>>)>>)>>

\* A refused bet and one that is not.
Refused == <<
    Tx("er", 0, <<Ix("open_market", m1, <<>>)>>),
    Tx("er", 1, <<Ix("place_bet", m1, <<a1>>)>>),
    Tx("er", 0, <<Ix("place_bet", m1, <<a1>>)>>)>>
=============================================================================
