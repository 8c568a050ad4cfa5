------------------------------ MODULE Profiles -------------------------------
(***************************************************************************)
(* An owner's profile on the two layers, as those meet it who bring it     *)
(* from one to the other: the handlers of the program, reduced to where    *)
(* the profile is and what it holds (Kestrel has them in full), the        *)
(* scheduler's pass over stray profiles, and the validator.                *)
(***************************************************************************)
EXTENDS Calls, Integers, FiniteSets

CONSTANTS
    Owners,
    KeySets,                \* the owners whose key the scheduler may hold
    Funds,                  \* USDC an owner has to begin with
    MaxPlay                 \* bound: play raises no balance over this

ASSUME KeysAssumption == KeySets \subseteq SUBSET Owners
ASSUME FundsAssumption == Funds \in Nat /\ MaxPlay \in Nat

VARIABLES
    keyed,                  \* the owners whose key is in the scheduler's directory
    profile,                \* of each owner; "copy" is the balance the base chain shows
    wallet, ata,            \* each owner's USDC, and whether it has a token account
    strays                  \* profiles the pass has listed and still has to look at

profileVars == <<keyed, profile, wallet, ata, strays>>

Places == {"none", "base", "rollup", "leaving"}
Capacities == {"few", "full"}       \* policy.max_open_positions
Balances == 0..(MaxPlay + Funds)
Profile == [at : Places, balance : Balances, copy : Balances, capacity : Capacities]
NoProfile == [at |-> "none", balance |-> 0, copy |-> 0, capacity |-> "full"]

ProfilesTypeOK ==
    /\ keyed \in KeySets /\ strays \subseteq Owners
    /\ profile \in [Owners -> Profile]
    /\ wallet \in [Owners -> Balances] /\ ata \in [Owners -> BOOLEAN]

-----------------------------------------------------------------------------
(* The program.                                                            *)

IsAt(o, place) == profile[o].at = place

MayRegister(o) == IsAt(o, "none")
Registered(o) == [profile EXCEPT ![o] = [NoProfile EXCEPT !.at = "base"]]

\* A deposit needs the profile on the base chain and the tokens.  The slip does
\* not look whether they are there.
MayDeposit_Unfunded(o, amount) == amount > 0 /\ IsAt(o, "base") /\ ata[o]
MayDeposit(o, amount) == amount > 0 /\ IsAt(o, "base") /\ ata[o] /\ wallet[o] >= amount

Moved(o, amount) == [profile EXCEPT ![o].balance = @ + amount, ![o].copy = @ + amount]

\* The fee on profits is left out.
MayWithdraw(o, amount) ==
    amount > 0 /\ IsAt(o, "base") /\ ata[o] /\ amount <= profile[o].balance

MayDelegate(o) == IsAt(o, "base")
MayLeave(o) == IsAt(o, "rollup")
MovedTo(o, place) == [profile EXCEPT ![o].at = place]

\* The bets and payouts of the rollup, which the base chain does not see.
Won(o, amount) == [profile EXCEPT ![o].balance = @ + amount]

Settles(o) ==
    /\ IsAt(o, "rollup") /\ profile[o].balance < MaxPlay
    /\ profile' = Won(o, 1)
    /\ UNCHANGED <<keyed, wallet, ata, strays, spare>>

\* The validator returns a committed profile to the program, with its balance.
HandBack(o) ==
    /\ IsAt(o, "leaving")
    /\ profile' = [profile EXCEPT ![o].at = "base", ![o].copy = profile[o].balance]
    /\ UNCHANGED <<keyed, wallet, ata, strays, spare>>

-----------------------------------------------------------------------------
(* delegateUndelegatedAgentsOnce, which the scheduler runs every 30 s.     *)

Stray == {o \in Owners : IsAt(o, "base")}

ListAgents ==
    /\ keyed # {} /\ strays = {} /\ Stray # {}
    /\ strays' = Stray /\ UNCHANGED <<keyed, profile, wallet, ata, spare>>

\* A profile whose owner's key is not at hand is passed over.  The slip leaves
\* the loop at it.
PassedOver_Stops(o) == {}
PassedOver(o) == strays \ {o}

\* One profile of the list; an error is logged and the next one follows.
DelegateStray(o) ==
    /\ o \in strays
    /\ IF o \in keyed
       THEN \E out \in SentOnce :
               /\ Comes(out, MayDelegate(o))
               /\ profile' = IF out.done THEN MovedTo(o, "rollup") ELSE profile
               /\ strays' = strays \ {o}
       ELSE strays' = PassedOver(o) /\ UNCHANGED <<profile, spare>>
    /\ UNCHANGED <<keyed, wallet, ata>>

SchedulerPass == ListAgents \/ \E o \in Owners : DelegateStray(o)
=============================================================================
