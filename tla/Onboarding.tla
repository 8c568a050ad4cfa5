----------------------------- MODULE Onboarding ------------------------------
(***************************************************************************)
(* How a profile gets its funds and gets to the rollup.  A trading role    *)
(* does so every time its process starts: it registers, takes the profile  *)
(* off the rollup if it is there, tops the balance up and delegates it;    *)
(* market-ops only registers.  A client of the REST API posts for          *)
(* transactions, signs and sends them.  The scheduler's pass delegates     *)
(* whatever it finds on the base chain meanwhile.                          *)
(***************************************************************************)
EXTENDS Profiles

CONSTANTS
    Bots, Clients,          \* owners run by a role's process, and by a client of the API
    Modes,                  \* how a role works: see Mode
    Target                  \* TARGET_BALANCE

\* "chain": a trading role that sends everything itself; "http": one that has
\* the API build register and deposit; "ops": market-ops.
Mode == {"chain", "http", "ops"}

ASSUME WhoAssumption == Bots \cup Clients = Owners /\ Bots \cap Clients = {} /\ Modes \subseteq Mode
ASSUME TargetAssumption == Target \in Nat

VARIABLES
    mode, pc,               \* of each role's process
    read,                   \* the balance it saw on the base chain
    late,                   \* a deposit of a process that died, which may still land
    unsure                  \* ghost: a deposit is sent whose fate the process does not know

botVars == <<mode, pc, read, late, unsure>>
vars == <<profileVars, spare, botVars>>

Steps == {"ensure", "register", "check", "leave", "waitBase", "prepare", "read", "deposit",
          "delegate", "waitRollup", "raise"}
Registering == {"ensure", "register"}

TypeOK ==
    /\ ProfilesTypeOK /\ spare \in 0..Disturbances
    /\ mode \in [Bots -> Modes] /\ pc \in [Bots -> Steps \cup {"down", "run"}]
    /\ read \in [Bots -> Balances] /\ late \in [Bots -> 0..Target]
    /\ unsure \in [Bots -> BOOLEAN]

\* A role may find a profile of an earlier run.
Found ==
    {p \in Profile : /\ p.at \in {"base", "rollup"} /\ p.balance <= MaxPlay /\ p.copy <= Target
                     /\ p.at = "base" => p.copy = p.balance}

Init ==
    /\ keyed \in KeySets /\ strays = {} /\ spare = Disturbances
    /\ wallet = [o \in Owners |-> Funds] /\ ata = [o \in Owners |-> o \in Clients]
    /\ profile \in [Owners -> Found \cup {NoProfile}]
    /\ \A o \in Clients : profile[o] = NoProfile
    /\ mode \in [Bots -> Modes] /\ pc = [b \in Bots |-> "down"]
    /\ read = [b \in Bots |-> 0] /\ late = [b \in Bots |-> 0] /\ unsure = [b \in Bots |-> FALSE]

-----------------------------------------------------------------------------
(* A role's process.  An error ends it (process.exit), except that         *)
(* market-ops goes on without a profile.                                   *)

Goto(b, l) == pc' = [pc EXCEPT ![b] = l]
Throws(b) == Goto(b, IF mode[b] = "ops" /\ pc[b] \in Registering THEN "run" ELSE "down")
Fresh(b) == IF mode[b] = "ops" THEN "run" ELSE "check"

\* Through the API a transaction is signed again when taken for expired;
\* market-ops may use it too.
Sendings(b) == IF mode[b] = "chain" THEN SentOnce ELSE Outcomes

\* On to the next step, out, or the same transaction again.
After(b, out, next) ==
    CASE Answered(out) -> Goto(b, next) [] ~Returned(out) -> UNCHANGED pc [] OTHER -> Throws(b)

Start(b) ==
    /\ pc[b] = "down" /\ Goto(b, "ensure")
    /\ UNCHANGED <<profileVars, spare, mode, read, late, unsure>>

\* ensureAgent looks whether the profile is there once, before the first attempt:
\* one that is sent again after it was executed fails.
EnsureAgent(b) ==
    /\ pc[b] = "ensure"
    /\ Goto(b, IF MayRegister(b) THEN "register" ELSE Fresh(b))
    /\ UNCHANGED <<profileVars, spare, mode, read, late, unsure>>

RegisterAgent(b) ==
    /\ pc[b] = "register"
    /\ \E out \in Sendings(b) :
          /\ Comes(out, MayRegister(b))
          /\ profile' = IF out.done THEN Registered(b) ELSE profile
          /\ After(b, out, Fresh(b))
    /\ UNCHANGED <<keyed, wallet, ata, strays, mode, read, late, unsure>>

CheckDelegated(b) ==
    /\ pc[b] = "check"
    /\ Goto(b, IF IsAt(b, "base") THEN "prepare" ELSE "leave")
    /\ UNCHANGED <<profileVars, spare, mode, read, late, unsure>>

CommitAndUndelegate(b) ==
    /\ pc[b] = "leave"
    /\ \E out \in Outcomes :
          /\ Comes(out, MayLeave(b))
          /\ profile' = IF out.done THEN MovedTo(b, "leaving") ELSE profile
          /\ After(b, out, "waitBase")
    /\ UNCHANGED <<keyed, wallet, ata, strays, mode, read, late, unsure>>

\* waitForOwner polls until the owner is the expected one or its time is over.
\* The slips: it does not wait; it has no limit.
Ready_AtOnce(b, onBase) == TRUE
Ready(b, onBase) == IsAt(b, "base") = onBase
Limited_Never == FALSE
Limited == TRUE

WaitForOwner(b, here, onBase, next) ==
    /\ pc[b] = here
    /\ \/ Ready(b, onBase) /\ Goto(b, next)
       \/ Limited /\ Throws(b)
    /\ UNCHANGED <<profileVars, spare, mode, read, late, unsure>>

CreateTokenAccount(b) ==
    /\ pc[b] = "prepare"
    /\ ata' = [ata EXCEPT ![b] = TRUE] /\ Goto(b, "read")
    /\ UNCHANGED <<keyed, profile, wallet, strays, spare, mode, read, late, unsure>>

\* What is missing to the target.  The slip pays in the whole target.
TopUp_Whole(balance) == Target
TopUp(balance) == Target - balance

ReadBalance(b) ==
    LET seen == profile[b].copy IN
    /\ pc[b] = "read"
    /\ read' = [read EXCEPT ![b] = seen]
    /\ CASE seen >= Target -> Goto(b, "delegate")
         [] seen < Target /\ wallet[b] >= TopUp(seen) -> Goto(b, "deposit")
         [] OTHER -> Throws(b)
    /\ unsure' = [unsure EXCEPT ![b] = late[b] > 0]
    /\ UNCHANGED <<profileVars, spare, mode, late>>

PayIn(b, amount) ==
    /\ profile' = Moved(b, amount)
    /\ wallet' = [wallet EXCEPT ![b] = @ - amount]

Deposit(b) ==
    LET amount == TopUp(read[b]) IN
    /\ pc[b] = "deposit"
    /\ \E out \in Sendings(b) :
          /\ Comes(out, MayDeposit(b, amount))
          /\ IF out.done THEN PayIn(b, amount) ELSE UNCHANGED <<profile, wallet>>
          /\ After(b, out, "delegate")
          /\ unsure' = [unsure EXCEPT ![b] = @ \/ ~Returned(out)]
    /\ UNCHANGED <<keyed, ata, strays, mode, read, late>>

EnsureDelegated(b) ==
    /\ pc[b] = "delegate"
    /\ \E out \in SentOnce :
          /\ Comes(out, MayDelegate(b))
          /\ profile' = IF out.done THEN MovedTo(b, "rollup") ELSE profile
          /\ After(b, out, "waitRollup")
    /\ UNCHANGED <<keyed, wallet, ata, strays, mode, read, late, unsure>>

\* A failure to raise the cap is logged only.
MaybeRaiseOpenPositionsCap(b) ==
    /\ pc[b] = "raise"
    /\ IF profile[b].capacity = "full" THEN Goto(b, "run") /\ UNCHANGED <<profile, spare>>
       ELSE \E out \in Outcomes :
               /\ Comes(out, IsAt(b, "rollup"))
               /\ profile' = IF out.done THEN [profile EXCEPT ![b].capacity = "full"] ELSE profile
               /\ IF Returned(out) THEN Goto(b, "run") ELSE UNCHANGED pc
    /\ UNCHANGED <<keyed, wallet, ata, strays, mode, read, late, unsure>>

BotStep(b) ==
    \/ EnsureAgent(b) \/ RegisterAgent(b) \/ CheckDelegated(b) \/ CommitAndUndelegate(b)
    \/ WaitForOwner(b, "waitBase", TRUE, "prepare")
    \/ CreateTokenAccount(b) \/ ReadBalance(b) \/ Deposit(b) \/ EnsureDelegated(b)
    \/ WaitForOwner(b, "waitRollup", FALSE, "raise")
    \/ MaybeRaiseOpenPositionsCap(b)

\* A running trader stakes its balance on the rollup.
Bets(b) ==
    /\ pc[b] = "run" /\ mode[b] # "ops" /\ IsAt(b, "rollup") /\ profile[b].balance > 0
    /\ profile' = Won(b, -1)
    /\ UNCHANGED <<keyed, wallet, ata, strays, spare, botVars>>

\* It sells, one side or both, on the rollup or through the API.
Sells(b) ==
    /\ pc[b] = "run" /\ mode[b] # "ops" /\ IsAt(b, "rollup")
    /\ \E n \in 1..(MaxPlay - profile[b].balance) : profile' = Won(b, n)
    /\ UNCHANGED <<keyed, wallet, ata, strays, spare, botVars>>

\* An account that cannot be read, an API that answers 500, a process that is
\* killed: the start is over, but a deposit under way may still land.  Whatever
\* else was under way is taken to land at once or not at all, which is an
\* assumption; for the commit, a rollup's transaction, the short life of the
\* rollup's blockhashes speaks for it.
Crash(b) ==
    /\ pc[b] # "down" /\ Fault /\ Goto(b, "down")
    /\ IF pc[b] = "deposit"
       THEN late' = [late EXCEPT ![b] = TopUp(read[b])] /\ unsure' = [unsure EXCEPT ![b] = TRUE]
       ELSE UNCHANGED <<late, unsure>>
    /\ UNCHANGED <<profileVars, mode, read>>

LandsLate(b) ==
    /\ late[b] > 0 /\ late' = [late EXCEPT ![b] = 0]
    /\ \/ MayDeposit(b, late[b]) /\ PayIn(b, late[b])
       \/ UNCHANGED <<profile, wallet>>
    /\ UNCHANGED <<keyed, ata, strays, spare, mode, pc, read, unsure>>

-----------------------------------------------------------------------------
(* A client of the API.  The API checks the request's form, builds the     *)
(* transaction and keeps nothing; /tx/send has it simulated, then passes   *)
(* it on.  Only when it lands does the chain decide.                       *)

\* agent/register
PostRegister(c) == MayRegister(c) /\ profile' = Registered(c) /\ UNCHANGED wallet
\* agent/deposit
PostDeposit(c) == MayDeposit(c, 1) /\ PayIn(c, 1)
\* agent/withdraw
PostWithdraw(c) == MayWithdraw(c, 1) /\ PayIn(c, -1)
\* bet/place
PostPlace(c) ==
    IsAt(c, "rollup") /\ profile[c].balance > 0 /\ profile' = Won(c, -1) /\ UNCHANGED wallet

\* bet/close; what a sale brings is left open.
PostClose(c) ==
    IsAt(c, "rollup") /\ profile[c].balance < MaxPlay /\ profile' = Won(c, 1) /\ UNCHANGED wallet

\* bet/cancel sells both sides.
PostCancel(c) ==
    /\ IsAt(c, "rollup") /\ UNCHANGED wallet
    /\ \E n \in 1..(MaxPlay - profile[c].balance) : profile' = Won(c, n)

\* A transaction that was simulated in one state lands in a later one: it is
\* executed if that allows it too, and otherwise fails without a trace.
SendTx(c) ==
    /\ PostRegister(c) \/ PostDeposit(c) \/ PostWithdraw(c)
       \/ PostPlace(c) \/ PostClose(c) \/ PostCancel(c)
    /\ UNCHANGED <<keyed, ata, strays, spare, botVars>>

-----------------------------------------------------------------------------
Next ==
    \/ \E b \in Bots : Start(b) \/ BotStep(b) \/ Bets(b) \/ Sells(b) \/ Crash(b) \/ LandsLate(b)
    \/ \E c \in Clients : SendTx(c)
    \/ \E o \in Owners : (Settles(o) \/ HandBack(o)) /\ UNCHANGED botVars
    \/ SchedulerPass /\ UNCHANGED botVars

Spec == Init /\ [][Next]_vars

\* A call a role awaits returns, and its polling ends; the scheduler ticks, and
\* the validator completes what was committed.  Nobody need start a role again.
Fairness ==
    /\ \A b \in Bots : WF_vars(BotStep(b))
    /\ WF_vars(SchedulerPass /\ UNCHANGED botVars)
    /\ \A o \in Owners : WF_vars(HandBack(o) /\ UNCHANGED botVars)

FairSpec == Spec /\ Fairness

-----------------------------------------------------------------------------
(* What must hold.                                                         *)

\* "deposit up to targetBalance": whatever was paid in by earlier runs of the
\* process, lost answers and crashes included, and whatever the scheduler does in
\* between, a role's deposit lifts the balance to the target at most.  Only where
\* a deposit taken for expired is sent again, or one of a killed process still
\* lands, can the target be paid twice.
NeverOverfunded ==
    [][\A b \in Bots : wallet'[b] < wallet[b] => profile'[b].balance <= Target \/ unsure[b]]_vars

\* "Every-run startup routine": a trading role starts to trade with its profile
\* on the rollup and the target balance behind it, however stale the base chain's
\* copy was when it started.
ReadyToTrade ==
    [][\A b \in Bots : pc[b] # "run" /\ pc'[b] = "run" /\ mode[b] # "ops" =>
          IsAt(b, "rollup") /\ profile[b].balance >= Target]_vars

\* A start never hangs, though the scheduler's pass may take the profile away
\* from under a step that waits for it: it ends in trading or in an exit.
StartsEnd == \A b \in Bots : pc[b] \in Steps ~> pc[b] \notin Steps

\* "the scheduler handles this": a profile whose owner's key the scheduler holds
\* gets to the rollup, whoever else's is in the list, and whatever became of the
\* start that left it on the base chain.
StrayIsDelegated ==
    \A o \in Owners : o \in keyed /\ IsAt(o, "base") ~> IsAt(o, "rollup")
=============================================================================
