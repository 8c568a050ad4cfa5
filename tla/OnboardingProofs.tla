-------------------------- MODULE OnboardingProofs ---------------------------
(***************************************************************************)
(* Theorems about a profile's way to its funds and to the rollup, for any  *)
(* number of owners, any target and any sequence of faults.                *)
(*                                                                         *)
(* Two things are kept.  One is about money and knows nothing of the       *)
(* roles' processes: what an owner has in its wallet and its profile, and  *)
(* that the base chain's copy is right while the profile is there.  The    *)
(* other says what a process may rely on at each step of its start.        *)
(***************************************************************************)
EXTENDS Onboarding, TLAPS

Paper == profile \in [Owners -> Profile] /\ wallet \in [Owners -> Balances]

\* An owner's money.  A client's profile never comes back from the rollup: the
\* API has no route for that.
Pocket(o) ==
    /\ wallet[o] <= Funds /\ wallet[o] + profile[o].balance <= Funds + MaxPlay
    /\ IsAt(o, "base") => profile[o].copy = profile[o].balance
    /\ o \in Clients =>
          \/ IsAt(o, "rollup")
          \/ profile[o].at \in {"none", "base"} /\ wallet[o] + profile[o].balance <= Funds

Money == Paper /\ \A o \in Owners : Pocket(o)

BotsTyped ==
    /\ mode \in [Bots -> Modes] /\ pc \in [Bots -> Steps \cup {"down", "run"}]
    /\ read \in [Bots -> Balances] /\ late \in [Bots -> 0..Target]
    /\ unsure \in [Bots -> BOOLEAN]

\* Steps at which the profile is known to have been on the base chain, and can
\* since then only have gone to the rollup.
Brought == {"prepare", "read", "deposit", "delegate", "waitRollup", "raise"}

Booting(b) ==
    /\ late[b] > 0 => unsure[b]
    /\ pc[b] \notin {"down", "run"} \cup Registering => mode[b] # "ops"
    /\ pc[b] \in Brought =>
          profile[b].at \in {"base", "rollup"} /\ profile[b].balance >= profile[b].copy
    /\ pc[b] = "deposit" =>
          /\ read[b] < Target /\ profile[b].copy >= read[b]
          /\ unsure[b] \/ profile[b].copy = read[b]
    /\ pc[b] \in {"delegate", "waitRollup", "raise"} => profile[b].balance >= Target
    /\ pc[b] = "raise" => IsAt(b, "rollup")

Around == keyed \in KeySets /\ strays \subseteq Owners /\ ata \in [Owners -> BOOLEAN]
          /\ spare \in 0..Disturbances

OnboardingInv == Around /\ Money /\ BotsTyped /\ \A b \in Bots : Booting(b)

-----------------------------------------------------------------------------
(* Calls.                                                                  *)

\* What may come of a call: it takes at most one disturbance, it is executed only
\* where that is allowed, and who gets a signature knows that it was.
LEMMA WhatComes ==
    ASSUME spare \in 0..Disturbances, NEW out, NEW allowed, Comes(out, allowed)
    PROVE  /\ spare' \in 0..Disturbances
           /\ out.done \in BOOLEAN /\ (out.done => allowed) /\ (Answered(out) => out.done)
<1>1. spare' \in 0..Disturbances
  BY DisturbancesAssumption DEF Comes, Fault
<1>2. out.done => allowed
  BY Zenon DEF Comes
<1>3. out \in [done : BOOLEAN, answer : {"signature", "error", "expired"}]
      /\ (out.answer = "signature" => out.done)
  BY DEF Comes, Outcomes
<1> QED
  BY <1>1, <1>2, <1>3 DEF Answered

LEMMA GoesOn ==
    ASSUME BotsTyped, NEW b \in Bots, NEW l \in Steps \cup {"down", "run"}, Goto(b, l)
    PROVE  /\ pc' \in [Bots -> Steps \cup {"down", "run"}]
           /\ pc'[b] = l /\ \A x \in Bots \ {b} : pc'[x] = pc[x]
  BY DEF BotsTyped, Goto

LEMMA GivesUp ==
    ASSUME BotsTyped, NEW b \in Bots, Throws(b)
    PROVE  /\ pc' \in [Bots -> Steps \cup {"down", "run"}]
           /\ pc'[b] \in {"down", "run"} /\ (pc'[b] = "run" => mode[b] = "ops")
           /\ \A x \in Bots \ {b} : pc'[x] = pc[x]
  BY DEF BotsTyped, Throws, Goto

LEMMA AfterCall ==
    ASSUME BotsTyped, NEW b \in Bots, NEW out, NEW l \in Steps \cup {"down", "run"},
           After(b, out, l)
    PROVE  /\ pc' \in [Bots -> Steps \cup {"down", "run"}]
           /\ \/ Answered(out) /\ pc'[b] = l
              \/ ~Answered(out) /\ (pc'[b] = pc[b] \/ pc'[b] = "down"
                                    \/ (pc'[b] = "run" /\ mode[b] = "ops"))
           /\ \A x \in Bots \ {b} : pc'[x] = pc[x]
<1>1. CASE Answered(out)
  <2>1. Goto(b, l)
    BY <1>1 DEF After, Answered, Returned
  <2> QED
    BY <1>1, <2>1, GoesOn
<1>2. CASE ~Answered(out) /\ ~Returned(out)
  BY <1>2 DEF After, BotsTyped
<1>3. CASE ~Answered(out) /\ Returned(out)
  BY <1>3, GivesUp DEF After
<1> QED
  BY <1>1, <1>2, <1>3

-----------------------------------------------------------------------------
(* Money.                                                                  *)

\* Only o's money is touched.
Others(o) ==
    \A x \in Owners \ {o} : profile'[x] = profile[x] /\ wallet'[x] = wallet[x]

LEMMA OthersKeepTheirs ==
    ASSUME Money, NEW o \in Owners, Others(o), Paper', Pocket(o)'
    PROVE  Money'
<1>1. ASSUME NEW x \in Owners, x # o PROVE Pocket(x)'
  BY <1>1 DEF Money, Others, Pocket, IsAt
<1> QED
  BY <1>1 DEF Money

\* Tokens move between wallet and profile, and only on the base chain; tokens
\* come out for clients alone.
LEMMA PaysIn ==
    ASSUME Money, NEW o \in Owners, NEW amount \in Int, PayIn(o, amount), IsAt(o, "base"),
           amount <= wallet[o], profile[o].balance + amount >= 0, amount >= 0 \/ o \in Clients
    PROVE  /\ Money' /\ Others(o)
           /\ profile'[o].at = "base" /\ wallet'[o] = wallet[o] - amount
           /\ profile'[o].balance = profile[o].balance + amount
           /\ profile'[o].copy = profile[o].copy + amount
<1> DEFINE p == profile[o]
           q == [[p EXCEPT !.balance = @ + amount] EXCEPT !.copy = @ + amount]
<1>1. /\ p \in Profile /\ wallet[o] \in Balances /\ p.at = "base" /\ p.copy = p.balance
      /\ wallet[o] <= Funds /\ wallet[o] + p.balance <= Funds + MaxPlay
      /\ o \in Clients => wallet[o] + p.balance <= Funds
  BY DEF Money, Paper, Pocket, IsAt
<1>2. p.balance \in Balances /\ p.balance + amount \in Balances /\ wallet[o] - amount \in Balances
      /\ wallet[o] - amount <= Funds
  BY <1>1, FundsAssumption DEF Profile, Balances
<1>3. profile' = [profile EXCEPT ![o] = q] /\ wallet' = [wallet EXCEPT ![o] = @ - amount]
  BY <1>1 DEF PayIn, Moved, Money, Paper, Profile
<1>4. /\ q \in Profile /\ q.at = "base" /\ q.balance = p.balance + amount
      /\ q.copy = p.copy + amount
  BY <1>1, <1>2 DEF Profile
<1>5. profile'[o] = q /\ wallet'[o] = wallet[o] - amount /\ Others(o) /\ Paper'
  BY <1>2, <1>3, <1>4 DEF Money, Paper, Others
<1>6. Pocket(o)'
  BY <1>1, <1>2, <1>4, <1>5, FundsAssumption DEF Pocket, IsAt, Profile, Balances
<1> QED
  BY <1>1, <1>4, <1>5, <1>6, OthersKeepTheirs

\* What is won and staked on the rollup.
LEMMA Plays ==
    ASSUME Money, NEW o \in Owners, NEW n \in Int, profile' = Won(o, n), UNCHANGED wallet,
           IsAt(o, "rollup"), profile[o].balance + n >= 0,
           n <= 0 \/ profile[o].balance + n <= MaxPlay
    PROVE  /\ Money' /\ Others(o)
           /\ profile'[o].at = "rollup" /\ profile'[o].copy = profile[o].copy
           /\ profile'[o].balance = profile[o].balance + n
<1> DEFINE p == profile[o]
           q == [p EXCEPT !.balance = @ + n]
<1>1. /\ p \in Profile /\ wallet[o] \in Balances /\ p.at = "rollup"
      /\ wallet[o] <= Funds /\ wallet[o] + p.balance <= Funds + MaxPlay
  BY DEF Money, Paper, Pocket, IsAt
<1>2. p.balance \in Balances /\ p.balance + n \in Balances
      /\ wallet[o] + (p.balance + n) <= Funds + MaxPlay
  BY <1>1, FundsAssumption DEF Profile, Balances
<1>3. q \in Profile /\ q.at = "rollup" /\ q.balance = p.balance + n /\ q.copy = p.copy
  BY <1>1, <1>2 DEF Profile
<1>4. profile' = [profile EXCEPT ![o] = q]
  BY <1>1 DEF Won, Money, Paper, Profile
<1>5. profile'[o] = q /\ wallet'[o] = wallet[o] /\ Others(o) /\ Paper'
  BY <1>3, <1>4 DEF Money, Paper, Others
<1>6. Pocket(o)'
  BY <1>1, <1>2, <1>3, <1>5 DEF Pocket, IsAt
<1> QED
  BY <1>1, <1>3, <1>5, <1>6, OthersKeepTheirs

\* The profile goes to the rollup, or a role's profile away from it.
LEMMA Travels ==
    ASSUME Money, NEW o \in Owners, NEW place, profile' = MovedTo(o, place), UNCHANGED wallet,
           \/ place = "rollup" /\ IsAt(o, "base")
           \/ place = "leaving" /\ o \notin Clients
    PROVE  /\ Money' /\ Others(o)
           /\ profile'[o].at = place /\ profile'[o].copy = profile[o].copy
           /\ profile'[o].balance = profile[o].balance
<1> DEFINE p == profile[o]
           q == [p EXCEPT !.at = place]
<1>1. p \in Profile /\ wallet[o] + p.balance <= Funds + MaxPlay /\ wallet[o] <= Funds
  BY DEF Money, Paper, Pocket
<1>2. q \in Profile /\ q.at = place /\ q.balance = p.balance /\ q.copy = p.copy
  BY <1>1 DEF Profile, Places
<1>3. profile' = [profile EXCEPT ![o] = q]
  BY <1>1 DEF MovedTo, Money, Paper, Profile
<1>4. profile'[o] = q /\ wallet'[o] = wallet[o] /\ Others(o) /\ Paper'
  BY <1>2, <1>3 DEF Money, Paper, Others
<1>5. Pocket(o)'
  BY <1>1, <1>2, <1>4 DEF Pocket, IsAt
<1> QED
  BY <1>2, <1>4, <1>5, OthersKeepTheirs

\* The other ways a profile changes: it is created, comes back, or its cap rises.
LEMMA Created ==
    ASSUME Money, NEW o \in Owners, MayRegister(o), profile' = Registered(o), UNCHANGED wallet
    PROVE  /\ Money' /\ Others(o)
           /\ profile'[o].at = "base" /\ profile'[o].copy = 0 /\ profile'[o].balance = 0
<1> DEFINE q == [NoProfile EXCEPT !.at = "base"]
<1>1. q \in Profile /\ q.at = "base" /\ q.copy = 0 /\ q.balance = 0
  BY FundsAssumption DEF NoProfile, Profile, Places, Capacities, Balances
<1>2. profile'[o] = q /\ wallet'[o] = wallet[o] /\ Others(o) /\ Paper'
  BY <1>1 DEF Money, Paper, Others, Registered
<1>3. wallet[o] \in Nat /\ wallet[o] <= Funds /\ wallet[o] <= Funds + MaxPlay
  BY FundsAssumption DEF Money, Paper, Pocket, Balances
<1>4. Pocket(o)'
  BY <1>1, <1>2, <1>3 DEF Pocket, IsAt
<1> QED
  BY <1>1, <1>2, <1>4, OthersKeepTheirs

LEMMA HandedBack ==
    ASSUME Money, NEW o \in Owners, HandBack(o)
    PROVE  /\ Money' /\ Others(o)
           /\ profile'[o].at = "base" /\ profile'[o].copy = profile[o].balance
           /\ profile'[o].balance = profile[o].balance
<1> DEFINE p == profile[o]
           q == [[p EXCEPT !.at = "base"] EXCEPT !.copy = p.balance]
<1>1. /\ p \in Profile /\ wallet[o] + p.balance <= Funds + MaxPlay /\ wallet[o] <= Funds
      /\ o \notin Clients
  BY DEF Money, Paper, Pocket, HandBack, IsAt
<1>2. q \in Profile /\ q.at = "base" /\ q.balance = p.balance /\ q.copy = p.balance
  BY <1>1 DEF Profile, Places
<1>3. profile' = [profile EXCEPT ![o] = q]
  BY <1>1 DEF HandBack, Money, Paper, Profile
<1>4. profile'[o] = q /\ wallet'[o] = wallet[o] /\ Others(o) /\ Paper'
  BY <1>2, <1>3 DEF Money, Paper, Others, HandBack
<1>5. Pocket(o)'
  BY <1>1, <1>2, <1>4 DEF Pocket, IsAt
<1> QED
  BY <1>2, <1>4, <1>5, OthersKeepTheirs

LEMMA CapRaised ==
    ASSUME Money, NEW o \in Owners, profile' = [profile EXCEPT ![o].capacity = "full"],
           UNCHANGED wallet
    PROVE  /\ Money' /\ Others(o)
           /\ profile'[o].at = profile[o].at /\ profile'[o].copy = profile[o].copy
           /\ profile'[o].balance = profile[o].balance
<1> DEFINE p == profile[o]
           q == [p EXCEPT !.capacity = "full"]
<1>1. p \in Profile
  BY DEF Money, Paper
<1>2. q \in Profile /\ q.at = p.at /\ q.balance = p.balance /\ q.copy = p.copy
  BY <1>1 DEF Profile, Capacities
<1>3. profile'[o] = q /\ wallet'[o] = wallet[o] /\ Others(o) /\ Paper'
  BY <1>2 DEF Money, Paper, Others
<1>4. Pocket(o)'
  BY <1>2, <1>3 DEF Money, Pocket, IsAt
<1> QED
  BY <1>2, <1>3, <1>4, OthersKeepTheirs

LEMMA MoneyUntouched ==
    ASSUME Money, UNCHANGED <<profile, wallet>>
    PROVE  Money' /\ \A o \in Owners : Others(o)
  BY DEF Money, Paper, Pocket, IsAt, Others

-----------------------------------------------------------------------------
(* One role's step.                                                        *)

\* The other roles' processes stay where they are.
OthersSit(b) ==
    \A x \in Bots \ {b} :
        pc'[x] = pc[x] /\ read'[x] = read[x] /\ late'[x] = late[x] /\ unsure'[x] = unsure[x]

LEMMA BotsAreOwners == Bots \subseteq Owners /\ Clients \subseteq Owners /\ Bots \cap Clients = {}
  BY WhoAssumption

LEMMA OneBot ==
    ASSUME OnboardingInv, NEW b \in Bots, Around', Money', BotsTyped', UNCHANGED mode,
           Others(b), OthersSit(b), Booting(b)'
    PROVE  OnboardingInv'
<1>1. ASSUME NEW x \in Bots, x # b PROVE Booting(x)'
  <2>1. x \in Owners \ {b} /\ x \in Bots \ {b}
    BY <1>1, BotsAreOwners
  <2>2. /\ profile'[x] = profile[x] /\ pc'[x] = pc[x] /\ read'[x] = read[x]
        /\ late'[x] = late[x] /\ unsure'[x] = unsure[x] /\ mode'[x] = mode[x]
    BY <2>1 DEF Others, OthersSit
  <2>3. Booting(x)
    BY DEF OnboardingInv
  <2> QED
    BY <2>2, <2>3 DEF Booting, IsAt
<1> QED
  BY <1>1 DEF OnboardingInv

LEMMA StartKept ==
    ASSUME OnboardingInv, NEW b \in Bots, Start(b)
    PROVE  OnboardingInv'
<1>1. Money' /\ Others(b)
  BY MoneyUntouched, BotsAreOwners DEF Start, OnboardingInv, profileVars
<1>2. Around' /\ BotsTyped' /\ OthersSit(b) /\ pc'[b] = "ensure"
  BY DEF Start, OnboardingInv, Around, BotsTyped, OthersSit, Goto, profileVars, Steps
<1>3. Booting(b)'
  BY <1>2 DEF Start, OnboardingInv, Booting, Brought, Registering
<1> QED
  BY <1>1, <1>2, <1>3, OneBot DEF Start

LEMMA EnsureAgentKept ==
    ASSUME OnboardingInv, NEW b \in Bots, EnsureAgent(b)
    PROVE  OnboardingInv'
<1>1. Money' /\ Others(b)
  BY MoneyUntouched, BotsAreOwners DEF EnsureAgent, OnboardingInv, profileVars
<1>2. /\ Around' /\ BotsTyped' /\ OthersSit(b) /\ UNCHANGED <<mode, late, unsure>>
      /\ pc'[b] \in {"register", Fresh(b)}
  BY DEF EnsureAgent, OnboardingInv, Around, BotsTyped, OthersSit, Goto, profileVars, Steps, Fresh
<1>3. Booting(b)'
  BY <1>2 DEF OnboardingInv, Booting, Brought, Fresh, Registering
<1> QED
  BY <1>1, <1>2, <1>3, OneBot

LEMMA RegisterAgentKept ==
    ASSUME OnboardingInv, NEW b \in Bots, RegisterAgent(b)
    PROVE  OnboardingInv'
<1>0. Money /\ Around /\ BotsTyped /\ b \in Owners /\ Booting(b)
      /\ UNCHANGED <<keyed, wallet, ata, strays, mode, read, late, unsure>> /\ pc[b] = "register"
      /\ Fresh(b) \in Steps \cup {"down", "run"}
  BY BotsAreOwners DEF OnboardingInv, RegisterAgent, Fresh, Steps
<1>1. PICK out \in Sendings(b) :
         /\ Comes(out, MayRegister(b))
         /\ profile' = IF out.done THEN Registered(b) ELSE profile
         /\ After(b, out, Fresh(b))
  BY DEF RegisterAgent
<1>2. spare' \in 0..Disturbances /\ out.done \in BOOLEAN /\ (out.done => MayRegister(b))
  BY <1>0, <1>1, WhatComes DEF Around
<1>3. Money' /\ Others(b)
  BY <1>0, <1>1, <1>2, Created, MoneyUntouched
<1>4. /\ pc' \in [Bots -> Steps \cup {"down", "run"}] /\ \A x \in Bots \ {b} : pc'[x] = pc[x]
      /\ pc'[b] \in {"register", "down", "run", Fresh(b)}
  BY <1>0, <1>1, AfterCall
<1>5. Around' /\ BotsTyped' /\ OthersSit(b)
  BY <1>0, <1>2, <1>4 DEF Around, BotsTyped, OthersSit
<1>6. Booting(b)'
  BY <1>0, <1>4 DEF Booting, Brought, Registering, Fresh
<1> QED
  BY <1>0, <1>3, <1>5, <1>6, OneBot

LEMMA CheckDelegatedKept ==
    ASSUME OnboardingInv, NEW b \in Bots, CheckDelegated(b)
    PROVE  OnboardingInv'
<1>1. Money' /\ Others(b)
  BY MoneyUntouched, BotsAreOwners DEF CheckDelegated, OnboardingInv, profileVars
<1>2. Around' /\ BotsTyped' /\ OthersSit(b)
      /\ pc'[b] = IF IsAt(b, "base") THEN "prepare" ELSE "leave"
  BY DEF CheckDelegated, OnboardingInv, Around, BotsTyped, OthersSit, Goto, profileVars, Steps
<1>3. IsAt(b, "base") => profile[b].copy = profile[b].balance /\ profile[b].balance \in Nat
  BY BotsAreOwners, FundsAssumption DEF OnboardingInv, Money, Paper, Pocket, Profile, Balances
<1>4. Booting(b)'
  BY <1>2, <1>3 DEF CheckDelegated, OnboardingInv, Booting, Brought, Registering, profileVars, IsAt
<1> QED
  BY <1>1, <1>2, <1>4, OneBot DEF CheckDelegated

LEMMA CommitAndUndelegateKept ==
    ASSUME OnboardingInv, NEW b \in Bots, CommitAndUndelegate(b)
    PROVE  OnboardingInv'
<1>0. Money /\ Around /\ BotsTyped /\ b \in Owners /\ b \notin Clients /\ Booting(b)
      /\ UNCHANGED <<keyed, wallet, ata, strays, mode, read, late, unsure>> /\ pc[b] = "leave"
      /\ "waitBase" \in Steps \cup {"down", "run"}
  BY BotsAreOwners DEF OnboardingInv, CommitAndUndelegate, Steps
<1>1. PICK out \in Outcomes :
         /\ Comes(out, MayLeave(b))
         /\ profile' = IF out.done THEN MovedTo(b, "leaving") ELSE profile
         /\ After(b, out, "waitBase")
  BY DEF CommitAndUndelegate
<1>2. Money' /\ Others(b)
  BY <1>0, <1>1, Travels, MoneyUntouched
<1>3. spare' \in 0..Disturbances
  BY <1>0, <1>1, WhatComes DEF Around
<1>4. /\ pc' \in [Bots -> Steps \cup {"down", "run"}] /\ \A x \in Bots \ {b} : pc'[x] = pc[x]
      /\ pc'[b] \in {"leave", "down", "run", "waitBase"}
  BY <1>0, <1>1, AfterCall
<1>5. Around' /\ BotsTyped' /\ OthersSit(b)
  BY <1>0, <1>3, <1>4 DEF Around, BotsTyped, OthersSit
<1>6. Booting(b)'
  BY <1>0, <1>4 DEF Booting, Brought, Registering
<1> QED
  BY <1>0, <1>2, <1>5, <1>6, OneBot

LEMMA WaitForBaseKept ==
    ASSUME OnboardingInv, NEW b \in Bots, WaitForOwner(b, "waitBase", TRUE, "prepare")
    PROVE  OnboardingInv'
<1>1. Money' /\ Others(b)
  BY MoneyUntouched, BotsAreOwners DEF WaitForOwner, OnboardingInv, profileVars
<1>2. Around' /\ BotsTyped' /\ OthersSit(b)
      /\ \/ pc'[b] = "prepare" /\ IsAt(b, "base")
         \/ pc'[b] \in {"down", "run"}
  BY DEF WaitForOwner, Ready, OnboardingInv, Around, BotsTyped, OthersSit, Goto, Throws,
     profileVars, Steps
<1>3. IsAt(b, "base") => profile[b].copy = profile[b].balance /\ profile[b].balance \in Nat
  BY BotsAreOwners, FundsAssumption DEF OnboardingInv, Money, Paper, Pocket, Profile, Balances
<1>4. Booting(b)'
  BY <1>2, <1>3 DEF WaitForOwner, OnboardingInv, Booting, Brought, Registering, profileVars, IsAt
<1> QED
  BY <1>1, <1>2, <1>4, OneBot DEF WaitForOwner

LEMMA WaitForRollupKept ==
    ASSUME OnboardingInv, NEW b \in Bots, WaitForOwner(b, "waitRollup", FALSE, "raise")
    PROVE  OnboardingInv'
<1>1. Money' /\ Others(b)
  BY MoneyUntouched, BotsAreOwners DEF WaitForOwner, OnboardingInv, profileVars
<1>2. Around' /\ BotsTyped' /\ OthersSit(b)
      /\ \/ pc'[b] = "raise" /\ ~IsAt(b, "base")
         \/ pc'[b] \in {"down", "run"}
  BY DEF WaitForOwner, Ready, OnboardingInv, Around, BotsTyped, OthersSit, Goto, Throws,
     profileVars, Steps
<1>3. Booting(b)'
  BY <1>2 DEF WaitForOwner, OnboardingInv, Booting, Brought, Registering, profileVars, IsAt
<1> QED
  BY <1>1, <1>2, <1>3, OneBot DEF WaitForOwner

LEMMA CreateTokenAccountKept ==
    ASSUME OnboardingInv, NEW b \in Bots, CreateTokenAccount(b)
    PROVE  OnboardingInv'
<1>1. Money' /\ Others(b)
  BY MoneyUntouched, BotsAreOwners DEF CreateTokenAccount, OnboardingInv
<1>2. Around' /\ BotsTyped' /\ OthersSit(b) /\ pc'[b] = "read"
  BY DEF CreateTokenAccount, OnboardingInv, Around, BotsTyped, OthersSit, Goto, Steps
<1>3. Booting(b)'
  BY <1>2 DEF CreateTokenAccount, OnboardingInv, Booting, Brought, Registering, IsAt
<1> QED
  BY <1>1, <1>2, <1>3, OneBot DEF CreateTokenAccount

LEMMA ReadBalanceKept ==
    ASSUME OnboardingInv, NEW b \in Bots, ReadBalance(b)
    PROVE  OnboardingInv'
<1> DEFINE seen == profile[b].copy
           doubt == late[b] > 0
<1>0. Money /\ Around /\ BotsTyped /\ b \in Owners /\ Booting(b) /\ pc[b] = "read"
      /\ UNCHANGED <<profileVars, spare, mode, late>>
      /\ profile[b] \in Profile /\ seen \in Balances /\ profile[b].balance \in Balances
  BY BotsAreOwners DEF OnboardingInv, ReadBalance, Money, Paper, Profile
<1>1. Money' /\ Others(b)
  BY <1>0, MoneyUntouched DEF profileVars
<1>2. /\ \/ seen >= Target /\ Goto(b, "delegate")
         \/ seen < Target /\ Goto(b, "deposit")
         \/ Throws(b)
      /\ read' = [read EXCEPT ![b] = seen]
  BY <1>0, TargetAssumption, FundsAssumption DEF ReadBalance, Balances
<1>3. /\ pc' \in [Bots -> Steps \cup {"down", "run"}] /\ \A x \in Bots \ {b} : pc'[x] = pc[x]
      /\ \/ pc'[b] = "delegate" /\ seen >= Target
         \/ pc'[b] = "deposit" /\ seen < Target
         \/ pc'[b] \in {"down", "run"}
  BY <1>0, <1>2, GoesOn, GivesUp DEF Steps
<1>4. unsure' = [unsure EXCEPT ![b] = doubt] /\ doubt \in BOOLEAN
  BY DEF ReadBalance
<1>5. Around' /\ BotsTyped' /\ OthersSit(b) /\ read'[b] = seen /\ unsure'[b] = doubt
  <2> HIDE DEF seen, doubt
  <2> QED
    BY <1>0, <1>2, <1>3, <1>4 DEF Around, BotsTyped, OthersSit, profileVars
<1>6. late'[b] > 0 => unsure'[b]
  BY <1>0, <1>5
<1>7. Booting(b)'
  <2>1. UNCHANGED <<profile, mode, late>> /\ mode[b] # "ops" /\ read'[b] = seen
        /\ profile[b].at \in {"base", "rollup"} /\ profile[b].balance >= seen
        /\ seen \in Nat /\ profile[b].balance \in Nat /\ Target \in Nat
    BY <1>0, <1>5, TargetAssumption, FundsAssumption
       DEF Booting, Brought, Registering, profileVars, Balances, Profile
  <2> QED
    BY <1>3, <1>6, <2>1 DEF Booting, Brought, Registering
<1> QED
  BY <1>0, <1>1, <1>5, <1>7, OneBot

\* A deposit that is executed brings the profile to the target.
LEMMA DepositKept ==
    ASSUME OnboardingInv, NEW b \in Bots, Deposit(b)
    PROVE  /\ OnboardingInv'
           /\ wallet'[b] < wallet[b] => profile'[b].balance <= Target \/ unsure[b]
           /\ Others(b)
<1> DEFINE amount == TopUp(read[b])
<1>0. Money /\ Around /\ BotsTyped /\ b \in Owners /\ Booting(b) /\ pc[b] = "deposit"
      /\ UNCHANGED <<keyed, ata, strays, mode, read, late>>
      /\ profile[b] \in Profile /\ wallet[b] \in Balances /\ read[b] \in Balances
      /\ "delegate" \in Steps \cup {"down", "run"}
  BY BotsAreOwners DEF OnboardingInv, Deposit, Money, Paper, BotsTyped, Steps
<1>1. PICK out \in Sendings(b) :
         /\ Comes(out, MayDeposit(b, amount))
         /\ IF out.done THEN PayIn(b, amount) ELSE UNCHANGED <<profile, wallet>>
         /\ After(b, out, "delegate")
         /\ unsure' = [unsure EXCEPT ![b] = @ \/ ~Returned(out)]
  BY DEF Deposit
<1>2. spare' \in 0..Disturbances /\ out.done \in BOOLEAN
      /\ (out.done => MayDeposit(b, amount)) /\ (Answered(out) => out.done)
  BY <1>0, <1>1, WhatComes DEF Around
<1>3. /\ pc' \in [Bots -> Steps \cup {"down", "run"}] /\ \A x \in Bots \ {b} : pc'[x] = pc[x]
      /\ \/ Answered(out) /\ pc'[b] = "delegate"
         \/ ~Answered(out) /\ pc'[b] \in {"deposit", "down", "run"}
  BY <1>0, <1>1, AfterCall
<1>4. amount = Target - read[b] /\ amount \in Int /\ read[b] \in Nat /\ Target \in Nat
      /\ profile[b].balance \in Nat /\ profile[b].copy \in Nat /\ wallet[b] \in Nat
  BY <1>0, TargetAssumption, FundsAssumption DEF TopUp, Profile, Balances
<1>5. ASSUME out.done
      PROVE  /\ Money' /\ Others(b) /\ amount > 0
             /\ profile[b].at = "base" /\ profile[b].copy = profile[b].balance
             /\ profile'[b].at = "base" /\ wallet'[b] = wallet[b] - amount
             /\ profile'[b].balance = profile[b].balance + amount
             /\ profile'[b].copy = profile[b].copy + amount
  <2>1. amount > 0 /\ IsAt(b, "base") /\ wallet[b] >= amount /\ PayIn(b, amount)
        /\ profile[b].copy = profile[b].balance
    BY <1>0, <1>1, <1>2, <1>5 DEF MayDeposit, Money, Pocket
  <2> HIDE DEF amount
  <2> QED
    BY <1>0, <1>4, <2>1, PaysIn DEF IsAt
<1>6. ASSUME ~out.done
      PROVE  Money' /\ Others(b) /\ UNCHANGED <<profile, wallet>>
  BY <1>0, <1>1, <1>6, MoneyUntouched
<1>7. Money' /\ Others(b)
  BY <1>2, <1>5, <1>6
<1>8. unsure'[b] = (unsure[b] \/ ~Returned(out)) /\ unsure' \in [Bots -> BOOLEAN]
      /\ \A x \in Bots \ {b} : unsure'[x] = unsure[x]
  <2> DEFINE u == unsure[b] \/ ~Returned(out)
  <2>1. unsure' = [unsure EXCEPT ![b] = u] /\ u \in BOOLEAN
    BY <1>1
  <2> HIDE DEF u
  <2>2. unsure'[b] = u /\ unsure' \in [Bots -> BOOLEAN]
        /\ \A x \in Bots \ {b} : unsure'[x] = unsure[x]
    BY <1>0, <2>1 DEF BotsTyped
  <2> QED
    BY <2>2 DEF u
<1>9. Around' /\ BotsTyped' /\ OthersSit(b)
  BY <1>0, <1>2, <1>3, <1>8 DEF Around, BotsTyped, OthersSit
<1>10. Booting(b)'
  <2>1. pc'[b] = "deposit" /\ out.done => unsure'[b]
    <3> SUFFICES ASSUME pc'[b] = "deposit", out.done PROVE unsure'[b]
      OBVIOUS
    <3>1. ~Returned(out)
      BY <1>0, <1>1, <1>3 DEF After, Throws, Goto, BotsTyped, Steps
    <3> QED
      BY <1>8, <3>1
  <2>2. /\ late'[b] > 0 => unsure'[b]
        /\ unsure[b] => unsure'[b]
    BY <1>0, <1>8 DEF Booting
  <2>3. /\ mode[b] # "ops" /\ read[b] < Target /\ profile[b].copy >= read[b]
        /\ profile[b].at \in {"base", "rollup"} /\ profile[b].balance >= profile[b].copy
        /\ unsure[b] \/ profile[b].copy = read[b]
    BY <1>0 DEF Booting, Brought, Registering
  <2>4. mode'[b] # "ops" /\ read'[b] = read[b]
    BY <1>0, <2>3
  <2>5. CASE out.done
    <3>1. /\ profile'[b].at = "base" /\ profile'[b].balance >= profile'[b].copy
          /\ profile'[b].copy >= read[b] /\ profile'[b].balance >= Target
      BY <1>4, <1>5, <2>3, <2>5
    <3> QED
      BY <1>3, <2>1, <2>2, <2>3, <2>4, <2>5, <3>1 DEF Booting, Brought, Registering
  <2>6. CASE ~out.done
    BY <1>2, <1>3, <1>6, <2>2, <2>3, <2>4, <2>6 DEF Booting, Brought, Registering
  <2> QED
    BY <1>2, <2>5, <2>6
<1>11. wallet'[b] < wallet[b] => profile'[b].balance <= Target \/ unsure[b]
  <2>1. CASE ~out.done
    BY <1>4, <1>6, <2>1
  <2>2. CASE out.done
    <3>1. unsure[b] \/ profile[b].copy = read[b]
      BY <1>0 DEF Booting
    <3>2. profile[b].copy = read[b] => profile'[b].balance = Target
      BY <1>4, <1>5, <2>2
    <3>3. profile[b].copy = read[b] => profile'[b].balance <= Target
      BY <1>4, <3>2
    <3> QED
      BY <3>1, <3>3
  <2> QED
    BY <1>2, <2>1, <2>2
<1> QED
  BY <1>0, <1>7, <1>9, <1>10, <1>11, OneBot

LEMMA EnsureDelegatedKept ==
    ASSUME OnboardingInv, NEW b \in Bots, EnsureDelegated(b)
    PROVE  OnboardingInv'
<1>0. Money /\ Around /\ BotsTyped /\ b \in Owners /\ Booting(b) /\ pc[b] = "delegate"
      /\ UNCHANGED <<keyed, wallet, ata, strays, mode, read, late, unsure>>
      /\ "waitRollup" \in Steps \cup {"down", "run"}
  BY BotsAreOwners DEF OnboardingInv, EnsureDelegated, Steps
<1>1. PICK out \in SentOnce :
         /\ Comes(out, MayDelegate(b))
         /\ profile' = IF out.done THEN MovedTo(b, "rollup") ELSE profile
         /\ After(b, out, "waitRollup")
  BY DEF EnsureDelegated
<1>2. spare' \in 0..Disturbances /\ out.done \in BOOLEAN /\ (out.done => IsAt(b, "base"))
  BY <1>0, <1>1, WhatComes DEF Around, MayDelegate
<1>3. /\ Money' /\ Others(b)
      /\ profile'[b].at \in {profile[b].at, "rollup"}
      /\ profile'[b].balance = profile[b].balance /\ profile'[b].copy = profile[b].copy
  BY <1>0, <1>1, <1>2, Travels, MoneyUntouched
<1>4. /\ pc' \in [Bots -> Steps \cup {"down", "run"}] /\ \A x \in Bots \ {b} : pc'[x] = pc[x]
      /\ pc'[b] \in {"delegate", "down", "run", "waitRollup"}
  BY <1>0, <1>1, AfterCall
<1>5. Around' /\ BotsTyped' /\ OthersSit(b)
  BY <1>0, <1>2, <1>4 DEF Around, BotsTyped, OthersSit
<1>6. Booting(b)'
  BY <1>0, <1>3, <1>4 DEF Booting, Brought, Registering, IsAt
<1> QED
  BY <1>0, <1>3, <1>5, <1>6, OneBot

LEMMA MaybeRaiseKept ==
    ASSUME OnboardingInv, NEW b \in Bots, MaybeRaiseOpenPositionsCap(b)
    PROVE  OnboardingInv'
<1>0. Money /\ Around /\ BotsTyped /\ b \in Owners /\ Booting(b) /\ pc[b] = "raise"
      /\ UNCHANGED <<keyed, wallet, ata, strays, mode, read, late, unsure>>
      /\ "run" \in Steps \cup {"down", "run"}
  BY BotsAreOwners DEF OnboardingInv, MaybeRaiseOpenPositionsCap, Steps
<1>1. /\ Money' /\ Others(b) /\ spare' \in 0..Disturbances
      /\ profile'[b].at = profile[b].at
      /\ profile'[b].balance = profile[b].balance /\ profile'[b].copy = profile[b].copy
      /\ Goto(b, "run") \/ UNCHANGED pc
  <2>1. CASE profile[b].capacity = "full"
    BY <1>0, <2>1, MoneyUntouched DEF MaybeRaiseOpenPositionsCap, Around
  <2>2. CASE profile[b].capacity # "full"
    <3>1. PICK out \in Outcomes :
             /\ Comes(out, IsAt(b, "rollup"))
             /\ profile' = IF out.done THEN [profile EXCEPT ![b].capacity = "full"] ELSE profile
             /\ IF Returned(out) THEN Goto(b, "run") ELSE UNCHANGED pc
      BY <2>2 DEF MaybeRaiseOpenPositionsCap
    <3>2. spare' \in 0..Disturbances
      BY <1>0, <3>1, WhatComes DEF Around
    <3> QED
      BY <1>0, <3>1, <3>2, CapRaised, MoneyUntouched
  <2> QED
    BY <2>1, <2>2
<1>2. /\ pc' \in [Bots -> Steps \cup {"down", "run"}] /\ \A x \in Bots \ {b} : pc'[x] = pc[x]
      /\ pc'[b] \in {"raise", "run"}
  BY <1>0, <1>1, GoesOn DEF BotsTyped
<1>3. Around' /\ BotsTyped' /\ OthersSit(b)
  BY <1>0, <1>1, <1>2 DEF Around, BotsTyped, OthersSit
<1>4. Booting(b)'
  BY <1>0, <1>1, <1>2 DEF Booting, Brought, Registering, IsAt
<1> QED
  BY <1>0, <1>1, <1>3, <1>4, OneBot

\* A running role plays; nothing it relied on at its start is asked any more.
LEMMA PlayKept ==
    ASSUME OnboardingInv, NEW b \in Bots, Bets(b) \/ Sells(b)
    PROVE  OnboardingInv'
<1>0. Money /\ Around /\ BotsTyped /\ b \in Owners /\ Booting(b) /\ pc[b] = "run"
      /\ UNCHANGED <<keyed, wallet, ata, strays, spare, botVars>> /\ IsAt(b, "rollup")
      /\ profile[b].balance \in Nat
  BY BotsAreOwners, FundsAssumption
     DEF OnboardingInv, Bets, Sells, Money, Paper, Profile, Balances
<1>1. \E n \in Int : /\ profile' = Won(b, n) /\ profile[b].balance + n >= 0
                     /\ n <= 0 \/ profile[b].balance + n <= MaxPlay
  <2>1. CASE Bets(b)
    <3> WITNESS -1 \in Int
    <3> QED
      BY <1>0, <2>1 DEF Bets
  <2>2. CASE Sells(b)
    <3>1. PICK n \in 1..(MaxPlay - profile[b].balance) : profile' = Won(b, n)
      BY <2>2 DEF Sells
    <3> WITNESS n \in Int
    <3> QED
      BY <1>0, <3>1, FundsAssumption
  <2> QED
    BY <2>1, <2>2
<1>2. Money' /\ Others(b)
  BY <1>0, <1>1, Plays
<1>3. Around' /\ BotsTyped' /\ OthersSit(b)
  BY <1>0 DEF Around, BotsTyped, OthersSit, botVars
<1>4. Booting(b)'
  BY <1>0 DEF Booting, Brought, Registering, botVars
<1> QED
  BY <1>0, <1>2, <1>3, <1>4, OneBot DEF botVars

LEMMA CrashKept ==
    ASSUME OnboardingInv, NEW b \in Bots, Crash(b)
    PROVE  OnboardingInv'
<1>0. Money /\ Around /\ BotsTyped /\ b \in Owners /\ Booting(b)
      /\ UNCHANGED <<profileVars, mode, read>> /\ Goto(b, "down")
  BY BotsAreOwners DEF OnboardingInv, Crash
<1>1. Money' /\ Others(b)
  BY <1>0, MoneyUntouched DEF profileVars
<1>2. spare' \in 0..Disturbances
  BY <1>0, DisturbancesAssumption DEF Crash, Fault, Around
<1>3. pc' \in [Bots -> Steps \cup {"down", "run"}] /\ pc'[b] = "down"
      /\ \A x \in Bots \ {b} : pc'[x] = pc[x]
  BY <1>0, GoesOn
<1>4. /\ late' \in [Bots -> 0..Target] /\ unsure' \in [Bots -> BOOLEAN]
      /\ \A x \in Bots \ {b} : late'[x] = late[x] /\ unsure'[x] = unsure[x]
      /\ late'[b] > 0 => unsure'[b]
  <2>1. CASE pc[b] = "deposit"
    <3>1. read[b] < Target /\ read[b] \in Nat
      BY <1>0, <2>1, FundsAssumption DEF Booting, BotsTyped, Balances
    <3>2. TopUp(read[b]) \in 0..Target
      BY <3>1, TargetAssumption DEF TopUp
    <3>3. late' = [late EXCEPT ![b] = TopUp(read[b])] /\ unsure' = [unsure EXCEPT ![b] = TRUE]
      BY <2>1 DEF Crash
    <3> QED
      BY <1>0, <3>2, <3>3 DEF BotsTyped
  <2>2. CASE pc[b] # "deposit"
    BY <1>0, <2>2 DEF Crash, BotsTyped, Booting
  <2> QED
    BY <2>1, <2>2
<1>5. Around' /\ BotsTyped' /\ OthersSit(b)
  BY <1>0, <1>2, <1>3, <1>4 DEF Around, BotsTyped, OthersSit, profileVars
<1>6. Booting(b)'
  BY <1>3, <1>4 DEF Booting, Brought, Registering
<1> QED
  BY <1>0, <1>1, <1>5, <1>6, OneBot

\* A deposit that lands after its process died raises both the balance and what
\* the base chain shows of it, but never unknown to the next start.
LEMMA LandsLateKept ==
    ASSUME OnboardingInv, NEW b \in Bots, LandsLate(b)
    PROVE  OnboardingInv' /\ unsure[b] /\ Others(b)
<1>0. Money /\ Around /\ BotsTyped /\ b \in Owners /\ Booting(b)
      /\ UNCHANGED <<keyed, ata, strays, spare, mode, pc, read, unsure>>
      /\ late[b] > 0 /\ late' = [late EXCEPT ![b] = 0]
      /\ late[b] \in Nat /\ profile[b].balance \in Nat /\ profile[b].copy \in Nat
      /\ wallet[b] \in Nat /\ Target \in Nat
  BY BotsAreOwners, TargetAssumption, FundsAssumption
     DEF OnboardingInv, LandsLate, BotsTyped, Money, Paper, Profile, Balances
<1>1. unsure[b]
  BY <1>0 DEF Booting
<1>2. /\ Money' /\ Others(b)
      /\ profile'[b].at = profile[b].at
      /\ \E n \in Nat : /\ profile'[b].balance = profile[b].balance + n
                        /\ profile'[b].copy = profile[b].copy + n
  <2>1. CASE MayDeposit(b, late[b]) /\ PayIn(b, late[b])
    <3>1. late[b] \in Int /\ IsAt(b, "base") /\ late[b] <= wallet[b]
          /\ profile[b].balance + late[b] >= 0 /\ late[b] >= 0
      BY <1>0, <2>1 DEF MayDeposit
    <3>2. /\ Money' /\ Others(b) /\ profile'[b].at = "base"
          /\ profile'[b].balance = profile[b].balance + late[b]
          /\ profile'[b].copy = profile[b].copy + late[b]
      BY <1>0, <2>1, <3>1, PaysIn
    <3> QED
      BY <1>0, <3>1, <3>2 DEF IsAt
  <2>2. CASE UNCHANGED <<profile, wallet>>
    <3>1. Money' /\ Others(b)
      BY <1>0, <2>2, MoneyUntouched
    <3>2. 0 \in Nat /\ profile'[b].balance = profile[b].balance + 0
          /\ profile'[b].copy = profile[b].copy + 0
      BY <1>0, <2>2
    <3> QED
      BY <2>2, <3>1, <3>2
  <2> QED
    BY <2>1, <2>2 DEF LandsLate
<1>3. Around' /\ BotsTyped' /\ OthersSit(b)
  BY <1>0 DEF Around, BotsTyped, OthersSit
<1>4. Booting(b)'
  <2>1. PICK n \in Nat : /\ profile'[b].balance = profile[b].balance + n
                         /\ profile'[b].copy = profile[b].copy + n
    BY <1>2
  <2>2. unsure'[b] /\ pc'[b] = pc[b] /\ mode'[b] = mode[b] /\ read'[b] = read[b]
    BY <1>0, <1>1
  <2>3. pc[b] = "deposit" => read[b] \in Nat
    BY <1>0, FundsAssumption DEF BotsTyped, Balances
  <2> QED
    BY <1>0, <1>2, <2>1, <2>2, <2>3 DEF Booting, Brought, Registering, IsAt
<1> QED
  BY <1>0, <1>1, <1>2, <1>3, <1>4, OneBot

-----------------------------------------------------------------------------
(* What happens around a role.                                             *)

\* Nobody else takes a role's profile off the rollup or lowers its balance during
\* a start.
LEMMA FromOutside ==
    ASSUME OnboardingInv, NEW o \in Owners, UNCHANGED botVars, Around', Money', Others(o),
           o \in Bots =>
              \/ profile'[o] = profile[o]
              \/ IsAt(o, "leaving")
              \/ /\ profile'[o].at = "rollup" /\ profile'[o].copy = profile[o].copy
                 /\ profile'[o].balance >= profile[o].balance
    PROVE  OnboardingInv'
<1>1. BotsTyped'
  BY DEF OnboardingInv, BotsTyped, botVars
<1>2. ASSUME NEW b \in Bots PROVE Booting(b)'
  <2>1. Booting(b) /\ b \in Owners
    BY BotsAreOwners DEF OnboardingInv
  <2>2. CASE profile'[b] = profile[b]
    BY <2>1, <2>2 DEF Booting, IsAt, botVars
  <2>3. CASE IsAt(b, "leaving")
    <3>1. pc[b] \notin Brought
      BY <2>1, <2>3 DEF Booting, IsAt
    <3> QED
      BY <2>1, <3>1 DEF Booting, Brought, Registering, botVars
  <2>4. CASE /\ profile'[b].at = "rollup" /\ profile'[b].copy = profile[b].copy
             /\ profile'[b].balance >= profile[b].balance
    <3>1. /\ profile[b].balance \in Nat /\ profile'[b].balance \in Nat
          /\ profile[b].copy \in Nat /\ Target \in Nat
      BY <2>1, FundsAssumption, TargetAssumption
         DEF OnboardingInv, Money, Paper, Profile, Balances
    <3> QED
      BY <2>1, <2>4, <3>1 DEF Booting, Brought, Registering, IsAt, botVars
  <2> QED
    BY <2>1, <2>2, <2>3, <2>4 DEF Others
<1> QED
  BY <1>1, <1>2 DEF OnboardingInv

LEMMA SendTxKept ==
    ASSUME OnboardingInv, NEW c \in Clients, SendTx(c)
    PROVE  OnboardingInv' /\ Others(c)
<1>0. Money /\ Around /\ c \in Owners /\ c \notin Bots
      /\ UNCHANGED <<keyed, ata, strays, spare, botVars>>
      /\ profile[c].balance \in Nat /\ wallet[c] \in Nat /\ MaxPlay \in Nat
  BY BotsAreOwners, FundsAssumption DEF OnboardingInv, SendTx, Money, Paper, Profile, Balances
<1>1. Money' /\ Others(c)
  <2>1. CASE PostRegister(c)
    BY <1>0, <2>1, Created DEF PostRegister
  <2>2. CASE PostDeposit(c)
    BY <1>0, <2>2, PaysIn DEF PostDeposit, MayDeposit
  <2>3. CASE PostWithdraw(c)
    <3>1. -1 \in Int /\ IsAt(c, "base") /\ -1 <= wallet[c] /\ profile[c].balance + (-1) >= 0
          /\ PayIn(c, -1)
      BY <1>0, <2>3 DEF PostWithdraw, MayWithdraw
    <3> QED
      BY <1>0, <3>1, PaysIn
  <2>4. CASE PostPlace(c) \/ PostClose(c) \/ PostCancel(c)
    <3>1. IsAt(c, "rollup") /\ UNCHANGED wallet
      BY <2>4 DEF PostPlace, PostClose, PostCancel
    <3>2. \E n \in Int : /\ profile' = Won(c, n) /\ profile[c].balance + n >= 0
                         /\ n <= 0 \/ profile[c].balance + n <= MaxPlay
      <4>1. CASE PostPlace(c)
        <5>1. -1 \in Int /\ profile' = Won(c, -1) /\ profile[c].balance + (-1) >= 0 /\ -1 <= 0
          BY <1>0, <4>1 DEF PostPlace
        <5> QED
          BY <5>1
      <4>2. CASE PostClose(c)
        <5>1. 1 \in Int /\ profile' = Won(c, 1) /\ profile[c].balance + 1 >= 0
              /\ profile[c].balance + 1 <= MaxPlay
          BY <1>0, <4>2 DEF PostClose
        <5> QED
          BY <5>1
      <4>3. CASE PostCancel(c)
        <5>1. PICK n \in 1..(MaxPlay - profile[c].balance) : profile' = Won(c, n)
          BY <4>3 DEF PostCancel
        <5>2. n \in Int /\ profile[c].balance + n >= 0 /\ profile[c].balance + n <= MaxPlay
          BY <1>0, <5>1
        <5> QED
          BY <5>1, <5>2
      <4> QED
        BY <2>4, <4>1, <4>2, <4>3
    <3> QED
      BY <1>0, <3>1, <3>2, Plays
  <2> QED
    BY <2>1, <2>2, <2>3, <2>4 DEF SendTx
<1>2. Around'
  BY <1>0 DEF Around
<1> QED
  BY <1>0, <1>1, <1>2, FromOutside

LEMMA SettlesKept ==
    ASSUME OnboardingInv, NEW o \in Owners, Settles(o), UNCHANGED botVars
    PROVE  OnboardingInv'
<1>0. Money /\ Around /\ UNCHANGED <<keyed, wallet, ata, strays, spare>> /\ IsAt(o, "rollup")
      /\ profile[o].balance \in Nat /\ MaxPlay \in Nat /\ profile[o].balance < MaxPlay
      /\ profile' = Won(o, 1)
  BY FundsAssumption DEF OnboardingInv, Settles, Money, Paper, Profile, Balances
<1>1. 1 \in Int /\ profile[o].balance + 1 >= 0 /\ profile[o].balance + 1 <= MaxPlay
  BY <1>0
<1>2. /\ Money' /\ Others(o) /\ profile'[o].at = "rollup"
      /\ profile'[o].copy = profile[o].copy /\ profile'[o].balance = profile[o].balance + 1
  BY <1>0, <1>1, Plays
<1>3. Around' /\ profile'[o].balance >= profile[o].balance
  BY <1>0, <1>2 DEF Around
<1> QED
  BY <1>2, <1>3, FromOutside

LEMMA HandBackKept ==
    ASSUME OnboardingInv, NEW o \in Owners, HandBack(o), UNCHANGED botVars
    PROVE  OnboardingInv'
<1>1. Money' /\ Others(o) /\ IsAt(o, "leaving")
  BY HandedBack DEF OnboardingInv, HandBack
<1>2. Around'
  BY DEF OnboardingInv, Around, HandBack
<1> QED
  BY <1>1, <1>2, FromOutside

\* The scheduler's pass takes a profile to the rollup at any step of a start.
LEMMA SchedulerPassKept ==
    ASSUME OnboardingInv, SchedulerPass, UNCHANGED botVars
    PROVE  OnboardingInv'
<1>0. Money /\ Around
  BY DEF OnboardingInv
<1>1. CASE ListAgents
  <2>1. Money' /\ \A o \in Owners : Others(o)
    BY <1>0, <1>1, MoneyUntouched DEF ListAgents
  <2>2. Around' /\ UNCHANGED profile
    BY <1>0, <1>1 DEF ListAgents, Around, Stray
  <2>3. ASSUME NEW b \in Bots PROVE Booting(b)'
    BY <2>2 DEF OnboardingInv, Booting, IsAt, botVars
  <2> QED
    BY <2>1, <2>2, <2>3 DEF OnboardingInv, BotsTyped, botVars
<1>2. ASSUME NEW o \in Owners, DelegateStray(o) PROVE OnboardingInv'
  <2>1. CASE o \notin keyed
    <3>1. Money' /\ Others(o) /\ UNCHANGED profile
      BY <1>0, <1>2, <2>1, MoneyUntouched DEF DelegateStray
    <3>2. Around'
      BY <1>0, <1>2, <2>1 DEF DelegateStray, Around, PassedOver
    <3> QED
      BY <3>1, <3>2, FromOutside
  <2>2. CASE o \in keyed
    <3>1. PICK out \in SentOnce :
             /\ Comes(out, MayDelegate(o))
             /\ profile' = IF out.done THEN MovedTo(o, "rollup") ELSE profile
             /\ strays' = strays \ {o}
      BY <1>2, <2>2 DEF DelegateStray
    <3>2. UNCHANGED <<keyed, wallet, ata>>
      BY <1>2 DEF DelegateStray
    <3>3. spare' \in 0..Disturbances /\ out.done \in BOOLEAN /\ (out.done => IsAt(o, "base"))
      BY <1>0, <3>1, WhatComes DEF Around, MayDelegate
    <3>4. Around'
      BY <1>0, <3>1, <3>2, <3>3 DEF Around
    <3>5. CASE out.done
      <4>1. /\ Money' /\ Others(o) /\ profile'[o].at = "rollup"
            /\ profile'[o].copy = profile[o].copy /\ profile'[o].balance = profile[o].balance
        BY <1>0, <3>1, <3>2, <3>3, <3>5, Travels
      <4>2. profile'[o].balance >= profile[o].balance
        BY <1>0, <4>1, FundsAssumption DEF Money, Paper, Profile, Balances
      <4> QED
        BY <3>4, <4>1, <4>2, FromOutside
    <3>6. CASE ~out.done
      <4>1. Money' /\ Others(o) /\ UNCHANGED profile
        BY <1>0, <3>1, <3>2, <3>6, MoneyUntouched
      <4> QED
        BY <3>4, <4>1, FromOutside
    <3> QED
      BY <3>3, <3>5, <3>6
  <2> QED
    BY <2>1, <2>2
<1> QED
  BY <1>1, <1>2 DEF SchedulerPass

-----------------------------------------------------------------------------
(* The theorems.                                                           *)

LEMMA OnboardingInit == Init => OnboardingInv
<1> SUFFICES ASSUME Init PROVE OnboardingInv
  OBVIOUS
<1>1. Around /\ BotsTyped
  BY KeysAssumption, DisturbancesAssumption, TargetAssumption, FundsAssumption
     DEF Init, Around, BotsTyped, Balances
<1>2. /\ wallet = [o \in Owners |-> Funds] /\ Funds \in Balances /\ NoProfile \in Profile
      /\ \A p \in Found : p \in Profile /\ p.balance <= MaxPlay
                          /\ (p.at = "base" => p.copy = p.balance)
  BY FundsAssumption DEF Init, Balances, NoProfile, Profile, Places, Capacities, Found
<1>3. Paper
  BY <1>2 DEF Init, Paper
<1>4. ASSUME NEW o \in Owners PROVE Pocket(o)
  <2>1. wallet[o] = Funds /\ profile[o] \in Found \cup {NoProfile}
        /\ (o \in Clients => profile[o] = NoProfile)
    BY <1>2 DEF Init
  <2>2. profile[o].balance \in Nat /\ profile[o].balance <= MaxPlay
        /\ (profile[o].at = "base" => profile[o].copy = profile[o].balance)
    BY <1>2, <2>1, FundsAssumption DEF NoProfile, Profile, Balances
  <2> QED
    BY <2>1, <2>2, FundsAssumption DEF Pocket, IsAt, NoProfile
<1>5. ASSUME NEW b \in Bots PROVE Booting(b)
  BY TargetAssumption DEF Init, Booting, Brought, Registering
<1> QED
  BY <1>1, <1>3, <1>4, <1>5 DEF OnboardingInv, Money

LEMMA BotStepKept ==
    ASSUME OnboardingInv, NEW b \in Bots, BotStep(b)
    PROVE  OnboardingInv'
  BY EnsureAgentKept, RegisterAgentKept, CheckDelegatedKept, CommitAndUndelegateKept,
     WaitForBaseKept, CreateTokenAccountKept, ReadBalanceKept, DepositKept,
     EnsureDelegatedKept, WaitForRollupKept, MaybeRaiseKept DEF BotStep

LEMMA OnboardingNext == OnboardingInv /\ [Next]_vars => OnboardingInv'
<1> SUFFICES ASSUME OnboardingInv, [Next]_vars PROVE OnboardingInv'
  OBVIOUS
<1>1. CASE \E b \in Bots : Start(b) \/ BotStep(b) \/ Bets(b) \/ Sells(b) \/ Crash(b) \/ LandsLate(b)
  BY <1>1, StartKept, BotStepKept, PlayKept, CrashKept, LandsLateKept
<1>2. CASE \E c \in Clients : SendTx(c)
  BY <1>2, SendTxKept
<1>3. CASE \E o \in Owners : (Settles(o) \/ HandBack(o)) /\ UNCHANGED botVars
  BY <1>3, SettlesKept, HandBackKept
<1>4. CASE SchedulerPass /\ UNCHANGED botVars
  BY <1>4, SchedulerPassKept
<1>5. CASE UNCHANGED vars
  BY <1>5 DEF OnboardingInv, Around, Money, Paper, Pocket, BotsTyped, Booting, IsAt, vars,
     profileVars, botVars
<1> QED
  BY <1>1, <1>2, <1>3, <1>4, <1>5 DEF Next

LEMMA OnboardingHolds == Spec => []OnboardingInv
  BY OnboardingInit, OnboardingNext, PTL DEF Spec

\* No step leaves the types; in particular no wallet and no balance falls below
\* zero or grows out of what was there to begin with.
THEOREM OnboardingTypes == Spec => []TypeOK
<1>1. OnboardingInv => TypeOK
  BY DEF OnboardingInv, Around, Money, Paper, BotsTyped, TypeOK, ProfilesTypeOK
<1> QED
  BY <1>1, OnboardingHolds, PTL

\* Of all steps only a deposit, by the process or late, takes tokens from a role's
\* wallet.
LEMMA OnlyDepositsPay ==
    ASSUME OnboardingInv, [Next]_vars, NEW b \in Bots, wallet'[b] < wallet[b]
    PROVE  Deposit(b) \/ LandsLate(b)
<1>0. Money /\ Around /\ b \in Owners /\ wallet[b] \in Nat
  BY BotsAreOwners, FundsAssumption DEF OnboardingInv, Money, Paper, Balances
<1>1. ~ UNCHANGED wallet
  BY <1>0
<1>2. CASE \E x \in Bots : Start(x) \/ BotStep(x) \/ Bets(x) \/ Sells(x) \/ Crash(x) \/ LandsLate(x)
  <2>1. PICK x \in Bots : Deposit(x) \/ LandsLate(x)
    BY <1>1, <1>2 DEF Start, BotStep, EnsureAgent, RegisterAgent, CheckDelegated,
       CommitAndUndelegate,
       WaitForOwner, CreateTokenAccount, ReadBalance, EnsureDelegated,
       MaybeRaiseOpenPositionsCap, Bets, Sells, Crash, profileVars
  <2>2. Others(x)
    BY <2>1, DepositKept, LandsLateKept
  <2>3. x = b
    BY <1>0, <2>2 DEF Others
  <2> QED
    BY <2>1, <2>3
<1>3. CASE \E c \in Clients : SendTx(c)
  <2>1. PICK c \in Clients : Others(c)
    BY <1>3, SendTxKept
  <2> QED
    BY <1>0, <2>1, BotsAreOwners DEF Others
<1> QED
  BY <1>1, <1>2, <1>3 DEF Next, Settles, HandBack, SchedulerPass, ListAgents, DelegateStray, vars,
     profileVars

\* A role's deposit lifts the balance to the target at most, whatever earlier runs
\* of its process paid in and whatever the scheduler does in between, unless the
\* process does not know what became of an earlier one.
THEOREM NoRoleIsOverfunded == Spec => NeverOverfunded
<1>1. ASSUME OnboardingInv, [Next]_vars, NEW b \in Bots, wallet'[b] < wallet[b]
      PROVE  profile'[b].balance <= Target \/ unsure[b]
  BY <1>1, OnlyDepositsPay, DepositKept, LandsLateKept
<1>2. OnboardingInv /\ [Next]_vars =>
         [\A b \in Bots : wallet'[b] < wallet[b] => profile'[b].balance <= Target \/ unsure[b]]_vars
  BY <1>1
<1> QED
  BY <1>2, OnboardingHolds, PTL DEF Spec, NeverOverfunded

\* A trading role starts to trade with its profile on the rollup and the target
\* balance behind it, however old the copy it started from.
THEOREM RolesStartReady == Spec => ReadyToTrade
<1>1. ASSUME OnboardingInv, [Next]_vars, NEW b \in Bots,
             pc[b] # "run", pc'[b] = "run", mode[b] # "ops"
      PROVE  IsAt(b, "rollup") /\ profile[b].balance >= Target
  <2>0. BotsTyped /\ Booting(b)
    BY <1>1 DEF OnboardingInv
  <2>1. pc' # pc
    BY <1>1
  <2>2. CASE \E x \in Bots : Start(x) \/ BotStep(x) \/ Bets(x) \/ Sells(x) \/ Crash(x) \/ LandsLate(x)
    <3>1. PICK x \in Bots : Start(x) \/ BotStep(x) \/ Crash(x)
      BY <2>1, <2>2 DEF Bets, Sells, LandsLate, botVars
    <3>2. \A y \in Bots \ {x} : pc'[y] = pc[y]
      BY <2>0, <3>1 DEF Start, BotStep, EnsureAgent, RegisterAgent, CheckDelegated,
       CommitAndUndelegate,
         WaitForOwner, CreateTokenAccount, ReadBalance, Deposit, EnsureDelegated,
         MaybeRaiseOpenPositionsCap, Crash, Goto, After, Throws, BotsTyped
    <3>3. x = b
      BY <1>1, <3>2
    <3>4. pc[b] = "raise"
      BY <1>1, <2>0, <3>1, <3>3
         DEF Start, BotStep, EnsureAgent, RegisterAgent, CheckDelegated,
       CommitAndUndelegate,
         WaitForOwner, CreateTokenAccount, ReadBalance, Deposit, EnsureDelegated,
         MaybeRaiseOpenPositionsCap, Crash, Goto, After, Throws, Fresh, BotsTyped
    <3> QED
      BY <2>0, <3>4 DEF Booting
  <2>3. CASE ~ \E x \in Bots :
                Start(x) \/ BotStep(x) \/ Bets(x) \/ Sells(x) \/ Crash(x) \/ LandsLate(x)
    BY <1>1, <2>1, <2>3 DEF Next, SendTx, vars, botVars
  <2> QED
    BY <2>2, <2>3
<1>2. OnboardingInv /\ [Next]_vars =>
         [\A b \in Bots : pc[b] # "run" /\ pc'[b] = "run" /\ mode[b] # "ops" =>
             IsAt(b, "rollup") /\ profile[b].balance >= Target]_vars
  BY <1>1
<1> QED
  BY <1>2, OnboardingHolds, PTL DEF Spec, ReadyToTrade

=============================================================================
