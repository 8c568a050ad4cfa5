---------------------------- MODULE MCOnboarding -----------------------------
(* A role's process and a client of the API, with and without their keys in  *)
(* the scheduler's directory.                                                *)
EXTENDS Onboarding
CONSTANTS bot, client
MCOwners == {bot, client}
MCBots == {bot}
MCClients == {client}
MCKeySets == {{}, {bot}, {bot, client}}
=============================================================================
