-------------------------------- MODULE Calls --------------------------------
(* A transaction sent from outside the chain, and what its sender learns.   *)
EXTENDS Naturals

CONSTANT Disturbances       \* bound: how often something goes wrong in a behaviour
ASSUME DisturbancesAssumption == Disturbances \in Nat

VARIABLE spare              \* disturbances left

Fault == spare > 0 /\ spare' = spare - 1

\* What becomes of a transaction: it is executed or not, and sendRefreshedTx
\* returns its signature, throws, or takes it for expired and sends it again.
Outcomes ==
    {o \in [done : BOOLEAN, answer : {"signature", "error", "expired"}] :
        o.answer = "signature" => o.done}

\* sendAndConfirmTransaction alone sends once.
SentOnce == {o \in Outcomes : o.answer # "expired"}

Ordinary(o, allowed) ==
    IF allowed THEN o.answer = "signature" ELSE o.answer = "error"

\* One of the outcomes a transaction can have; all but the ordinary are faults.
Comes(o, allowed) ==
    /\ o \in Outcomes
    /\ o.done => allowed
    /\ IF Ordinary(o, allowed) THEN UNCHANGED spare ELSE Fault

Answered(o) == o.answer = "signature"
Returned(o) == o.answer # "expired"
=============================================================================
