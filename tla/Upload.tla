------------------------------- MODULE Upload -------------------------------
(***************************************************************************)
(* What the agent's uploads promise, without connections, attempts or      *)
(* server steps: a batch of measurements is submitted, copies of it reach  *)
(* the Metric table, and the agent calls it delivered or failed.           *)
(*                                                                         *)
(*   - delivered means that at least one copy is in the table;             *)
(*   - failed means nothing: the batch may be in the table, and a copy may *)
(*     still arrive after the verdict, whichever it was;                   *)
(*   - what arrives is what was submitted: nothing else enters the table.  *)
(***************************************************************************)
EXTENDS Naturals

CONSTANT Batches    \* identities of batches; one is used again when settled

VARIABLES
    log,            \* what the agent knows of each batch
    stored          \* copies of each batch in the Metric table

vars == <<log, stored>>

Verdict == {"delivered", "failed"}

TypeOK ==
    /\ log \in [Batches -> {"unused", "pending"} \union Verdict]
    /\ stored \in [Batches -> Nat]

Init ==
    /\ log = [b \in Batches |-> "unused"]
    /\ stored = [b \in Batches |-> 0]

Submit(b) ==
    /\ log[b] # "pending"
    /\ log' = [log EXCEPT ![b] = "pending"]
    /\ stored' = [stored EXCEPT ![b] = 0]

Arrive(b) ==
    /\ log[b] # "unused"
    /\ stored' = [stored EXCEPT ![b] = @ + 1]
    /\ UNCHANGED log

Deliver(b) ==
    /\ log[b] = "pending"
    /\ stored[b] > 0
    /\ log' = [log EXCEPT ![b] = "delivered"]
    /\ UNCHANGED stored

Fail(b) ==
    /\ log[b] = "pending"
    /\ log' = [log EXCEPT ![b] = "failed"]
    /\ UNCHANGED stored

Next == \E b \in Batches : Submit(b) \/ Arrive(b) \/ Deliver(b) \/ Fail(b)

Spec == Init /\ [][Next]_vars
=============================================================================
