------------------------------- MODULE Gather -------------------------------
(***************************************************************************)
(* What one collection of measurements promises, without goroutines or     *)
(* channels: every worker asked gives one verdict, and the collection ends *)
(* only when all have, holding the points of each that succeeded once and  *)
(* nothing of those that failed.                                           *)
(***************************************************************************)
EXTENDS Naturals

CONSTANT Workers

VARIABLES
    open,       \* a collection is under way
    verdict,    \* of each worker: not asked, open, good or bad
    parcel      \* how often the points of each worker are in the result

vars == <<open, verdict, parcel>>

TypeOK ==
    /\ open \in BOOLEAN
    /\ verdict \in [Workers -> {"none", "open", "good", "bad"}]
    /\ parcel \in [Workers -> Nat]

Init ==
    /\ open = FALSE
    /\ verdict = [w \in Workers |-> "none"]
    /\ parcel = [w \in Workers |-> 0]

Begin(asked) ==
    /\ ~open
    /\ open' = TRUE
    /\ verdict' = [w \in Workers |-> IF w \in asked THEN "open" ELSE "none"]
    /\ parcel' = [w \in Workers |-> 0]

Settle(w, v) ==
    /\ verdict[w] = "open"
    /\ verdict' = [verdict EXCEPT ![w] = v]
    /\ UNCHANGED <<open, parcel>>

Take(w) ==
    /\ open
    /\ verdict[w] = "good"
    /\ parcel[w] = 0
    /\ parcel' = [parcel EXCEPT ![w] = 1]
    /\ UNCHANGED <<open, verdict>>

End ==
    /\ open
    /\ \A w \in Workers : verdict[w] # "open"
    /\ \A w \in Workers : parcel[w] = IF verdict[w] = "good" THEN 1 ELSE 0
    /\ open' = FALSE
    /\ UNCHANGED <<verdict, parcel>>

Next ==
    \/ \E asked \in SUBSET Workers : Begin(asked)
    \/ \E w \in Workers : Take(w) \/ \E v \in {"good", "bad"} : Settle(w, v)
    \/ End

Spec == Init /\ [][Next]_vars
=============================================================================
