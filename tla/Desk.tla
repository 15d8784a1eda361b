-------------------------------- MODULE Desk --------------------------------
(***************************************************************************)
(* Dashboards, alert rules and incidents: rows of an organization and the  *)
(* handlers that change them.  Every statement is a step of its own: most  *)
(* handlers find the row first (404 if it is not there) and then write it  *)
(* by its id, and creating a default dashboard clears the old default and  *)
(* then inserts.  Requests run beside each other; a statement may fail,    *)
(* and what was written before it stays.                                   *)
(*                                                                         *)
(* A row is its state and its resolvedAt; names, conditions, layouts and   *)
(* comments are left out.                                                  *)
(***************************************************************************)
EXTENDS Naturals, FiniteSets

CONSTANTS Boards, Rules, Incidents, Requests

Ids == Boards \union Rules \union Incidents

VARIABLES
    row,        \* the rows: state, and resolvedAt as fresh (24 h) or old
    req,        \* the requests being handled
    clash,      \* history: two defaults may have been made side by side
    want,       \* history: what the toggles and edits of a rule add up to
    raced,      \* history: rules written between a toggle's read and write
    solved      \* history: when an incident was last resolved

vars == <<row, req, clash, want, raced, solved>>

Stamp == {"none", "fresh", "old"}
BoardState == {"plain", "default"}
RuleState == {"on", "off"}
IncidentState == {"open", "acknowledged", "in_progress", "resolved", "closed"}
StateOf(i) == IF i \in Boards THEN BoardState
              ELSE IF i \in Rules THEN RuleState ELSE IncidentState

Row(state) == [state |-> state, resolvedAt |-> "none"]
Gone == Row("gone")
Idle == [op |-> "none", id |-> "none", arg |-> "none", saw |-> "none"]

DeskTypeOK ==
    /\ \A i \in Ids : /\ row[i].state \in StateOf(i) \union {"gone"}
                      /\ row[i].resolvedAt \in Stamp
    /\ \A r \in Requests :
          \/ req[r] = Idle
          \/ /\ req[r].op \in {"create", "update", "toggle", "remove"}
             /\ req[r].id \in Ids
             /\ req[r].arg \in StateOf(req[r].id) \union {"none"}
             /\ req[r].saw \in StateOf(req[r].id) \union {"none"}
    /\ clash \in BOOLEAN
    /\ raced \subseteq Rules

Init ==
    /\ row = [i \in Ids |-> Gone]
    /\ req = [r \in Requests |-> Idle]
    /\ clash = FALSE
    /\ want = [i \in Rules |-> "gone"]
    /\ raced = {}
    /\ solved = [i \in Incidents |-> "none"]

-----------------------------------------------------------------------------
Reply(r) == req' = [req EXCEPT ![r] = Idle]

\* Ids are random: a new row has one that nothing refers to.
Unused(i) == row[i] = Gone /\ \A r \in Requests : req[r].id # i

Creating == {r \in Requests : req[r].op = "create"}

\* Variant: the old default stays.
ClearedNot == row

\* updateMany: every default of the organization becomes a plain dashboard.
Cleared == [i \in Ids |-> IF i \in Boards /\ row[i].state = "default"
                          THEN Row("plain") ELSE row[i]]

\* The first statement of creating a default dashboard.
ClearDefault(r, i) ==
    /\ req[r] = Idle
    /\ i \in Boards /\ Unused(i)
    /\ row' = Cleared
    /\ req' = [req EXCEPT ![r] = [op |-> "create", id |-> i, arg |-> "default",
                                  saw |-> "none"]]
    /\ clash' = (Creating # {})
    /\ UNCHANGED <<want, raced, solved>>

InsertDefault(r) ==
    /\ req[r].op = "create"
    /\ row' = [row EXCEPT ![req[r].id] = Row("default")]
    /\ Reply(r)
    /\ UNCHANGED <<clash, want, raced, solved>>

\* createRule, IncidentsService.create and a dashboard that is not the
\* default are one statement; the server chooses the first state.
Initial(i) == IF i \in Boards THEN "plain" ELSE IF i \in Rules THEN "on" ELSE "open"

Create(i) ==
    /\ Unused(i)
    /\ row' = [row EXCEPT ![i] = Row(Initial(i))]
    /\ want' = IF i \in Rules THEN [want EXCEPT ![i] = "on"] ELSE want
    /\ solved' = IF i \in Incidents THEN [solved EXCEPT ![i] = "none"] ELSE solved
    /\ raced' = raced \ {i}
    /\ UNCHANGED <<req, clash>>

\* findOne of update, remove and toggle; the toggle remembers isActive.
Find(r, op, i, arg) ==
    /\ req[r] = Idle
    /\ row[i] # Gone
    /\ \/ op = "update" /\ arg \in StateOf(i)
       \/ op = "toggle" /\ i \in Rules /\ arg = "none"
       \/ op = "remove" /\ i \notin Incidents /\ arg = "none"
    /\ req' = [req EXCEPT ![r] = [op |-> op, id |-> i, arg |-> arg,
                                  saw |-> row[i].state]]
    /\ UNCHANGED <<row, clash, want, raced, solved>>

-----------------------------------------------------------------------------
Flip(state) == IF state = "on" THEN "off" ELSE "on"

\* Variant: the time of the first resolution is kept.
ResolvedAtFirst(q) ==
    IF q.arg = "resolved" /\ row[q.id].resolvedAt = "none" THEN "fresh"
    ELSE row[q.id].resolvedAt

ResolvedAt(q) ==
    IF q.arg = "resolved" THEN "fresh" ELSE row[q.id].resolvedAt

\* Variant: toggling switches on, whatever was read.
ToggledOn(q) == "on"

Toggled(q) == Flip(q.saw)

Written(q) ==
    CASE q.op = "remove" -> Gone
      [] q.op = "toggle" -> Row(Toggled(q))
      [] q.op = "update" -> [state |-> q.arg, resolvedAt |-> ResolvedAt(q)]

\* What a rule should be after this write, and the toggles it comes between.
Wanted(q) ==
    CASE q.op = "remove" -> "gone"
      [] q.op = "toggle" -> Flip(want[q.id])
      [] q.op = "update" -> q.arg

Overtaken(r) ==
    {i \in {req[r].id} \intersect Rules :
        \E s \in Requests \ {r} : req[s].id = i /\ req[s].op = "toggle"}

\* The write by id; it fails when the row is gone.
Write(r) ==
    LET q == req[r] IN
    /\ q.op \in {"update", "toggle", "remove"}
    /\ row[q.id] # Gone
    /\ row' = [row EXCEPT ![q.id] = Written(q)]
    /\ Reply(r)
    /\ clash' = (clash \/ (q.op = "update" /\ q.arg = "default"))
    /\ want' = IF q.id \in Rules THEN [want EXCEPT ![q.id] = Wanted(q)] ELSE want
    /\ raced' = raced \union Overtaken(r)
    /\ solved' = IF q.id \in Incidents /\ q.arg = "resolved"
                 THEN [solved EXCEPT ![q.id] = "fresh"] ELSE solved

\* A statement fails, or the server stops between two of them.
Fail(r) ==
    /\ req[r] # Idle
    /\ Reply(r)
    /\ UNCHANGED <<row, clash, want, raced, solved>>

\* 24 hours go by since an incident was resolved.
Day(i) ==
    /\ row[i].resolvedAt = "fresh" \/ solved[i] = "fresh"
    /\ row' = [row EXCEPT ![i].resolvedAt = IF @ = "fresh" THEN "old" ELSE @]
    /\ solved' = [solved EXCEPT ![i] = IF @ = "fresh" THEN "old" ELSE @]
    /\ UNCHANGED <<req, clash, want, raced>>

Next ==
    \/ \E r \in Requests : InsertDefault(r) \/ Write(r) \/ Fail(r)
    \/ \E r \in Requests, i \in Ids : ClearDefault(r, i)
    \/ \E i \in Ids : Create(i)
    \/ \E r \in Requests, i \in Ids, op \in {"update", "toggle", "remove"} :
          \E arg \in StateOf(i) \union {"none"} : Find(r, op, i, arg)
    \/ \E i \in Incidents : Day(i)

Spec == Init /\ [][Next]_vars

-----------------------------------------------------------------------------
(***************************************************************************)
(* An organization has one default dashboard at most: creating one clears  *)
(* the others.  The exceptions, until the next creation of a default: two  *)
(* creations side by side, and an edit that sets isDefault, which clears   *)
(* nothing.                                                                *)
(***************************************************************************)
OneDefault ==
    ~clash => Cardinality({i \in Boards : row[i].state = "default"}) <= 1

(***************************************************************************)
(* Toggles count: a rule is what its toggles and edits add up to, whatever *)
(* is interleaved with other rules, fails or is removed, as long as nobody *)
(* writes the same rule between a toggle's read and its write.             *)
(***************************************************************************)
TogglesCount == \A i \in Rules \ raced : row[i].state = want[i]

(***************************************************************************)
(* resolved24h of getStats counts by status and resolvedAt.  An incident   *)
(* opened again keeps its old resolvedAt, but once resolved again it bears *)
(* the time of the last resolution, so the count is right.                 *)
(***************************************************************************)
ResolvedCounted ==
    \A i \in Incidents :
        row[i].state = "resolved" => row[i].resolvedAt = solved[i]
=============================================================================
