----------------------------- MODULE AssetForm -----------------------------
(***************************************************************************)
(* The form of the assets page: one form, opened empty for a new asset or  *)
(* filled from a row of the list, with one save and one connectivity check *)
(* in flight.  Neither answer says which opening of the form it is for: a  *)
(* save's success closes whatever form is open by then, and a check's      *)
(* answer is shown, and its host name filled in, wherever it finds itself. *)
(*                                                                         *)
(* A row is the address and host name it is listed with; "" is an empty    *)
(* field.  The rest of the form behaves like the host name without checks. *)
(***************************************************************************)
CONSTANTS Rows, Typed, HostNames     \* listed rows, texts typed, names answered

Fields == {"ip", "host"}
FieldTexts == {""} \union Typed \union HostNames \union {r[f] : r \in Rows, f \in Fields}
Empty == [ip |-> "", host |-> ""]
NoRow == [ip |-> "none", host |-> "none"]
NoCheck == [of |-> NoRow, here |-> FALSE, sameIp |-> FALSE]

VARIABLES
    tab, editing, form, saving,
    check,      \* the check in flight: the form it was asked with, and whether
                \* that form is still open (here) with that address (sameIp)
    connResult, \* the answer shown, likewise
    touched,    \* history: fields changed since the form was opened
    crossed     \* history: an earlier form's check wrote into this one

vars == <<tab, editing, form, saving, check, connResult, touched, crossed>>

isFormMode == tab \in {"create", "edit"}

FormTypeOK ==
    /\ tab \in {"list", "create", "edit", "import"}
    /\ editing \in Rows \union {NoRow}
    /\ \A f \in Fields : form[f] \in FieldTexts
    /\ saving \in {"no", "create", "update"}
    /\ check.of \in [Fields -> FieldTexts] \union {NoRow}
    /\ connResult.of \in [Fields -> FieldTexts] \union {NoRow}
    /\ touched \subseteq Fields
    /\ crossed \in BOOLEAN

Init ==
    /\ tab = "list" /\ editing = NoRow /\ form = Empty /\ saving = "no"
    /\ check = NoCheck /\ connResult = NoCheck
    /\ touched = {} /\ crossed = FALSE

\* Whatever is in flight was asked by a form that is open no more.
Elsewhere(answer) == [answer EXCEPT !.here = FALSE, !.sameIp = FALSE]

Opened(values) ==
    /\ form' = values
    /\ touched' = {} /\ crossed' = FALSE
    /\ check' = Elsewhere(check) /\ connResult' = NoCheck

\* A button for a new asset that forgets the row edited before.
EditingStays == editing

\* The header's button, there in every tab.
EditingWhenCreating == NoRow
openCreate ==
    /\ Opened(Empty)
    /\ editing' = EditingWhenCreating
    /\ tab' = "create"
    /\ UNCHANGED saving

openEdit(row) ==
    /\ tab = "list"
    /\ Opened(row)
    /\ editing' = row
    /\ tab' = "edit"
    /\ UNCHANGED saving

Cancel ==
    /\ isFormMode
    /\ tab' = "list" /\ editing' = NoRow
    /\ connResult' = NoCheck /\ check' = Elsewhere(check)
    /\ UNCHANGED <<form, saving, touched, crossed>>

\* Leaving for the import, and coming back: the row being edited stays set.
OpenImport ==
    /\ tab' = "import"
    /\ check' = Elsewhere(check) /\ connResult' = Elsewhere(connResult)
    /\ UNCHANGED <<editing, form, saving, touched, crossed>>
CloseImport ==
    /\ tab = "import" /\ tab' = "list"
    /\ UNCHANGED <<editing, form, saving, check, connResult, touched, crossed>>

\* An address that is changed under its answer.
StaysByIp(shown) == shown
ClearedByIp(shown) == NoCheck
TypeIp(text) ==
    /\ isFormMode
    /\ form' = [form EXCEPT !.ip = text]
    /\ touched' = touched \union {"ip"}
    /\ check' = [check EXCEPT !.sameIp = FALSE]
    /\ connResult' = ClearedByIp(connResult)
    /\ UNCHANGED <<tab, editing, saving, crossed>>

TypeHost(text) ==
    /\ isFormMode
    /\ form' = [form EXCEPT !.host = text]
    /\ touched' = touched \union {"host"}
    /\ UNCHANGED <<tab, editing, saving, check, connResult, crossed>>

-----------------------------------------------------------------------------
\* "Ping at" is off while a check is in flight and while both fields are empty.
checkConnectivity ==
    /\ isFormMode /\ check = NoCheck
    /\ form # Empty
    /\ check' = [of |-> form, here |-> TRUE, sameIp |-> TRUE]
    /\ connResult' = NoCheck
    /\ UNCHANGED <<tab, editing, form, saving, touched, crossed>>

\* The name is filled in when the form had none as the check was asked.
Named(name) ==
    /\ form' = [form EXCEPT !.host = name]
    /\ touched' = IF check.here THEN touched \union {"host"} ELSE touched
    /\ crossed' = (crossed \/ ~check.here)

\* The backend pings, tries eight ports and looks the name up, all at once.
\* None of the three fails: what does not answer in time counts as no answer.
Connectivity(ping, port, name) == [reachable |-> ping \/ port, hostname |-> name]

CheckAnswered(result) ==
    LET names == result.reachable /\ result.hostname # "" /\ check.of.host = "" IN
    /\ check # NoCheck
    /\ connResult' = check /\ check' = NoCheck
    /\ IF names THEN Named(result.hostname) ELSE UNCHANGED <<form, touched, crossed>>
    /\ UNCHANGED <<tab, editing, saving>>

CheckFailed ==
    /\ check # NoCheck /\ check' = NoCheck
    /\ UNCHANGED <<tab, editing, form, saving, connResult, touched, crossed>>

\* The button is off while a save is in flight.
handleSubmit ==
    /\ isFormMode /\ saving = "no"
    /\ saving' = IF editing = NoRow THEN "create" ELSE "update"
    /\ UNCHANGED <<tab, editing, form, check, connResult, touched, crossed>>

Saved ==
    /\ saving # "no" /\ saving' = "no"
    /\ Opened(Empty)
    /\ tab' = "list"
    /\ editing' = IF saving = "update" THEN NoRow ELSE editing

SaveFailed ==
    /\ saving # "no" /\ saving' = "no"
    /\ UNCHANGED <<tab, editing, form, check, connResult, touched, crossed>>

Next ==
    \/ openCreate \/ Cancel \/ OpenImport \/ CloseImport
    \/ \E row \in Rows : openEdit(row)
    \/ \E text \in Typed \union {""} : TypeIp(text) \/ TypeHost(text)
    \/ checkConnectivity \/ CheckFailed
    \/ \E ping, port \in BOOLEAN, name \in HostNames \union {""} :
          CheckAnswered(Connectivity(ping, port, name))
    \/ handleSubmit \/ Saved \/ SaveFailed

Spec == Init /\ [][Next]_vars

-----------------------------------------------------------------------------
\* What the form would save: a field the user left alone is as in the row the
\* form says it edits (empty for a new asset), whatever forms, saves and checks
\* came before - but for a host name an earlier form's check wrote into it.
OwnRow ==
    isFormMode =>
        /\ (editing = NoRow) = (tab = "create")
        /\ LET base == IF editing = NoRow THEN Empty ELSE editing
           IN \A f \in Fields \ touched :
                 form[f] = base[f] \/ (f = "host" /\ crossed)

\* An answer shown is about the address shown, unless that address was changed
\* or another form opened while it was awaited.  (Nothing keeps the host name
\* it was asked by from changing under it.)
ResultFits ==
    (isFormMode /\ connResult.sameIp) => connResult.of.ip = form.ip
=============================================================================
