---------------------------- MODULE MonitorForm ----------------------------
(***************************************************************************)
(* The form of the monitors page.  A target and a config mean something    *)
(* for one type of monitor only, so choosing another type empties both; an *)
(* agent monitor has no target field and is saved with its asset for one.  *)
(* A save's success closes and empties whatever form is open by then.      *)
(*                                                                         *)
(* A target or config is the type it was entered for, "" when empty.       *)
(***************************************************************************)
CONSTANTS Types, Assets, Rows     \* "agent" \in Types; Rows: the listed monitors

Empty == [type |-> "https", target |-> "", assetId |-> "", config |-> ""]
NoRow == [type |-> "none", target |-> "", assetId |-> "", config |-> ""]

VARIABLES
    tab, editing, form,
    saving,     \* "no", or what was sent
    touched     \* history: fields changed since the form was opened

vars == <<tab, editing, form, saving, touched>>

Idle == [id |-> NoRow, data |-> NoRow]

MonitorFormTypeOK ==
    /\ tab \in {"list", "form"}
    /\ editing \in Rows \union {NoRow}
    /\ form.type \in Types
    /\ form.target \in Types \union Assets \union {""}
    /\ form.assetId \in Assets \union {""}
    /\ form.config \in Types \union {""}
    /\ touched \subseteq DOMAIN Empty

Init ==
    /\ tab = "list" /\ editing = NoRow /\ form = Empty
    /\ saving = Idle /\ touched = {}

openCreate ==
    /\ form' = Empty /\ editing' = NoRow /\ tab' = "form" /\ touched' = {}
    /\ UNCHANGED saving

openEdit(row) ==
    /\ tab = "list"
    /\ form' = row /\ editing' = row /\ tab' = "form" /\ touched' = {}
    /\ UNCHANGED saving

Cancel ==
    /\ tab = "form"
    /\ tab' = "list" /\ editing' = NoRow
    /\ UNCHANGED <<form, saving, touched>>

\* An input of the form.
Enter(fields, values) ==
    /\ tab = "form"
    /\ form' = values
    /\ touched' = touched \union fields
    /\ UNCHANGED <<tab, editing, saving>>

\* A change of type that keeps what was entered for the other.
RetypedOnly(type) == [form EXCEPT !.type = type]
Retyped(type) == [form EXCEPT !.type = type, !.config = "", !.target = ""]
ChooseType(type) == Enter({"type", "config", "target"}, Retyped(type))
TypeTarget ==
    /\ form.type # "agent"
    /\ Enter({"target"}, [form EXCEPT !.target = form.type])
ChooseAsset(asset) == Enter({"assetId"}, [form EXCEPT !.assetId = asset])
\* Every input of ConfigFields sets one key of the type's config.
ConfigFields == Enter({"config"}, [form EXCEPT !.config = form.type])

-----------------------------------------------------------------------------
Complete == IF form.type = "agent" THEN form.assetId # "" ELSE form.target # ""

Payload ==
    IF form.type = "agent" THEN [form EXCEPT !.target = form.assetId] ELSE form

handleSubmit ==
    /\ tab = "form" /\ saving = Idle
    /\ Complete
    /\ saving' = [id |-> editing, data |-> Payload]
    /\ UNCHANGED <<tab, editing, form, touched>>

Saved ==
    /\ saving # Idle /\ saving' = Idle
    /\ tab' = "list" /\ form' = Empty /\ editing' = NoRow /\ touched' = {}

SaveFailed ==
    /\ saving # Idle /\ saving' = Idle
    /\ UNCHANGED <<tab, editing, form, touched>>

Next ==
    \/ openCreate \/ Cancel
    \/ \E row \in Rows : openEdit(row)
    \/ \E type \in Types : ChooseType(type)
    \/ TypeTarget \/ ConfigFields
    \/ \E asset \in Assets \union {""} : ChooseAsset(asset)
    \/ handleSubmit \/ Saved \/ SaveFailed

Spec == Init /\ [][Next]_vars

-----------------------------------------------------------------------------
\* The form holds the row it says it edits, but for what the user changed in it.
OwnMonitor ==
    LET base == IF editing = NoRow THEN Empty ELSE editing
    IN tab = "form" => \A f \in DOMAIN Empty \ touched : form[f] = base[f]

\* What is sent to the checker has the target and the config of its own type:
\* an agent's target is its asset, and no other type is aimed at an asset.
SentFits ==
    saving # Idle =>
        LET sent == saving.data
        IN /\ sent.config \in {"", sent.type}
           /\ sent.target = IF sent.type = "agent" THEN sent.assetId ELSE sent.type
=============================================================================
