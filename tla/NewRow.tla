------------------------------- MODULE NewRow -------------------------------
(***************************************************************************)
(* The forms that add a row to a list: incidents, alert rules, maintenance *)
(* windows, members, channels and API keys.  They are written alike: the   *)
(* form opens and closes without being emptied, Create is off while a row  *)
(* is awaited, its answer closes whatever form is open then, and what went *)
(* wrong is only a toast.  The form of members is emptied when one was     *)
(* invited; a key is shown once, from the answer that brings it; a channel *)
(* whose config does not parse is not sent.                                *)
(***************************************************************************)
EXTENDS Naturals

CONSTANTS Texts, Unparsable, \* what is typed, and what of it is no config
          MaxMade, MaxOpenings           \* bounds

Empty == ""         \* the form as it is at first: what Create needs is not there
None == [row |-> 0, opening |-> 0, text |-> Empty]          \* no row awaited

\* The forms: on a tab of its page, emptied when the row was made, parsed before
\* it is sent, and whose answer is shown.
IncidentForm == [tabbed |-> FALSE, emptied |-> FALSE, parsed |-> FALSE, shown |-> FALSE]
WindowForm == IncidentForm
RuleForm == [tabbed |-> TRUE, emptied |-> FALSE, parsed |-> FALSE, shown |-> FALSE]
InviteForm == [tabbed |-> FALSE, emptied |-> TRUE, parsed |-> FALSE, shown |-> FALSE]
ChannelForm == [tabbed |-> TRUE, emptied |-> FALSE, parsed |-> TRUE, shown |-> FALSE]
KeyForm == [tabbed |-> TRUE, emptied |-> FALSE, parsed |-> FALSE, shown |-> TRUE]
Forms == {IncidentForm, WindowForm, RuleForm, InviteForm, ChannelForm, KeyForm}

VARIABLES
    list,       \* the form, by how it is written
    away,       \* another tab of its page is open
    showForm,
    draft,      \* the form
    creating,   \* the POST awaited: its text, and its row once it was made
    newKey,     \* the key shown
    rows,       \* made by this page, and how each one's answer ended
    opening,    \* history: the form was opened so often
    unsaved,    \* history: what was typed last, until it is saved
    late        \* history: it was typed as a row was awaited

vars == <<list, away, showForm, draft, creating, newKey, rows, opening, unsaved, late>>

Row(id, o, ended) == [id |-> id, opening |-> o, ended |-> ended]

NewRowTypeOK ==
    /\ list \in Forms /\ {away, showForm, late} \subseteq BOOLEAN
    /\ {draft, unsaved, creating.text} \subseteq Texts \union {Empty}
    /\ {creating.row, newKey} \subseteq 0 .. MaxMade
    /\ {creating.opening, opening} \subseteq 0 .. MaxOpenings
    /\ rows \subseteq {Row(id, o, e) : id \in 1 .. MaxMade, o \in 1 .. MaxOpenings,
                                       e \in {"awaited", "told", "lost"}}

Init ==
    /\ list \in Forms /\ away = FALSE /\ showForm = FALSE
    /\ draft = Empty /\ creating = None /\ newKey = 0 /\ rows = {}
    /\ opening = 0 /\ unsaved = Empty /\ late = FALSE

OtherTab ==
    /\ list.tabbed /\ away' = ~away
    /\ UNCHANGED <<list, showForm, draft, creating, newKey, rows, opening, unsaved, late>>

Open ==
    /\ ~away
    /\ showForm' = TRUE
    /\ opening' = IF showForm THEN opening ELSE opening + 1
    /\ opening' <= MaxOpenings
    /\ UNCHANGED <<list, away, draft, creating, newKey, rows, unsaved, late>>

\* The cross, or Cancel.
Close ==
    /\ showForm /\ ~away /\ showForm' = FALSE
    /\ UNCHANGED <<list, away, draft, creating, newKey, rows, opening, unsaved, late>>

Type(text) ==
    /\ showForm /\ ~away
    /\ draft' = text /\ unsaved' = text /\ late' = (creating # None)
    /\ UNCHANGED <<list, away, showForm, creating, newKey, rows, opening>>

-----------------------------------------------------------------------------
\* A button that is on while a row is awaited.
PressableAgain == draft # Empty
Pressable == draft # Empty /\ creating = None
\* A form that is emptied as it is sent.
EmptiedAsSent == Empty
Sent == draft

Create ==
    /\ showForm /\ ~away /\ Pressable
    /\ list.parsed => draft \notin Unparsable
    /\ creating' = [row |-> 0, opening |-> opening, text |-> draft]
    /\ draft' = Sent
    /\ UNCHANGED <<list, away, showForm, newKey, rows, opening, unsaved, late>>

\* The handlers of the six POSTs make a row of what they are sent.
Made ==
    /\ creating # None /\ creating.row = 0
    /\ \E id \in 1 .. MaxMade :
         /\ \A r \in rows : r.id < id
         /\ rows' = rows \union {Row(id, creating.opening, "awaited")}
         /\ creating' = [creating EXCEPT !.row = id]
    /\ UNCHANGED <<list, away, showForm, draft, newKey, opening, unsaved, late>>

\* How the answer awaited ended.
Ended(how) ==
    {IF r.id = creating.row THEN [r EXCEPT !.ended = how] ELSE r : r \in rows}

Created ==
    /\ creating # None /\ creating.row # 0
    /\ showForm' = FALSE
    /\ draft' = IF list.emptied THEN Empty ELSE draft
    /\ newKey' = IF list.shown THEN creating.row ELSE newKey
    /\ rows' = Ended("told")
    /\ unsaved' = IF unsaved = creating.text THEN Empty ELSE unsaved
    /\ creating' = None
    /\ UNCHANGED <<list, away, opening, late>>

\* Refused, or lost on the way there or back, when the row may be made.
CreateFailed ==
    /\ creating # None
    /\ rows' = Ended("lost") /\ creating' = None
    /\ UNCHANGED <<list, away, showForm, draft, newKey, opening, unsaved, late>>

DismissKey ==
    /\ list.shown /\ ~away /\ newKey # 0 /\ newKey' = 0
    /\ UNCHANGED <<list, away, showForm, draft, creating, rows, opening, unsaved, late>>

Next ==
    \/ OtherTab \/ Open \/ Close \/ Create \/ Made \/ Created \/ CreateFailed \/ DismissKey
    \/ \E text \in Texts \union {Empty} : Type(text)

Spec == Init /\ [][Next]_vars

-----------------------------------------------------------------------------
\* However often Create is pressed, and the form closed and opened again while
\* a row is awaited, one opening of it makes one row, but for those whose
\* answer never came.
OneRowPerOpening ==
    \A r, s \in rows : r.opening = s.opening /\ r.id # s.id => "lost" \in {r.ended, s.ended}

\* What was typed stays in the form until it is saved: after a failure, a tab
\* that was left, or a form that was closed; but the answer to a row awaited
\* may empty what was typed meanwhile.
DraftKept == unsaved = Empty \/ draft = unsaved \/ late
=============================================================================
