--------------------------- MODULE IncidentPanel ---------------------------
(***************************************************************************)
(* The panel beside the list of incidents: the details of the one selected *)
(* are asked for every ten seconds and kept by incident, a button moves it *)
(* on from the status they show, and a comment is typed and sent.  Nothing *)
(* is off while an update is awaited, and the update is made whatever the  *)
(* incident's status is by then.  An answer asks anew for the details of   *)
(* the incident selected when it arrives (or when the next one was sent),  *)
(* and empties the comment's field.                                        *)
(***************************************************************************)
EXTENDS Naturals

CONSTANTS Incidents, Texts, MaxSent     \* MaxSent: bound, updates or comments awaited

None == "none"     \* no incident, details not there yet, an empty field
Statuses == {"open", "acknowledged", "in_progress", "resolved"}
Rank(s) == CASE s = "open" -> 0 [] s \in {"acknowledged", "in_progress"} -> 1
             [] s = "resolved" -> 2

VARIABLES
    status,     \* of each incident, in the database
    selected,
    detail,     \* the status shown of each incident, once it was read
    reading,    \* and the one an answer under way has read
    updates,    \* PATCHes awaited, and whether they are done
    comment,
    posts,      \* comments awaited
    disturbed,  \* history: of each incident, whether somebody else changed it,
                \* or two updates overlapped, since the panel last saw it still
    unsaved,    \* history: the text typed last, until it is saved
    late        \* history: it was typed as a comment was awaited

vars == <<status, selected, detail, reading, updates, comment, posts, disturbed,
          unsaved, late>>

PanelTypeOK ==
    /\ status \in [Incidents -> Statuses]
    /\ selected \in Incidents \union {None}
    /\ {detail, reading} \subseteq [Incidents -> Statuses \union {None}]
    /\ updates \subseteq [n : 1 .. MaxSent, asks : Incidents \union {None},
                           id : Incidents, to : Statuses, done : BOOLEAN]
    /\ {comment, unsaved} \subseteq Texts \union {None}
    /\ posts \subseteq [n : 1 .. MaxSent, asks : Incidents \union {None}, text : Texts]
    /\ disturbed \in [Incidents -> BOOLEAN] /\ late \in BOOLEAN

Init ==
    /\ status \in [Incidents -> Statuses] /\ selected = None
    /\ detail = [i \in Incidents |-> None] /\ reading = detail
    /\ updates = {} /\ comment = None /\ posts = {}
    /\ disturbed = [i \in Incidents |-> FALSE]
    /\ unsaved = None /\ late = FALSE

\* A row of the list, or the panel's cross: the comment stays in its field.
Select(i) ==
    /\ selected' = i
    /\ UNCHANGED <<status, detail, reading, updates, comment, posts, disturbed, unsaved, late>>

\* The details of the incident selected; while they are asked for, they are
\* not asked for again.
Read(i) ==
    /\ selected = i /\ reading[i] = None
    /\ reading' = [reading EXCEPT ![i] = status[i]]
    /\ UNCHANGED <<status, selected, detail, updates, comment, posts, disturbed, unsaved, late>>

Pending(i) == {u \in updates : u.id = i /\ ~u.done}

Shown(i) ==
    /\ reading[i] # None
    /\ detail' = [detail EXCEPT ![i] = reading[i]]
    /\ reading' = [reading EXCEPT ![i] = None]
    /\ disturbed' = [disturbed EXCEPT
                        ![i] = @ /\ (reading[i] # status[i] \/ Pending(i) # {})]
    /\ UNCHANGED <<status, selected, updates, comment, posts, unsaved, late>>

\* Another user, of another panel.
ChangedElsewhere(i, s) ==
    /\ status' = [status EXCEPT ![i] = s]
    /\ disturbed' = [disturbed EXCEPT ![i] = TRUE]
    /\ UNCHANGED <<selected, detail, reading, updates, comment, posts, unsaved, late>>

-----------------------------------------------------------------------------
Free(sent) == {n \in 1 .. MaxSent : \A m \in sent : m.n # n}

\* A request follows what is selected until the next one of its kind is sent.
Settled(sent) == {[m EXCEPT !.asks = IF @ = None THEN selected ELSE @] : m \in sent}
AskedOf(m) == IF m.asks = None THEN selected ELSE m.asks

\* Invalidated details are asked for anew, and an answer under way is dropped,
\* unless it is the first.
AskAnew(i) ==
    reading' = [j \in Incidents |-> IF j = i /\ detail[j] # None THEN None ELSE reading[j]]

\* Details that stay until those of the incident selected are there.
DetailOfBefore(i) ==
    IF detail[i] # None THEN detail[i]
    ELSE IF \E j \in Incidents : detail[j] # None
         THEN detail[CHOOSE j \in Incidents : detail[j] # None] ELSE None
DetailOf(i) == detail[i]

\* Each status has a button for the next: PATCH of the incident selected.
MoveOn(from, to) ==
    /\ selected # None /\ DetailOf(selected) \in from
    /\ \E n \in Free(updates) :
          updates' = Settled(updates) \union
              {[n |-> n, asks |-> None, id |-> selected, to |-> to, done |-> FALSE]}
    /\ disturbed' = [disturbed EXCEPT ![selected] = @ \/ Pending(selected) # {}]
    /\ UNCHANGED <<status, selected, detail, reading, comment, posts, unsaved, late>>
Acknowledge == MoveOn({"open"}, "acknowledged")
Resolve == MoveOn({"acknowledged", "in_progress"}, "resolved")

\* The service looks whether the incident is there, not how it stands.
Applied(u) ==
    /\ ~u.done
    /\ status' = [status EXCEPT ![u.id] = u.to]
    /\ updates' = (updates \ {u}) \union {[u EXCEPT !.done = TRUE]}
    /\ UNCHANGED <<selected, detail, reading, comment, posts, disturbed, unsaved, late>>

Updated(u) ==
    /\ u.done /\ updates' = updates \ {u}
    /\ AskAnew(AskedOf(u))
    /\ UNCHANGED <<status, selected, detail, comment, posts, disturbed, unsaved, late>>

\* Refused, or lost on the way there or back: nothing is shown of it.
UpdateFailed(u) ==
    /\ updates' = updates \ {u}
    /\ UNCHANGED <<status, selected, detail, reading, comment, posts, disturbed, unsaved, late>>

-----------------------------------------------------------------------------
TypeComment(text) ==
    /\ selected # None
    /\ comment' = text /\ unsaved' = text /\ late' = (posts # {})
    /\ UNCHANGED <<status, selected, detail, reading, updates, posts, disturbed>>

\* A field that is emptied as its text is sent.
EmptiedAsSent == None
AsSent == comment
\* The button is off while a comment is awaited; Enter is not.
SendComment ==
    /\ selected # None /\ comment # None
    /\ \E n \in Free(posts) :
          posts' = Settled(posts) \union {[n |-> n, asks |-> None, text |-> comment]}
    /\ comment' = AsSent
    /\ UNCHANGED <<status, selected, detail, reading, updates, disturbed, unsaved, late>>

Commented(p) ==
    /\ posts' = posts \ {p}
    /\ comment' = None
    /\ unsaved' = IF unsaved = p.text THEN None ELSE unsaved
    /\ AskAnew(AskedOf(p))
    /\ UNCHANGED <<status, selected, detail, updates, disturbed, late>>

CommentFailed(p) ==
    /\ posts' = posts \ {p}
    /\ UNCHANGED <<status, selected, detail, reading, updates, comment, disturbed, unsaved, late>>

Next ==
    \/ \E i \in Incidents \union {None} : Select(i)
    \/ \E i \in Incidents : Read(i) \/ Shown(i) \/ \E s \in Statuses : ChangedElsewhere(i, s)
    \/ Acknowledge \/ Resolve
    \/ \E u \in updates : Applied(u) \/ Updated(u) \/ UpdateFailed(u)
    \/ \E text \in Texts \union {None} : TypeComment(text)
    \/ SendComment
    \/ \E p \in posts : Commented(p) \/ CommentFailed(p)

Spec == Init /\ [][Next]_vars

-----------------------------------------------------------------------------
\* An update never takes its incident back to an earlier status, unless
\* somebody else changed it or another update overlapped since the panel last
\* saw it: however many incidents are selected in turn, and however old the
\* details kept of each.
MovesOn ==
    \A u \in updates : Rank(status[u.id]) <= Rank(u.to) \/ u.done \/ disturbed[u.id]

\* A comment stays in its field until it is saved, unless it was typed while
\* another was awaited: that one's answer empties the field.
CommentKept == unsaved = None \/ comment = unsaved \/ late
=============================================================================
