------------------------------ MODULE Reports -------------------------------
(***************************************************************************)
(* The reports that count: EventsService.stats and findAll, a day of the   *)
(* status page, IncidentsService.getStats and OrganizationsService.getStats. *)
(* Each asks several counts at once (Promise.all) over a table that the    *)
(* checker and the users go on writing; every count is one statement, and  *)
(* they run in any order.                                                  *)
(*                                                                         *)
(* A row is the class the counts tell apart: for check results their       *)
(* status (unknown stands for timeout and error too), for incidents status *)
(* and severity, for monitors isActive and lastStatus, for assets isActive *)
(* and whether they were seen in the last minutes.                         *)
(***************************************************************************)
EXTENDS Naturals, FiniteSets

CONSTANTS
    Rows,           \* bound: rows of the table a report counts
    MaxChanges      \* bound: changes while a report is made

VARIABLES
    report,         \* the report being made, with its table; or none
    table,          \* the class of each row, or Absent
    counted,        \* the counts that have been answered
    changes         \* changes of the table since the report was asked for

vars == <<report, table, counted, changes>>

Absent == <<"absent">>
Result == {<<"up">>, <<"down">>, <<"degraded">>, <<"unknown">>}
Incident == {"open", "acknowledged", "in_progress", "resolved", "closed"}
              \X {"critical", "minor"}
Monitor == {"active", "paused"} \X {"up", "down", "other"}
Asset == {"active", "removed"} \X {"seen", "away"}

-----------------------------------------------------------------------------
(***************************************************************************)
(* The counts of each report, as the rows they are of.                     *)
(***************************************************************************)
EventStats == [total |-> Result, down |-> {<<"down">>},
               degraded |-> {<<"degraded">>}]

EventPage(wanted) == [page |-> wanted, total |-> wanted]

UptimeDay == [total |-> Result, up |-> {<<"up">>}]

\* Variant: an incident that is closed counts as critical still.
IncidentStatsLax ==
    [open         |-> {c \in Incident : c[1] = "open"},
     acknowledged |-> {c \in Incident : c[1] = "acknowledged"},
     inProgress   |-> {c \in Incident : c[1] = "in_progress"},
     critical     |-> {c \in Incident : c[2] = "critical" /\ c[1] # "resolved"}]

IncidentStats ==
    [open         |-> {c \in Incident : c[1] = "open"},
     acknowledged |-> {c \in Incident : c[1] = "acknowledged"},
     inProgress   |-> {c \in Incident : c[1] = "in_progress"},
     critical     |-> {c \in Incident : c[2] = "critical"
                                        /\ c[1] \notin {"resolved", "closed"}}]

OrgMonitors == [activeMonitors |-> {c \in Monitor : c[1] = "active"},
                monitorsUp     |-> {<<"active", "up">>},
                monitorsDown   |-> {<<"active", "down">>}]

OrgAssets == [totalAssets  |-> {c \in Asset : c[1] = "active"},
              onlineAssets |-> {<<"active", "seen">>}]

Reports == [stats |-> EventStats, page |-> EventPage(Result),
            day |-> UptimeDay, incidents |-> IncidentStats,
            monitors |-> OrgMonitors, assets |-> OrgAssets]

Table == [stats |-> Result, page |-> Result, day |-> Result,
          incidents |-> Incident, monitors |-> Monitor, assets |-> Asset]

-----------------------------------------------------------------------------
Fields == DOMAIN Reports[report]

ReportsTypeOK ==
    \/ report = "none"
    \/ /\ report \in DOMAIN Reports
       /\ table \in [Rows -> Table[report] \union {Absent}]
       /\ DOMAIN counted \subseteq Fields
       /\ \A f \in DOMAIN counted : counted[f] \in 0 .. Cardinality(Rows)
       /\ changes \in 0 .. MaxChanges

Init ==
    /\ report = "none"
    /\ table = [i \in Rows |-> Absent]
    /\ counted = [f \in {} |-> 0]
    /\ changes = 0

Ask(kind, rows) ==
    /\ report = "none"
    /\ report' = kind
    /\ table' = rows
    /\ UNCHANGED <<counted, changes>>

Count(f) ==
    /\ report # "none"
    /\ f \in Fields \ DOMAIN counted
    /\ counted' = [g \in DOMAIN counted \union {f} |->
                     IF g = f
                     THEN Cardinality({i \in Rows : table[i] \in Reports[report][f]})
                     ELSE counted[g]]
    /\ UNCHANGED <<report, table, changes>>

\* How rows come: an incident is open, a monitor not checked, an asset away.
New == CASE report = "incidents" -> {"open"} \X {"critical", "minor"}
         [] report = "monitors"  -> {<<"active", "other">>}
         [] report = "assets"    -> {<<"active", "away">>}
         [] OTHER                -> Result

\* Results do not change, but go with their monitor; other rows are edited.
Edited == CASE report \in {"incidents", "assets"} -> Table[report]
            [] report = "monitors" -> Monitor \union {Absent}
            [] OTHER -> {Absent}

Changes(from) == IF from = Absent THEN New ELSE Edited

Change(i) ==
    /\ report # "none"
    /\ changes < MaxChanges
    /\ \E to \in Changes(table[i]) \ {table[i]} :
          table' = [table EXCEPT ![i] = to]
    /\ changes' = changes + 1
    /\ UNCHANGED <<report, counted>>

Answered == report # "none" /\ DOMAIN counted = Fields

Reply ==
    /\ Answered
    /\ report' = "none"
    /\ table' = [i \in Rows |-> Absent]
    /\ counted' = [f \in {} |-> 0]
    /\ changes' = 0

Next ==
    \/ \E kind \in DOMAIN Reports :
          \E rows \in [Rows -> Table[kind] \union {Absent}] : Ask(kind, rows)
    \/ report # "none" /\ \E f \in Fields : Count(f)
    \/ \E i \in Rows : Change(i)
    \/ Reply

Spec == Init /\ [][Next]_vars

-----------------------------------------------------------------------------
Within(part, whole) == part <= whole + changes

(***************************************************************************)
(* A report agrees with itself: what is down, up, critical or online is    *)
(* not more than the whole it is a part of, so no percentage is above 100  *)
(* or below 0.  Between two of its counts the table may change, and each   *)
(* change sets it wrong by one at most.                                    *)
(***************************************************************************)
Coherent ==
    Answered =>
      /\ report = "stats" =>
           Within(counted["down"] + counted["degraded"], counted["total"])
      /\ report = "page" => Within(counted["page"], counted["total"])
      /\ report = "day" => Within(counted["up"], counted["total"])
      /\ report = "incidents" =>
           Within(counted["critical"],
                  counted["open"] + counted["acknowledged"] + counted["inProgress"])
      /\ report = "monitors" =>
           Within(counted["monitorsUp"] + counted["monitorsDown"], counted["activeMonitors"])
      /\ report = "assets" => Within(counted["onlineAssets"], counted["totalAssets"])
=============================================================================
