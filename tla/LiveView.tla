------------------------------ MODULE LiveView ------------------------------
(***************************************************************************)
(* What a page shows of the server: every page keeps the answers to its    *)
(* queries, asks some of them again at an interval, and after an operation *)
(* of its own, once it is told that it was done, asks again those the      *)
(* operation names.  The server emits no socket event (use-socket.ts would *)
(* invalidate on nine of them); that the client asks again when the user   *)
(* comes back to the window is left out.                                   *)
(*                                                                         *)
(* A page is the intervals of its queries in seconds (0: never), and for   *)
(* each operation the queries it names.  One query of one page is followed *)
(* with one operation; the data behind it is a version number.             *)
(***************************************************************************)
EXTENDS Naturals

CONSTANTS MaxVersion, MaxFailures     \* changes of the data, failed requests

ASSUME LiveAssumption == MaxVersion \in Nat /\ MaxFailures \in Nat \ {0}

MonitorsPage == [
    every |-> [monitors |-> 15, assets |-> 0],
    names |-> [create |-> {"monitors"}, update |-> {"monitors"}, delete |-> {"monitors"},
               checkNow |-> {}]]
AssetsPage == [
    every |-> [assets |-> 30],
    names |-> [create |-> {"assets"}, update |-> {"assets"}, delete |-> {"assets"},
               import |-> {"assets"}]]
IncidentsPage == [
    every |-> [incidents |-> 30, stats |-> 30, detail |-> 10, assets |-> 0],
    names |-> [create |-> {"incidents", "stats"}, update |-> {"incidents", "detail"},
               comment |-> {"detail"}]]
MaintenancePage == [
    every |-> [maintenance |-> 30, active |-> 60, monitors |-> 0],
    names |-> [create |-> {"maintenance"}, delete |-> {"maintenance"}]]
AlertsPage == [
    every |-> [events |-> 15, rules |-> 30, summary |-> 15],
    names |-> [resolve |-> {"events", "summary"}, toggle |-> {"rules"},
               delete |-> {"rules"}, create |-> {"rules"}]]
TeamPage == [
    every |-> [users |-> 60],
    names |-> [invite |-> {"users"}, updateRole |-> {"users"}, delete |-> {"users"}]]
\* A page that does not ask for the keys again after deleting one.
SettingsPageForgets == [
    every |-> [org |-> 0, channels |-> 0, keys |-> 0],
    names |-> [updateOrg |-> {"org"}, createCh |-> {"channels"}, deleteCh |-> {"channels"},
               createKey |-> {"keys"}, deleteKey |-> {}]]
SettingsPage == [
    every |-> [org |-> 0, channels |-> 0, keys |-> 0],
    names |-> [updateOrg |-> {"org"}, createCh |-> {"channels"}, deleteCh |-> {"channels"},
               createKey |-> {"keys"}, deleteKey |-> {"keys"}]]
EventsPage == [
    every |-> [stats |-> 30, events |-> 30, files |-> 60, history |-> 30, assets |-> 0],
    names |-> [none |-> {}]]
DashboardPage == [
    every |-> [org |-> 30, alerts |-> 15, incidentStats |-> 30, monitors |-> 15,
               alertEvents |-> 15, incidents |-> 30, assets |-> 60, top |-> 30],
    names |-> [none |-> {}]]
AssetPage == [
    every |-> [asset |-> 30, latest |-> 15, history |-> 30, logs |-> 15],
    names |-> [none |-> {}]]

AuditPage == [every |-> [logs |-> 30], names |-> [none |-> {}]]

Pages == {MonitorsPage, AssetsPage, IncidentsPage, MaintenancePage, AlertsPage,
          TeamPage, SettingsPage, EventsPage, DashboardPage, AssetPage, AuditPage}

\* The data the services change for an operation of a page, by the query that
\* reads it.
Changes(page, op) ==
    CASE page = IncidentsPage /\ op = "create" -> {"incidents", "stats"}
      [] page = IncidentsPage /\ op = "update" -> {"incidents", "stats", "detail"}
      [] page = IncidentsPage /\ op = "comment" -> {"incidents", "detail"}
      [] page = MaintenancePage -> {"maintenance", "active"}
      [] page = AlertsPage /\ op = "resolve" -> {"events", "summary"}
      [] page = AlertsPage /\ op # "resolve" -> {"rules"}
      [] page = SettingsPage /\ op = "updateOrg" -> {"org"}
      [] page = SettingsPage /\ op \in {"createCh", "deleteCh"} -> {"channels"}
      [] page = SettingsPage /\ op \in {"createKey", "deleteKey"} -> {"keys"}
      [] page = MonitorsPage -> {"monitors"}
      [] page = AssetsPage -> {"assets"}
      [] page = TeamPage -> {"users"}
      [] OTHER -> {}

-----------------------------------------------------------------------------
VARIABLES
    page, query, op,    \* what is followed
    server,             \* the version of the data
    data,               \* the version shown
    fetch,              \* the request for it: its state, what it read, tries
    mut,                \* the operation: idle, sent, done
    own,                \* history: the version when an operation's answer came
    failures

vars == <<page, query, op, server, data, fetch, mut, own, failures>>

NoFetch == [state |-> "idle", read |-> 0, tries |-> 0]
Started == [state |-> "sent", read |-> 0, tries |-> 0]

LiveTypeOK ==
    /\ page \in Pages /\ query \in DOMAIN page.every /\ op \in DOMAIN page.names
    /\ {server, data, own, fetch.read} \subseteq 0 .. MaxVersion + 1
    /\ fetch.state \in {"idle", "sent", "read"}
    /\ fetch.tries \in 0 .. 1
    /\ mut \in {"idle", "sent", "done"}
    /\ failures \in 0 .. MaxFailures

Init ==
    /\ page \in Pages
    /\ query \in DOMAIN page.every /\ op \in DOMAIN page.names
    /\ server = 0 /\ data = 0 /\ own = 0
    /\ fetch = NoFetch /\ mut = "idle" /\ failures = 0

Other == UNCHANGED <<page, query, op>>

\* Someone else, the checker or an agent changes the data.
Change ==
    /\ server < MaxVersion /\ server' = server + 1
    /\ Other /\ UNCHANGED <<data, fetch, mut, own, failures>>

\* The interval ends: a request under way is not sent again.
Polled == page.every[query] > 0
Poll ==
    /\ Polled /\ fetch.state = "idle"
    /\ fetch' = Started
    /\ Other /\ UNCHANGED <<server, data, mut, own, failures>>

ServerReads ==
    /\ fetch.state = "sent"
    /\ fetch' = [fetch EXCEPT !.state = "read", !.read = server]
    /\ Other /\ UNCHANGED <<server, data, mut, own, failures>>

Shown ==
    /\ fetch.state = "read"
    /\ data' = fetch.read /\ fetch' = NoFetch
    /\ Other /\ UNCHANGED <<server, mut, own, failures>>

\* A failed request is tried once more, and then given up; the last data stays.
\* A query nobody polls is assumed to fail once at most.
\* Without the client's retry option: the library's own three.
RetriesByDefault == 3
Retries == 1
FetchFails ==
    /\ fetch.state # "idle"
    /\ failures < (IF Polled THEN MaxFailures ELSE Retries)
    /\ failures' = failures + 1
    /\ fetch' = IF fetch.tries < Retries
                THEN [Started EXCEPT !.tries = fetch.tries + 1] ELSE NoFetch
    /\ Other /\ UNCHANGED <<server, data, mut, own>>

Mutate ==
    /\ mut = "idle" /\ mut' = "sent" /\ server < MaxVersion
    /\ Other /\ UNCHANGED <<server, data, fetch, own, failures>>

Applied ==
    /\ mut = "sent" /\ mut' = "done"
    /\ server' = IF query \in Changes(page, op) THEN server + 1 ELSE server
    /\ Other /\ UNCHANGED <<data, fetch, own, failures>>

\* onSuccess: the queries named are asked anew, whatever answer was under way
\* for them is dropped.
Superseding == Started
Answered ==
    /\ mut = "done" /\ mut' = "idle"
    /\ fetch' = IF query \in page.names[op] THEN Superseding ELSE fetch
    /\ own' = IF query \in Changes(page, op) THEN server ELSE own
    /\ Other /\ UNCHANGED <<server, data, failures>>

\* The operation is refused, or lost on the way there or back, done or not: no
\* page asks anything anew then.  (What the server does after the client has
\* given up is a Change.)
NotAnswered ==
    /\ mut # "idle" /\ mut' = "idle"
    /\ Other /\ UNCHANGED <<server, data, fetch, own, failures>>

Next ==
    \/ Change \/ Poll \/ ServerReads \/ Shown \/ FetchFails
    \/ Mutate \/ Applied \/ Answered \/ NotAnswered

\* Intervals end, and the requests of queries are handled and answered.
Fairness == WF_vars(Poll) /\ WF_vars(ServerReads) /\ WF_vars(Shown)
Spec == Init /\ [][Next]_vars /\ Fairness

-----------------------------------------------------------------------------
(***************************************************************************)
(* What the page itself changed, and was told that it did, is shown in the *)
(* end, by its operation's invalidation or by the next poll; what anybody  *)
(* changed, the page's own operations without an answer among it, is shown *)
(* in the end where the query is polled.  (Where it is not, as on the      *)
(* settings page, a change whose answer is lost stays unseen.)             *)
(***************************************************************************)
ListsCatchUp ==
    <>[](data >= own /\ (Polled => data = server))
=============================================================================
