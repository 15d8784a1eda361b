------------------------------ MODULE Seeding -------------------------------
(***************************************************************************)
(* The start of the backend's container and the demo data: the entrypoint, *)
(* prisma/seed.ts and prisma/seed-reset.ts, statement by statement, while  *)
(* users work with the application, and delete what is in it.  An operator *)
(* runs the seed, or the reset and then the seed, in the container by hand *)
(* (make db-seed, npm run db:seed:reset), also beside the entrypoint's own *)
(* seed.  Statements fail, and the container is stopped and started        *)
(* between any two.                                                        *)
(*                                                                         *)
(* A table is the set of those who wrote rows that are still there.        *)
(***************************************************************************)
EXTENDS Naturals, Sequences, FiniteSets

CONSTANTS
    MaxRestarts,    \* bound
    Emptied         \* bound: tables that rows are deleted from

\* What the seed writes, in its order; created together, or one after other.
SeedOrder == <<"organization", "user", "asset", "monitor", "checkResult", "metric",
               "channel", "rule", "event", "incident", "comment", "dashboard",
               "widget", "audit">>

\* What the reset empties.  (Tables that nothing here writes are left out.)
ResetOrder == <<"audit", "widget", "dashboard", "channel", "comment", "incident",
                "event", "rule", "metric", "checkResult", "monitor", "asset",
                "user", "organization">>

Tables == {SeedOrder[i] : i \in DOMAIN SeedOrder}
Seeders == {"entrypoint", "operator"}

\* The rows a seed refers to when it writes a table.
Needs(t) ==
    CASE t = "organization" -> {}
      [] t \in {"checkResult", "rule"} -> {"organization", "monitor"}
      [] t \in {"monitor", "metric"} -> {"organization", "asset"}
      [] t = "event" -> {"organization", "rule", "asset"}
      [] t = "incident" -> {"organization", "user", "asset"}
      [] t = "comment" -> {"incident", "user"}
      [] t \in {"dashboard", "audit"} -> {"organization", "user"}
      [] t = "widget" -> {"organization", "dashboard"}
      [] OTHER -> {"organization"}

\* Rows that go with the rows of a table, and those that hold them back.
Cascade(t) ==
    CASE t = "organization" -> Tables
      [] t = "asset" -> {"metric"}      [] t = "monitor" -> {"checkResult"}
      [] t = "rule" -> {"event"}        [] t = "incident" -> {"comment"}
      [] t = "dashboard" -> {"widget"}  [] OTHER -> {}

\* What users may delete; of metrics the database drops those of 90 days ago.
Deletable == {"comment", "channel", "dashboard", "widget", "rule", "monitor"}
Dropped == {"metric"}

HeldBack(t) == IF t = "user" THEN {"incident", "comment", "dashboard"} ELSE {}

VARIABLES
    db,             \* the tables
    boot,           \* where the entrypoint is
    script,         \* the scripts that run: job, and tables still to do
    broken,         \* history: a seed or reset ended, or may, before its end
    deleted,        \* history: tables that all demo data was deleted from
    restarts

vars == <<db, boot, script, broken, deleted, restarts>>

NoScript == [job |-> "none", left |-> <<>>, then |-> "none"]

SeedingTypeOK ==
    /\ DOMAIN db = Tables
    /\ \A t \in Tables : db[t] \subseteq Seeders \union {"users"}
    /\ boot \in {"waiting", "schema", "count", "seeding", "app"}
    /\ \A p \in Seeders : /\ script[p].job \in {"none", "look", "seed", "reset"}
                          /\ script[p].then \in {"none", "look"}
                          /\ Len(script[p].left) <= Len(SeedOrder)
    /\ broken \in BOOLEAN /\ deleted \subseteq Tables
    /\ restarts \in 0 .. MaxRestarts

Init ==
    /\ db = [t \in Tables |-> {}]
    /\ boot = "waiting"
    /\ script = [p \in Seeders |-> NoScript]
    /\ broken = FALSE /\ deleted = {}
    /\ restarts = 0

-----------------------------------------------------------------------------
\* A seed that has written its organization, and not all of the rest.
Halfway(p) ==
    /\ script[p].job = "seed" /\ script[p].left # <<>>
    /\ p \in db["organization"]

End(p) == script' = [script EXCEPT ![p] = NoScript]
Start(p, job, then) ==
    script' = [script EXCEPT ![p] = [job |-> job, then |-> then,
                 left |-> IF job = "reset" THEN ResetOrder ELSE SeedOrder]]

\* seed.ts begins by looking for its organization.
Seeded == db["organization"] \intersect Seeders # {}

Look(p) ==
    /\ script[p].job = "look"
    /\ IF Seeded THEN End(p) ELSE Start(p, "seed", "none")
    /\ UNCHANGED <<db, boot, broken, deleted, restarts>>

\* Variant: the slug of an organization is not unique.
SlugFreeAlways == TRUE

SlugFree == ~Seeded

Writable(p, t) ==
    /\ t = "organization" => SlugFree
    /\ \A n \in Needs(t) : p \in db[n]

SeedStatement(p) ==
    LET t == Head(script[p].left) IN
    /\ script[p].job = "seed" /\ script[p].left # <<>>
    /\ Writable(p, t)
    /\ db' = [db EXCEPT ![t] = @ \union {p}]
    /\ script' = [script EXCEPT ![p].left = Tail(@)]
    /\ broken' = (broken /\ t # "organization")
    /\ deleted' = IF t = "organization" THEN {} ELSE deleted
    /\ UNCHANGED <<boot, restarts>>

ResetStatement(p) ==
    LET t == Head(script[p].left) IN
    /\ script[p].job = "reset" /\ script[p].left # <<>>
    /\ db[t] = {} \/ \A h \in HeldBack(t) : db[h] = {}
    /\ db' = [u \in Tables |-> IF u \in {t} \union (IF db[t] = {} THEN {} ELSE Cascade(t))
                               THEN {} ELSE db[u]]
    /\ script' = [script EXCEPT ![p].left = Tail(@)]
    /\ broken' = TRUE
    /\ UNCHANGED <<boot, deleted, restarts>>

\* A seed ends; a reset, failed or not, is followed by the seed.
Finish(p) ==
    /\ script[p].job \in {"seed", "reset"} /\ script[p].left = <<>>
    /\ IF script[p].then = "none" THEN End(p) ELSE Start(p, script[p].then, "none")
    /\ UNCHANGED <<db, boot, broken, deleted, restarts>>

\* A statement fails: of the rows of a group none or some are written.  The
\* seed exits with 1; the reset reports the error and exits with 0.
ScriptFails(p) ==
    LET t == Head(script[p].left) IN
    /\ script[p].job # "none"
    /\ \/ db' = db
       \/ /\ script[p].job = "seed" /\ script[p].left # <<>> /\ t # "organization"
          /\ Writable(p, t)
          /\ db' = [db EXCEPT ![t] = @ \union {p}]
    /\ IF script[p].then = "none" THEN End(p) ELSE Start(p, script[p].then, "none")
    /\ broken' = (broken \/ Halfway(p))
    /\ UNCHANGED <<boot, deleted, restarts>>

-----------------------------------------------------------------------------
\* until pg_isready
Ready ==
    /\ boot = "waiting" /\ boot' = "schema"
    /\ UNCHANGED <<db, script, broken, deleted, restarts>>

\* db push and post_migrate.sql; whether they fail makes no difference.
Migrate ==
    /\ boot = "schema" /\ boot' = "count"
    /\ UNCHANGED <<db, script, broken, deleted, restarts>>

\* The seed runs if the count is 0; a failed count is empty, and not "0".
Counts(answered) ==
    /\ boot = "count"
    /\ IF answered /\ db["organization"] = {}
       THEN boot' = "seeding" /\ Start("entrypoint", "look", "none")
       ELSE boot' = "app" /\ UNCHANGED script
    /\ UNCHANGED <<db, broken, deleted, restarts>>

\* Variant: a failed seed ends the entrypoint (set -e).
GoesOnIfSeeded == Seeded

GoesOn == TRUE

RunApp ==
    /\ boot = "seeding" /\ script["entrypoint"].job = "none"
    /\ GoesOn
    /\ boot' = "app"
    /\ UNCHANGED <<db, script, broken, deleted, restarts>>

\* The container is stopped, with all that runs in it, and started again.
Restart ==
    /\ restarts < MaxRestarts
    /\ restarts' = restarts + 1
    /\ boot' = "waiting"
    /\ script' = [p \in Seeders |-> NoScript]
    /\ broken' = (broken \/ \E p \in Seeders : Halfway(p))
    /\ UNCHANGED <<db, deleted>>

Operate(job, then) ==
    /\ boot # "waiting" /\ script["operator"] = NoScript
    /\ Start("operator", job, then)
    /\ UNCHANGED <<db, boot, broken, deleted, restarts>>

\* Users register, and write incidents and dashboards.  (A comment of theirs
\* goes with its incident, whoever wrote that: it holds nothing back itself.)
Work(t) ==
    /\ boot = "app"
    /\ \/ t = "organization" /\ db' = [db EXCEPT ![t] = @ \union {"users"},
                                                 !["user"] = @ \union {"users"}]
       \/ /\ t \in {"incident", "dashboard"} /\ db["user"] # {}
          /\ db' = [db EXCEPT ![t] = @ \union {"users"}]
    /\ UNCHANGED <<boot, script, broken, deleted, restarts>>

\* All rows of w's in a table are deleted, or so many that all that goes with
\* them is.  (With fewer, each table has some still.  No seed runs until its
\* metrics are 90 days old.)
Delete(t, w) ==
    LET with == {u \in {t} \union Cascade(t) : w \in db[u]} IN
    /\ t \in Emptied
    /\ \/ t \in Deletable /\ boot = "app"
       \/ t \in Dropped /\ ~(w \in Seeders /\ script[w].job = "seed")
    /\ w \in db[t]
    /\ \E gone \in {with, with \ {t}} :
         /\ db' = [u \in Tables |-> IF u \in gone THEN db[u] \ {w} ELSE db[u]]
         /\ deleted' = IF w \in Seeders THEN deleted \union gone ELSE deleted
    /\ UNCHANGED <<boot, script, broken, restarts>>

Boot == Ready \/ Migrate \/ Counts(TRUE) \/ RunApp

Next ==
    \/ Boot \/ Counts(FALSE) \/ Restart
    \/ \E p \in Seeders : \/ Look(p) \/ SeedStatement(p) \/ ResetStatement(p)
                          \/ Finish(p) \/ ScriptFails(p)
    \/ Operate("look", "none") \/ Operate("reset", "look")
    \/ \E t \in Tables : Work(t) \/ \E w \in Seeders \union {"users"} : Delete(t, w)

EntrypointScript == \/ Look("entrypoint") \/ SeedStatement("entrypoint")
                    \/ Finish("entrypoint") \/ ScriptFails("entrypoint")

Spec == /\ Init /\ [][Next]_vars
        /\ WF_vars(Boot) /\ WF_vars(EntrypointScript)

-----------------------------------------------------------------------------
Quiet == \A p \in Seeders : script[p].job = "none"

(***************************************************************************)
(* The demo data is whole, and from one run of the seed: however the       *)
(* entrypoint's seed and an operator's meet, and whatever users wrote      *)
(* before.  Only a seed that failed or was stopped after it had written    *)
(* its organization leaves a part of it (and is never made up for), and a  *)
(* reset that did not reach its end; and a table that all its rows were    *)
(* deleted from since has none.                                            *)
(***************************************************************************)
SeedWhole ==
    Quiet /\ Seeded /\ ~broken
        => \E p \in Seeders : \A t \in Tables :
               db[t] \intersect Seeders = {p}
                 \/ (t \in deleted /\ db[t] \intersect Seeders = {})

(***************************************************************************)
(* The application starts, whatever fails on the way: no failure of the    *)
(* schema, of the count or of the seed ends the entrypoint.                *)
(***************************************************************************)
AppStarts == boot # "app" ~> boot = "app"
=============================================================================
