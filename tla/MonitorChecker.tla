--------------------------- MODULE MonitorChecker ---------------------------
(***************************************************************************)
(* The uptime checker of the backend (MonitorCheckerService) together with *)
(* the rows it works on (MonitorsService, tables Monitor and CheckResult). *)
(*                                                                         *)
(* Every call of checkMonitor is an asynchronous function on Node's single *)
(* thread: between two awaits it runs alone, at an await anything else may *)
(* run.  A slot of `checks` is one such call and its pc is the await it is *)
(* suspended in:                                                           *)
(*                                                                         *)
(*   "loaded"     checkNow has read the row, checkMonitor has not begun    *)
(*   "probing"    the probe of the target is under way                     *)
(*   "hung"       a probe whose promise will never settle                  *)
(*   "updating"   monitor.update is on its way to the database             *)
(*   "inserting"  checkResult.create is on its way to the database         *)
(*   "finishing"  the body has returned or thrown, the finally is next     *)
(*                                                                         *)
(* `due` stands for the test lastCheckedAt IS NULL OR <= now - 30000 of    *)
(* the cron query; module CheckCadence has the clock.  A config is what a  *)
(* check reads from its snapshot of the row (type, target, config).        *)
(***************************************************************************)
EXTENDS Naturals, FiniteSets

CONSTANTS
    Monitors,       \* row ids; an id is never reused (cuid)
    Configs,        \* the configurations a user gives to a monitor
    TypeOf,         \* TypeOf[c]: the monitorType of configuration c
    Malformed,      \* configurations on which the probe itself throws
    Slots,          \* bound: calls of checkMonitor in flight per monitor
    Crons,          \* bound: runs of runDueChecks in flight
    BatchLimit,     \* the `take` of the cron query (50)
    MaxFaults       \* bound: process crashes and failed statements

MonitorType == {"agent", "snmp", "http", "https", "tcp", "ping",
                "ssl_expiry", "dns"}
CheckStatus == {"up", "down", "degraded", "timeout"}
None == "none"

ASSUME ConfigAssumption ==
    /\ TypeOf \in [Configs -> MonitorType]
    /\ Malformed \subseteq Configs
    /\ None \notin Configs

ASSUME BoundAssumption ==
    /\ BatchLimit \in Nat \ {0}
    /\ MaxFaults \in Nat

VARIABLES
    row,        \* the Monitor table
    newest,     \* status of the latest CheckResult of each monitor
    running,    \* the Set of ids of the service
    checks,     \* the calls of checkMonitor
    batch,      \* what each run of runDueChecks got from its query
    faults,     \* how many faults have happened
    \* History variables, read by the properties only:
    asked,      \* monitors check-now was used on since the process started
    torn,       \* monitors whose last status update has no CheckResult
    measured    \* the configuration lastStatus was measured with

vars == <<row, newest, running, checks, batch, faults, asked, torn, measured>>
history == <<asked, torn, measured>>

-----------------------------------------------------------------------------
Row == [state  : {"new", "live", "gone"},
        active : BOOLEAN,
        due    : BOOLEAN,
        cfg    : Configs \union {None},
        last   : CheckStatus \union {None}]

NoRow(state) == [state |-> state, active |-> FALSE, due |-> FALSE,
                 cfg |-> None, last |-> None]

PC == {"idle", "loaded", "probing", "hung", "updating", "inserting",
       "finishing"}
Check == [pc : PC, cfg : Configs \union {None},
          status : CheckStatus \union {None}]

Idle == [pc |-> "idle", cfg |-> None, status |-> None]
Probe(c) == [pc |-> "probing", cfg |-> c, status |-> None]
NoBatch == [m \in Monitors |-> None]

TypeOK ==
    /\ row \in [Monitors -> Row]
    /\ newest \in [Monitors -> CheckStatus \union {None}]
    /\ running \subseteq Monitors
    /\ checks \in [Monitors -> [Slots -> Check]]
    /\ batch \in [Crons -> [Monitors -> Configs \union {None}]]
    /\ faults \in 0 .. MaxFaults
    /\ asked \subseteq Monitors
    /\ torn \subseteq Monitors
    /\ measured \in [Monitors -> Configs \union {None}]

(***************************************************************************)
(* A check is in flight from running.add to running.delete.                *)
(***************************************************************************)
InFlight(m) == {s \in Slots : checks[m][s].pc \notin {"idle", "loaded"}}
Free(m)     == {s \in Slots : checks[m][s].pc = "idle"}
Hung(m)     == \E s \in Slots : checks[m][s].pc = "hung"
At(m, pc)   == \E s \in Slots : checks[m][s].pc = pc

Live(m) == row[m].state = "live"

\* Variant: the query selects the monitors never checked, without its OR.
DueNeverChecked(m) == Live(m) /\ row[m].active /\ row[m].last = None

Due(m)  == Live(m) /\ row[m].active /\ row[m].due

(***************************************************************************)
(* What a probe of each type can report.  checkHttp, checkSsl: an answer   *)
(* that is graded, an error or a timeout.  checkPing and checkDns report   *)
(* a failure of any kind as down; checkAgent compares an age with a limit. *)
(***************************************************************************)
Outcomes(type) ==
    CASE type \in {"http", "https", "ssl_expiry"} -> CheckStatus
      [] type \in {"tcp", "snmp"}                 -> {"up", "down", "timeout"}
      [] type \in {"ping", "dns", "agent"}        -> {"up", "down"}

(***************************************************************************)
(* checkHttp destroys the response once the body exceeds 2000 characters;  *)
(* "end" is then never emitted and nothing settles the promise.            *)
(***************************************************************************)
MayHang(type) == type \in {"http", "https"}

Set(m, s, check) == checks' = [checks EXCEPT ![m][s] = check]
\* The body of checkMonitor ends, or waits for ever: its locals are dead.
Leave(m, s, pc)  == Set(m, s, [Idle EXCEPT !.pc = pc])

Fault == faults < MaxFaults /\ faults' = faults + 1

-----------------------------------------------------------------------------
Init ==
    /\ row = [m \in Monitors |-> NoRow("new")]
    /\ newest = [m \in Monitors |-> None]
    /\ running = {}
    /\ checks = [m \in Monitors |-> [s \in Slots |-> Idle]]
    /\ batch = [c \in Crons |-> NoBatch]
    /\ faults = 0
    /\ asked = {}
    /\ torn = {}
    /\ measured = [m \in Monitors |-> None]

(***************************************************************************)
(* MonitorsService: what users do to the table.                            *)
(***************************************************************************)
Create(m, c) ==
    /\ row[m].state = "new"
    /\ row' = [row EXCEPT ![m] = [state |-> "live", active |-> TRUE,
                                  due |-> TRUE, cfg |-> c, last |-> None]]
    /\ UNCHANGED <<newest, running, checks, batch, faults, history>>

Update(m, c, active) ==
    /\ Live(m)
    /\ row' = [row EXCEPT ![m] = [@ EXCEPT !.cfg = c, !.active = active]]
    /\ UNCHANGED <<newest, running, checks, batch, faults, history>>

\* The check results go with the row (onDelete: Cascade).
Remove(m) ==
    /\ Live(m)
    /\ row' = [row EXCEPT ![m] = NoRow("gone")]
    /\ newest' = [newest EXCEPT ![m] = None]
    /\ measured' = [measured EXCEPT ![m] = None]
    /\ UNCHANGED <<running, checks, batch, faults, asked, torn>>

\* Thirty seconds have passed since lastCheckedAt.
BecomeDue(m) ==
    /\ Live(m)
    /\ ~row[m].due
    /\ row' = [row EXCEPT ![m].due = TRUE]
    /\ UNCHANGED <<newest, running, checks, batch, faults, history>>

-----------------------------------------------------------------------------
(***************************************************************************)
(* runDueChecks.  The query returns at most BatchLimit due rows, in no     *)
(* order.  The loop after it has no await: it runs as one step and tests   *)
(* `running` as it is then, not as it was when the query was made.         *)
(***************************************************************************)
AllDue == {m \in Monitors : Due(m)}

Query(c) ==
    /\ batch[c] = NoBatch
    /\ \E S \in SUBSET AllDue :
         /\ S # {}
         /\ S # AllDue => Cardinality(S) = BatchLimit
         /\ Cardinality(S) <= BatchLimit
         /\ batch' = [batch EXCEPT
                        ![c] = [m \in Monitors |->
                                  IF m \in S THEN row[m].cfg ELSE None]]
    /\ UNCHANGED <<row, newest, running, checks, faults, history>>

\* Variant: the loop forgets to skip the ids in `running`.
StartedUnskipped(c) == {m \in Monitors : batch[c][m] # None}

Started(c) == {m \in Monitors : batch[c][m] # None /\ m \notin running}

Dispatch(c) ==
    /\ batch[c] # NoBatch
    /\ \E slot \in [Started(c) -> Slots] :
         /\ \A m \in Started(c) : slot[m] \in Free(m)
         /\ checks' = [m \in Monitors |->
                         IF m \in Started(c)
                         THEN [checks[m] EXCEPT ![slot[m]] = Probe(batch[c][m])]
                         ELSE checks[m]]
    /\ running' = running \union Started(c)
    /\ batch' = [batch EXCEPT ![c] = NoBatch]
    /\ UNCHANGED <<row, newest, faults, history>>

(***************************************************************************)
(* checkNow: the row is read, then checkMonitor is called whatever         *)
(* `running` holds.  It throws if there is no row.  The bound on Slots     *)
(* falls here: a user waits while fewer than two slots are free, so that   *)
(* the cron job, which starts a check of m only if m is not in `running`,  *)
(* always finds one.                                                       *)
(***************************************************************************)
\* Variant: without the test that there is a row.
CheckNowAnyRow(m, s) ==
    /\ s \in Free(m)
    /\ Free(m) # {s}
    /\ Set(m, s, [pc |-> "loaded", cfg |-> row[m].cfg, status |-> None])
    /\ asked' = asked \union {m}
    /\ UNCHANGED <<row, newest, running, batch, faults, torn, measured>>

CheckNow(m, s) ==
    /\ Live(m)
    /\ s \in Free(m)
    /\ Free(m) # {s}
    /\ Set(m, s, [pc |-> "loaded", cfg |-> row[m].cfg, status |-> None])
    /\ asked' = asked \union {m}
    /\ UNCHANGED <<row, newest, running, batch, faults, torn, measured>>

CheckNowStart(m, s) ==
    /\ checks[m][s].pc = "loaded"
    /\ Set(m, s, Probe(checks[m][s].cfg))
    /\ running' = running \union {m}
    /\ UNCHANGED <<row, newest, batch, faults, history>>

-----------------------------------------------------------------------------
(***************************************************************************)
(* checkMonitor.                                                           *)
(***************************************************************************)
ProbeSettles(m, s) ==
    /\ checks[m][s].pc = "probing"
    /\ checks[m][s].cfg \notin Malformed
    /\ \E status \in Outcomes(TypeOf[checks[m][s].cfg]) :
         Set(m, s, [checks[m][s] EXCEPT !.pc = "updating", !.status = status])
    /\ UNCHANGED <<row, newest, running, batch, faults, history>>

ProbeHangs(m, s) ==
    /\ checks[m][s].pc = "probing"
    /\ checks[m][s].cfg \notin Malformed
    /\ MayHang(TypeOf[checks[m][s].cfg])
    /\ Leave(m, s, "hung")
    /\ UNCHANGED <<row, newest, running, batch, faults, history>>

ProbeThrows(m, s) ==
    /\ checks[m][s].pc = "probing"
    /\ checks[m][s].cfg \in Malformed
    /\ Leave(m, s, "finishing")
    /\ UNCHANGED <<row, newest, running, batch, faults, history>>

\* prisma.monitor.update; it throws when there is no row to update.
UpdateApplied(m, s) ==
    /\ checks[m][s].pc = "updating"
    /\ Live(m)
    /\ row' = [row EXCEPT ![m] = [@ EXCEPT !.last = checks[m][s].status,
                                         !.due = FALSE]]
    /\ measured' = [measured EXCEPT ![m] = checks[m][s].cfg]
    /\ Set(m, s, [checks[m][s] EXCEPT !.pc = "inserting", !.cfg = None])
    /\ UNCHANGED <<newest, running, batch, faults, asked, torn>>

\* Variant: a failing update returns without passing through the finally.
UpdateMissesNoFinally(m, s) ==
    /\ checks[m][s].pc = "updating"
    /\ ~Live(m)
    /\ Set(m, s, Idle)
    /\ UNCHANGED <<row, newest, running, batch, faults, history>>

UpdateMisses(m, s) ==
    /\ checks[m][s].pc = "updating"
    /\ ~Live(m)
    /\ Leave(m, s, "finishing")
    /\ UNCHANGED <<row, newest, running, batch, faults, history>>

\* Variant: results are kept for failures only.
InsertFailuresOnly(m, s) ==
    /\ checks[m][s].pc = "inserting"
    /\ Live(m)
    /\ newest' = IF checks[m][s].status = "up" THEN newest
                 ELSE [newest EXCEPT ![m] = checks[m][s].status]
    /\ torn' = IF m \in asked THEN torn ELSE torn \ {m}
    /\ Leave(m, s, "finishing")
    /\ UNCHANGED <<row, running, batch, faults, asked, measured>>

\* prisma.checkResult.create; its foreign key needs the row.
InsertApplied(m, s) ==
    /\ checks[m][s].pc = "inserting"
    /\ Live(m)
    /\ newest' = [newest EXCEPT ![m] = checks[m][s].status]
    /\ torn' = IF m \in asked THEN torn ELSE torn \ {m}
    /\ Leave(m, s, "finishing")
    /\ UNCHANGED <<row, running, batch, faults, asked, measured>>

InsertMisses(m, s) ==
    /\ checks[m][s].pc = "inserting"
    /\ ~Live(m)
    /\ Leave(m, s, "finishing")
    /\ UNCHANGED <<row, newest, running, batch, faults, history>>

\* A statement fails for a reason of the database's own.
StatementFails(m, s) ==
    /\ checks[m][s].pc \in {"updating", "inserting"}
    /\ Fault
    /\ torn' = IF checks[m][s].pc = "inserting" THEN torn \union {m} ELSE torn
    /\ Leave(m, s, "finishing")
    /\ UNCHANGED <<row, newest, running, batch, asked, measured>>

\* Variant: the id stays in `running`.
FinishKeepsId(m, s) ==
    /\ checks[m][s].pc = "finishing"
    /\ Set(m, s, Idle)
    /\ UNCHANGED <<row, newest, running, batch, faults, history>>

\* The finally block, reached from every return and every throw.
Finish(m, s) ==
    /\ checks[m][s].pc = "finishing"
    /\ Set(m, s, Idle)
    /\ running' = running \ {m}
    /\ UNCHANGED <<row, newest, batch, faults, history>>

(***************************************************************************)
(* The process stops anywhere and starts again: memory is lost, tables     *)
(* stay.  Whatever was between the update and the insert is torn, and so   *)
(* may be what overlapping checks have left.                               *)
(***************************************************************************)
Crash ==
    /\ Fault
    /\ running' = {}
    /\ checks' = [m \in Monitors |-> [s \in Slots |-> Idle]]
    /\ batch' = [c \in Crons |-> NoBatch]
    /\ asked' = {}
    /\ torn' = torn \union asked \union {m \in Monitors : At(m, "inserting")}
    /\ UNCHANGED <<row, newest, measured>>

-----------------------------------------------------------------------------
CheckStep(m, s) ==
    \/ ProbeSettles(m, s) \/ ProbeHangs(m, s) \/ ProbeThrows(m, s)
    \/ UpdateApplied(m, s) \/ UpdateMisses(m, s)
    \/ InsertApplied(m, s) \/ InsertMisses(m, s)
    \/ Finish(m, s)

UserStep(m) ==
    \/ \E c \in Configs : Create(m, c)
    \/ \E c \in Configs, active \in BOOLEAN : Update(m, c, active)
    \/ Remove(m)
    \/ \E s \in Slots : CheckNow(m, s)

Next ==
    \/ \E m \in Monitors : UserStep(m) \/ BecomeDue(m)
    \/ \E c \in Crons : Query(c) \/ Dispatch(c)
    \/ \E m \in Monitors, s \in Slots :
         CheckNowStart(m, s) \/ CheckStep(m, s) \/ StatementFails(m, s)
    \/ Crash

Spec == Init /\ [][Next]_vars

(***************************************************************************)
(* Time passes, the cron timer fires and the event loop runs every         *)
(* continuation that is ready.  Users, faults and the choice between       *)
(* settling and hanging are left free.                                     *)
(***************************************************************************)
Fairness ==
    /\ \A m \in Monitors : WF_vars(BecomeDue(m))
    /\ \A c \in Crons : WF_vars(Query(c)) /\ WF_vars(Dispatch(c))
    /\ \A m \in Monitors, s \in Slots :
         WF_vars(CheckNowStart(m, s)) /\ WF_vars(CheckStep(m, s))

FairSpec == Spec /\ Fairness

-----------------------------------------------------------------------------
(***************************************************************************)
(* Rows, calls, batches and ids keep their types; and whoever is about to  *)
(* probe has a configuration to probe with: a call of checkMonitor goes on *)
(* with what it read, though its row is edited or removed meanwhile.       *)
(***************************************************************************)
Configured ==
    /\ \A m \in Monitors : Live(m) => row[m].cfg \in Configs
    /\ \A m \in Monitors, s \in Slots :
         checks[m][s].pc \in {"loaded", "probing"} => checks[m][s].cfg \in Configs

TypeInv == TypeOK /\ Configured

(***************************************************************************)
(* Every id in `running` belongs to a check that is still in flight: no    *)
(* return, throw, missing row or crash leaves one behind.  (An id left     *)
(* behind would never be checked by the cron job again.)                   *)
(***************************************************************************)
RunningBacked == \A m \in running : InFlight(m) # {}

(***************************************************************************)
(* As long as nobody uses check-now on it, a monitor has at most one check *)
(* in flight, and `running` knows of it: two runs of runDueChecks that     *)
(* both read the row as due start it once.                                 *)
(***************************************************************************)
CronSolo ==
    \A m \in Monitors \ asked :
        /\ InFlight(m) # {} => m \in running
        /\ \A s, t \in InFlight(m) : s = t

(***************************************************************************)
(* The status a monitor shows is the status of its newest CheckResult,     *)
(* except while a check is between the two statements, after a fault       *)
(* between them, or when check-now has run beside the cron job.            *)
(***************************************************************************)
StatusMatchesNewest ==
    \A m \in Monitors \ (asked \union torn) :
        Live(m) /\ ~At(m, "inserting") => row[m].last = newest[m]

(***************************************************************************)
(* A due monitor does not stay due: its check ends and stamps it, unless   *)
(* the user takes it out of service, its probe throws, or a probe of it    *)
(* hangs.  Needs BatchLimit >= Cardinality(Monitors).                      *)
(***************************************************************************)
DueIsChecked ==
    \A m \in Monitors :
        Due(m) ~> (~Due(m) \/ Hung(m) \/ row[m].cfg \in Malformed)

(***************************************************************************)
(* A check that was probing while its monitor was edited stores a status   *)
(* of the old configuration; it does not stay.  The status of an active    *)
(* monitor is in the end one measured with the configuration it has.       *)
(***************************************************************************)
StaleStatusHeals ==
    \A m \in Monitors, c \in Configs \ Malformed :
        Live(m) /\ row[m].active /\ row[m].cfg = c
          ~> \/ measured[m] = c
             \/ row[m].cfg # c \/ ~Live(m) \/ ~row[m].active \/ Hung(m)

(***************************************************************************)
(* An id leaves `running` again, even if its monitor is removed while the  *)
(* check is in flight; only a hung probe keeps it.                         *)
(***************************************************************************)
RunningReleased ==
    \A m \in Monitors : m \in running ~> (m \notin running \/ Hung(m))
=============================================================================
