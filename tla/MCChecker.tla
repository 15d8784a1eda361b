------------------------------ MODULE MCChecker ------------------------------
(***************************************************************************)
(* The uptime checker for TLC: the checks of the monitors without a clock, *)
(* and the clock of one monitor.  Neither reads what the other writes, so  *)
(* topic, chosen at the start, says which of them moves.                   *)
(***************************************************************************)
EXTENDS MCMonitorChecker, CheckCadence

VARIABLE topic

checkerVars == <<topic, vars, cadenceVars>>

MCInit ==
    /\ Init /\ CadenceInit
    /\ topic \in {"checks", "clock"}
    /\ topic = "checks" => phase = 0

Checks(step) == topic = "checks" /\ step /\ UNCHANGED <<topic, cadenceVars>>

MCNext ==
    \/ Checks(Next)
    \/ topic = "clock" /\ CadenceNext /\ UNCHANGED <<topic, vars>>

\* The fairness of MonitorChecker.
MCFairness ==
    /\ \A m \in Monitors : WF_checkerVars(Checks(BecomeDue(m)))
    /\ \A c \in Crons : /\ WF_checkerVars(Checks(Query(c)))
                        /\ WF_checkerVars(Checks(Dispatch(c)))
    /\ \A m \in Monitors, s \in Slots :
         /\ WF_checkerVars(Checks(CheckNowStart(m, s)))
         /\ WF_checkerVars(Checks(CheckStep(m, s)))

MCSpec == MCInit /\ [][MCNext]_checkerVars /\ MCFairness
=============================================================================
