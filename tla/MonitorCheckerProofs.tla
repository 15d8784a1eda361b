------------------------ MODULE MonitorCheckerProofs ------------------------
(***************************************************************************)
(* Machine-checked proofs about MonitorChecker, for any sets of monitors,  *)
(* configurations, slots and cron runs, any batch limit and any number of  *)
(* faults.                                                                 *)
(***************************************************************************)
EXTENDS MonitorChecker, TLAPS

USE DEF history

-----------------------------------------------------------------------------
(***************************************************************************)
(* Type correctness.                                                       *)
(***************************************************************************)

LEMMA Statuses ==
    ASSUME NEW type \in MonitorType
    PROVE  Outcomes(type) \subseteq CheckStatus
BY DEF Outcomes, MonitorType, CheckStatus

\* What a call of checkMonitor may become.
GoodCheck == {k \in Check : k.pc \in {"loaded", "probing"} => k.cfg \in Configs}

GoodChecks == checks \in [Monitors -> [Slots -> GoodCheck]]

\* Every slot keeps its type when one of them is overwritten.
LEMMA SetGood ==
    ASSUME GoodChecks, NEW m \in Monitors, NEW s \in Slots,
           NEW k \in GoodCheck, Set(m, s, k)
    PROVE  /\ GoodChecks'
           /\ checks'[m][s] = k
           /\ \A n \in Monitors, t \in Slots :
                n # m \/ t # s => checks'[n][t] = checks[n][t]
BY DEF GoodChecks, Set

LEMMA LeaveGood ==
    /\ Idle \in GoodCheck
    /\ \A pc \in {"hung", "finishing"} : [Idle EXCEPT !.pc = pc] \in GoodCheck
BY DEF Idle, GoodCheck, Check, PC

\* The rows of the tables have their types; the calls are GoodChecks' part.
TableOK ==
    /\ row \in [Monitors -> Row]
    /\ newest \in [Monitors -> CheckStatus \union {None}]
    /\ measured \in [Monitors -> Configs \union {None}]
    /\ \A m \in Monitors : Live(m) => row[m].cfg \in Configs

OtherOK ==
    /\ running \subseteq Monitors
    /\ batch \in [Crons -> [Monitors -> Configs \union {None}]]
    /\ faults \in 0 .. MaxFaults
    /\ asked \subseteq Monitors
    /\ torn \subseteq Monitors

LEMMA TypeInvParts == TypeInv <=> TableOK /\ GoodChecks /\ OtherOK
BY DEF TypeInv, TypeOK, Configured, TableOK, GoodChecks, GoodCheck, OtherOK

LEMMA InitType == Init => TypeInv
<1> SUFFICES ASSUME Init PROVE TableOK /\ GoodChecks /\ OtherOK
  BY TypeInvParts
<1>1. TableOK
  BY DEF Init, TableOK, NoRow, Row, Live
<1>2. GoodChecks
  BY LeaveGood DEF Init, GoodChecks
<1>3. OtherOK
  BY BoundAssumption DEF Init, OtherOK, NoBatch
<1> QED BY <1>1, <1>2, <1>3

LEMMA UserType ==
    ASSUME TableOK, GoodChecks, OtherOK,
           NEW m \in Monitors, UserStep(m) \/ BecomeDue(m)
    PROVE  TableOK' /\ GoodChecks' /\ OtherOK'
<1>1. ASSUME NEW c \in Configs, Create(m, c)
      PROVE  TableOK' /\ GoodChecks' /\ OtherOK'
  BY <1>1 DEF TableOK, GoodChecks, OtherOK, Create, Row, Live
<1>2. ASSUME NEW c \in Configs, NEW active \in BOOLEAN, Update(m, c, active)
      PROVE  TableOK' /\ GoodChecks' /\ OtherOK'
  BY <1>2 DEF TableOK, GoodChecks, OtherOK, Update, Row, Live
<1>3. CASE Remove(m)
  BY <1>3 DEF TableOK, GoodChecks, OtherOK, Remove, Row, NoRow, Live
<1>4. ASSUME NEW s \in Slots, CheckNow(m, s)
      PROVE  TableOK' /\ GoodChecks' /\ OtherOK'
  <2>1. [pc |-> "loaded", cfg |-> row[m].cfg, status |-> None] \in GoodCheck
    BY <1>4 DEF TableOK, CheckNow, GoodCheck, Check, PC
  <2>2. GoodChecks'
    BY <1>4, <2>1, SetGood DEF CheckNow
  <2> QED BY <1>4, <2>2 DEF TableOK, OtherOK, CheckNow, Live
<1>5. CASE BecomeDue(m)
  BY <1>5 DEF TableOK, GoodChecks, OtherOK, BecomeDue, Row, Live
<1> QED BY <1>1, <1>2, <1>3, <1>4, <1>5 DEF UserStep

LEMMA CronType ==
    ASSUME TableOK, GoodChecks, OtherOK, NEW c \in Crons, Query(c) \/ Dispatch(c)
    PROVE  TableOK' /\ GoodChecks' /\ OtherOK'
<1>1. CASE Query(c)
  <2>1. PICK S \in SUBSET AllDue :
          batch' = [batch EXCEPT ![c] = [m \in Monitors |->
                                   IF m \in S THEN row[m].cfg ELSE None]]
    BY <1>1 DEF Query
  <2>2. batch' \in [Crons -> [Monitors -> Configs \union {None}]]
    BY <2>1 DEF TableOK, OtherOK, Row
  <2> QED BY <1>1, <2>2 DEF TableOK, GoodChecks, OtherOK, Query, Live
<1>2. CASE Dispatch(c)
  <2>1. PICK slot \in [Started(c) -> Slots] :
          checks' = [m \in Monitors |->
                       IF m \in Started(c)
                       THEN [checks[m] EXCEPT ![slot[m]] = Probe(batch[c][m])]
                       ELSE checks[m]]
    BY <1>2 DEF Dispatch
  <2>2. \A m \in Started(c) : Probe(batch[c][m]) \in GoodCheck /\ m \in Monitors
    BY DEF OtherOK, Started, Probe, GoodCheck, Check, PC
  <2>3. GoodChecks'
    BY <2>1, <2>2 DEF GoodChecks
  <2>4. batch' \in [Crons -> [Monitors -> Configs \union {None}]]
    BY <1>2 DEF OtherOK, Dispatch, NoBatch
  <2> QED BY <1>2, <2>3, <2>4 DEF TableOK, OtherOK, Dispatch, Started, Live
<1> QED BY <1>1, <1>2

LEMMA CheckTypeStep ==
    ASSUME TableOK, GoodChecks, OtherOK, NEW m \in Monitors, NEW s \in Slots,
           CheckNowStart(m, s) \/ CheckStep(m, s) \/ StatementFails(m, s)
    PROVE  TableOK' /\ GoodChecks' /\ OtherOK'
<1> DEFINE k == checks[m][s]
<1>k. k \in GoodCheck /\ k \in Check
  BY DEF GoodChecks, GoodCheck
<1>s. k.status \in CheckStatus \union {None} /\ k.cfg \in Configs \union {None}
  BY <1>k DEF Check
<1> HIDE DEF k
<1>1. CASE CheckNowStart(m, s)
  <2>1. Probe(k.cfg) \in GoodCheck
    BY <1>1, <1>k DEF k, CheckNowStart, Probe, GoodCheck, Check, PC
  <2>2. GoodChecks'
    BY <1>1, <2>1, SetGood DEF k, CheckNowStart
  <2> QED BY <1>1, <2>2 DEF TableOK, OtherOK, CheckNowStart, Live
<1>2. CASE ProbeSettles(m, s)
  <2>1. k.cfg \in Configs
    BY <1>2, <1>k DEF k, ProbeSettles, GoodCheck
  <2>2. PICK status \in Outcomes(TypeOf[k.cfg]) :
          Set(m, s, [k EXCEPT !.pc = "updating", !.status = status])
    BY <1>2 DEF k, ProbeSettles
  <2>3. status \in CheckStatus
    BY <2>1, <2>2, Statuses, ConfigAssumption
  <2>4. [k EXCEPT !.pc = "updating", !.status = status] \in GoodCheck
    BY <1>k, <2>3 DEF GoodCheck, Check, PC
  <2>5. GoodChecks'
    BY <2>2, <2>4, SetGood
  <2> QED BY <1>2, <2>5 DEF TableOK, OtherOK, ProbeSettles, Live
<1>3. CASE ProbeHangs(m, s) \/ ProbeThrows(m, s) \/ UpdateMisses(m, s)
             \/ InsertMisses(m, s) \/ StatementFails(m, s)
             \/ InsertApplied(m, s)
  <2>1. GoodChecks'
    <3>1. PICK pc \in {"hung", "finishing"} : Set(m, s, [Idle EXCEPT !.pc = pc])
      BY <1>3 DEF ProbeHangs, ProbeThrows, UpdateMisses, InsertMisses,
                  StatementFails, InsertApplied, Leave
    <3> QED BY <3>1, LeaveGood, SetGood
  <2>2. TableOK'
    BY <1>3, <1>s DEF k, TableOK, ProbeHangs, ProbeThrows, UpdateMisses,
       InsertMisses, StatementFails, InsertApplied, Live
  <2>3. OtherOK'
    BY <1>3, BoundAssumption DEF OtherOK, ProbeHangs, ProbeThrows,
       UpdateMisses, InsertMisses, StatementFails, InsertApplied, Fault
  <2> QED BY <2>1, <2>2, <2>3
<1>4. CASE UpdateApplied(m, s)
  <2>1. [k EXCEPT !.pc = "inserting", !.cfg = None] \in GoodCheck
    BY <1>k DEF GoodCheck, Check, PC
  <2>2. GoodChecks'
    BY <1>4, <2>1, SetGood DEF k, UpdateApplied
  <2>3. row' \in [Monitors -> Row]
    <3>1. row[m] \in Row
      BY DEF TableOK
    <3>2. [row[m] EXCEPT !.last = k.status, !.due = FALSE] \in Row
      BY <3>1, <1>s DEF Row
    <3> QED BY <1>4, <3>2 DEF k, UpdateApplied, TableOK
  <2> QED BY <1>4, <1>s, <2>2, <2>3
          DEF k, TableOK, OtherOK, UpdateApplied, Live, Row
<1>5. CASE Finish(m, s)
  BY <1>5, LeaveGood, SetGood DEF Finish, TableOK, OtherOK, Live
<1> QED BY <1>1, <1>2, <1>3, <1>4, <1>5 DEF CheckStep

LEMMA CrashType ==
    ASSUME TableOK, GoodChecks, OtherOK, Crash
    PROVE  TableOK' /\ GoodChecks' /\ OtherOK'
<1>1. GoodChecks'
  BY LeaveGood DEF Crash, GoodChecks
<1> QED BY <1>1, BoundAssumption
        DEF TableOK, OtherOK, Crash, Fault, NoBatch, Live

LEMMA TypeStep == TypeInv /\ [Next]_vars => TypeInv'
<1> SUFFICES ASSUME TableOK, GoodChecks, OtherOK, [Next]_vars
             PROVE  TableOK' /\ GoodChecks' /\ OtherOK'
  BY TypeInvParts, PTL
<1>1. CASE Next
  BY <1>1, UserType, CronType, CheckTypeStep, CrashType DEF Next
<1>2. CASE UNCHANGED vars
  BY <1>2 DEF vars, TableOK, GoodChecks, OtherOK, Live
<1> QED BY <1>1, <1>2

(***************************************************************************)
(* Every reachable state has the types that the tables and the service     *)
(* give it, and a check that has still to probe knows its configuration.   *)
(***************************************************************************)
THEOREM TypeCorrect == Spec => []TypeInv
BY InitType, TypeStep, PTL DEF Spec

-----------------------------------------------------------------------------
(***************************************************************************)
(* Who may be in flight.  The invariant is RunningBacked and CronSolo with *)
(* one more part: a monitor nobody used check-now on has no call waiting   *)
(* to begin past the test of `running`.                                    *)
(***************************************************************************)
NoneLoaded ==
    \A m \in Monitors \ asked, s \in Slots : checks[m][s].pc # "loaded"

FlightInv == RunningBacked /\ CronSolo /\ NoneLoaded

\* A step inside checkMonitor leaves the set of calls in flight alone.
InsideStep(m, s) ==
    \/ ProbeSettles(m, s) \/ ProbeHangs(m, s) \/ ProbeThrows(m, s)
    \/ UpdateApplied(m, s) \/ UpdateMisses(m, s)
    \/ InsertApplied(m, s) \/ InsertMisses(m, s) \/ StatementFails(m, s)

LEMMA InsideKeepsFlight ==
    ASSUME GoodChecks, NEW m \in Monitors, NEW s \in Slots, InsideStep(m, s)
    PROVE  /\ \A n \in Monitors : InFlight(n)' = InFlight(n)
           /\ NoneLoaded => NoneLoaded'
           /\ UNCHANGED <<running, asked>>
<1>u. UNCHANGED <<running, asked>>
  BY DEF InsideStep, ProbeSettles, ProbeHangs, ProbeThrows, UpdateApplied,
         UpdateMisses, InsertApplied, InsertMisses, StatementFails
<1>1. checks[m][s].pc \in {"probing", "updating", "inserting"}
  BY DEF InsideStep, ProbeSettles, ProbeHangs, ProbeThrows, UpdateApplied,
         UpdateMisses, InsertApplied, InsertMisses, StatementFails
<1>2. \E k : /\ Set(m, s, k)
             /\ k.pc \in {"hung", "updating", "inserting", "finishing"}
  <2>1. checks[m][s] \in GoodCheck
    BY DEF GoodChecks
  <2>2. CASE ProbeSettles(m, s)
    <3>1. PICK status :
            Set(m, s, [checks[m][s] EXCEPT !.pc = "updating", !.status = status])
      BY <2>2 DEF ProbeSettles
    <3>2. [checks[m][s] EXCEPT !.pc = "updating", !.status = status].pc = "updating"
      BY <2>1 DEF GoodCheck, Check
    <3> QED BY <3>1, <3>2
  <2>4. CASE UpdateApplied(m, s)
    <3>1. Set(m, s, [checks[m][s] EXCEPT !.pc = "inserting", !.cfg = None])
      BY <2>4 DEF UpdateApplied
    <3>2. [checks[m][s] EXCEPT !.pc = "inserting", !.cfg = None].pc = "inserting"
      BY <2>1 DEF GoodCheck, Check
    <3> QED BY <3>1, <3>2
  <2>3. CASE ~(ProbeSettles(m, s) \/ UpdateApplied(m, s))
    <3>1. \E pc \in {"hung", "finishing"} : Leave(m, s, pc)
      BY <2>3 DEF InsideStep, ProbeHangs, ProbeThrows, UpdateMisses,
                  InsertApplied, InsertMisses, StatementFails
    <3> QED BY <3>1 DEF Leave, Idle
  <2> QED BY <2>2, <2>3, <2>4
<1>3. PICK k : /\ Set(m, s, k)
               /\ k.pc \in {"hung", "updating", "inserting", "finishing"}
  BY <1>2
<1>4. \A n \in Monitors, t \in Slots :
        checks'[n][t] = IF n = m /\ t = s THEN k ELSE checks[n][t]
  BY <1>3 DEF Set, GoodChecks
<1>5. \A n \in Monitors : InFlight(n)' = InFlight(n)
  BY <1>1, <1>3, <1>4 DEF InFlight
<1>6. NoneLoaded => NoneLoaded'
  BY <1>u, <1>3, <1>4 DEF NoneLoaded
<1> QED BY <1>u, <1>5, <1>6

LEMMA InitFlight == Init => FlightInv
BY DEF Init, FlightInv, RunningBacked, CronSolo, NoneLoaded, InFlight, Idle

LEMMA CheckNowFlight ==
    ASSUME TypeInv, FlightInv, NEW m \in Monitors, NEW s \in Slots,
           CheckNow(m, s) \/ CheckNowStart(m, s) \/ Finish(m, s)
    PROVE  FlightInv'
<1>g. GoodChecks /\ running \subseteq Monitors
  BY TypeInvParts DEF OtherOK
<1>1. CASE CheckNow(m, s)
  <2>1. PICK k : Set(m, s, k) /\ k.pc = "loaded"
    BY <1>1 DEF CheckNow
  <2>2. \A n \in Monitors, t \in Slots :
          checks'[n][t] = IF n = m /\ t = s THEN k ELSE checks[n][t]
    BY <1>g, <2>1 DEF Set, GoodChecks
  <2>3. \A n \in Monitors : InFlight(n)' = InFlight(n)
    BY <1>1, <2>1, <2>2 DEF InFlight, CheckNow, Free
  <2> QED BY <1>1, <1>g, <2>2, <2>3
          DEF FlightInv, RunningBacked, CronSolo, NoneLoaded, CheckNow
<1>2. CASE CheckNowStart(m, s)
  <2>1. PICK k : Set(m, s, k) /\ k.pc = "probing"
    BY <1>2 DEF CheckNowStart, Probe
  <2>2. \A n \in Monitors, t \in Slots :
          checks'[n][t] = IF n = m /\ t = s THEN k ELSE checks[n][t]
    BY <1>g, <2>1 DEF Set, GoodChecks
  <2>3. /\ InFlight(m)' = InFlight(m) \union {s}
        /\ \A n \in Monitors \ {m} : InFlight(n)' = InFlight(n)
    BY <2>1, <2>2 DEF InFlight
  <2>4. m \in asked
    BY <1>2 DEF FlightInv, NoneLoaded, CheckNowStart
  <2> QED BY <1>2, <1>g, <2>1, <2>2, <2>3, <2>4
          DEF FlightInv, RunningBacked, CronSolo, NoneLoaded, CheckNowStart
<1>3. CASE Finish(m, s)
  <2>1. \A n \in Monitors, t \in Slots :
          checks'[n][t] = IF n = m /\ t = s THEN Idle ELSE checks[n][t]
    BY <1>3, <1>g DEF Finish, Set, GoodChecks
  <2>2. /\ InFlight(m)' = InFlight(m) \ {s}
        /\ s \in InFlight(m)
        /\ \A n \in Monitors \ {m} : InFlight(n)' = InFlight(n)
    BY <1>3, <2>1 DEF InFlight, Idle, Finish
  <2> QED BY <1>3, <1>g, <2>1, <2>2
          DEF FlightInv, RunningBacked, CronSolo, NoneLoaded, Finish, Idle
<1> QED BY <1>1, <1>2, <1>3

LEMMA DispatchFlight ==
    ASSUME TypeInv, FlightInv, NEW c \in Crons, Dispatch(c)
    PROVE  FlightInv'
<1>g. GoodChecks /\ running \subseteq Monitors
  BY TypeInvParts DEF OtherOK
<1>1. PICK slot \in [Started(c) -> Slots] :
        /\ \A m \in Started(c) : slot[m] \in Free(m)
        /\ checks' = [m \in Monitors |->
                        IF m \in Started(c)
                        THEN [checks[m] EXCEPT ![slot[m]] = Probe(batch[c][m])]
                        ELSE checks[m]]
  BY DEF Dispatch
<1>2. \A m \in Started(c) : m \in Monitors /\ m \notin running
  BY DEF Started
<1>p. \A m : Probe(batch[c][m]).pc = "probing"
  BY DEF Probe
<1>3. \A m \in Monitors, t \in Slots :
        checks'[m][t] = IF m \in Started(c) /\ t = slot[m]
                        THEN Probe(batch[c][m]) ELSE checks[m][t]
  BY <1>1, <1>g DEF GoodChecks
<1>4. \A m \in Monitors :
        InFlight(m)' = IF m \in Started(c)
                       THEN InFlight(m) \union {slot[m]} ELSE InFlight(m)
  <2> SUFFICES ASSUME NEW m \in Monitors
               PROVE  InFlight(m)' = IF m \in Started(c)
                                     THEN InFlight(m) \union {slot[m]}
                                     ELSE InFlight(m)
    OBVIOUS
  <2>1. CASE m \in Started(c)
    <3>1. slot[m] \in Slots /\ checks'[m][slot[m]].pc = "probing"
      BY <1>1, <1>3, <1>p, <2>1
    <3>2. \A t \in Slots \ {slot[m]} : checks'[m][t] = checks[m][t]
      BY <1>3, <2>1
    <3> QED BY <2>1, <3>1, <3>2 DEF InFlight
  <2>2. CASE m \notin Started(c)
    BY <1>3, <2>2 DEF InFlight
  <2> QED BY <2>1, <2>2
<1>5. running' = running \union Started(c) /\ asked' = asked
  BY DEF Dispatch
<1>6. RunningBacked'
  BY <1>2, <1>4, <1>5, <1>g DEF FlightInv, RunningBacked
<1>7. CronSolo'
  BY <1>2, <1>4, <1>5 DEF FlightInv, CronSolo
<1>8. NoneLoaded'
  <2>1. \A m \in Monitors, t \in Slots :
          \/ checks'[m][t].pc = "probing"
          \/ checks'[m][t] = checks[m][t]
    <3> SUFFICES ASSUME NEW m \in Monitors, NEW t \in Slots
                 PROVE  \/ checks'[m][t].pc = "probing"
                        \/ checks'[m][t] = checks[m][t]
      OBVIOUS
    <3>1. CASE m \in Started(c) /\ t = slot[m]
      BY <1>3, <1>p, <3>1
    <3>2. CASE ~(m \in Started(c) /\ t = slot[m])
      BY <1>3, <3>2
    <3> QED BY <3>1, <3>2
  <2> QED BY <2>1, <1>5 DEF FlightInv, NoneLoaded
<1> QED BY <1>6, <1>7, <1>8 DEF FlightInv

LEMMA FlightStep == TypeInv /\ FlightInv /\ [Next]_vars => FlightInv'
<1> SUFFICES ASSUME TypeInv, FlightInv, [Next]_vars PROVE FlightInv'
  OBVIOUS
<1>g. GoodChecks /\ running \subseteq Monitors
  BY TypeInvParts DEF OtherOK
<1>1. CASE UNCHANGED <<running, checks, asked>>
  BY <1>1 DEF FlightInv, RunningBacked, CronSolo, NoneLoaded, InFlight
<1>2. ASSUME NEW m \in Monitors, NEW s \in Slots, InsideStep(m, s)
      PROVE  FlightInv'
  <2>1. /\ \A n \in Monitors : InFlight(n)' = InFlight(n)
        /\ NoneLoaded'
        /\ UNCHANGED <<running, asked>>
    BY <1>2, <1>g, InsideKeepsFlight DEF FlightInv
  <2> QED BY <2>1, <1>g DEF FlightInv, RunningBacked, CronSolo
<1>3. CASE Crash
  BY <1>3 DEF Crash, FlightInv, RunningBacked, CronSolo, NoneLoaded,
              InFlight, Idle
<1>4. ASSUME NEW m \in Monitors, UserStep(m) \/ BecomeDue(m)
      PROVE  FlightInv'
  BY <1>1, <1>4, CheckNowFlight DEF UserStep, Create, Update, Remove, BecomeDue
<1>5. ASSUME NEW c \in Crons, Query(c) \/ Dispatch(c)
      PROVE  FlightInv'
  BY <1>1, <1>5, DispatchFlight DEF Query
<1>6. ASSUME NEW m \in Monitors, NEW s \in Slots,
             CheckNowStart(m, s) \/ CheckStep(m, s) \/ StatementFails(m, s)
      PROVE  FlightInv'
  BY <1>2, <1>6, CheckNowFlight DEF CheckStep, InsideStep
<1>7. CASE UNCHANGED vars
  BY <1>1, <1>7 DEF vars
<1> QED BY <1>3, <1>4, <1>5, <1>6, <1>7 DEF Next

(***************************************************************************)
(* No id stays in `running` without a check in flight, and, while nobody   *)
(* uses check-now on a monitor, the cron job never runs two checks of it.  *)
(***************************************************************************)
THEOREM Exclusive == Spec => [](RunningBacked /\ CronSolo)
<1>1. Init => TypeInv /\ FlightInv
  BY InitType, InitFlight
<1>2. TypeInv /\ FlightInv /\ [Next]_vars => (TypeInv /\ FlightInv)'
  BY TypeStep, FlightStep
<1>3. FlightInv => RunningBacked /\ CronSolo
  BY DEF FlightInv
<1> QED BY <1>1, <1>2, <1>3, PTL DEF Spec

-----------------------------------------------------------------------------
(***************************************************************************)
(* The status shown and the newest result.  StatusMatchesNewest says       *)
(* nothing of a monitor whose check is between its two statements; what    *)
(* carries it across them is that such a check holds the status it has     *)
(* just written, which is so because no other check runs beside it.        *)
(***************************************************************************)
InsertCarriesLast ==
    \A m \in Monitors \ asked, s \in Slots :
        checks[m][s].pc = "inserting" /\ Live(m)
          => checks[m][s].status = row[m].last

NewIsBare ==
    \A m \in Monitors : row[m].state = "new" => newest[m] = None /\ ~At(m, "inserting")

StatusInv == StatusMatchesNewest /\ InsertCarriesLast /\ NewIsBare

LEMMA InitStatus == Init => StatusInv
BY DEF Init, StatusInv, StatusMatchesNewest, InsertCarriesLast, NewIsBare,
       NoRow, Live, At, Idle

\* A step that moves no call into the insert, nor out of it over a live row.
LEMMA CalmStep ==
    ASSUME StatusInv, UNCHANGED <<row, newest, torn>>, asked \subseteq asked',
           \A m \in Monitors, s \in Slots :
               \/ checks'[m][s] = checks[m][s]
               \/ /\ checks'[m][s].pc # "inserting"
                  /\ checks[m][s].pc # "inserting" \/ ~Live(m)
    PROVE  StatusInv'
<1>1. \A m \in Monitors : Live(m)' = Live(m)
  BY DEF Live
<1>2. \A m \in Monitors : At(m, "inserting")' => At(m, "inserting")
  BY DEF At
<1>3. \A m \in Monitors : Live(m) /\ At(m, "inserting") => At(m, "inserting")'
  BY DEF At
<1>4. StatusMatchesNewest'
  BY <1>1, <1>3 DEF StatusInv, StatusMatchesNewest
<1>5. InsertCarriesLast'
  BY <1>1 DEF StatusInv, InsertCarriesLast
<1>6. NewIsBare'
  BY <1>2 DEF StatusInv, NewIsBare
<1> QED BY <1>4, <1>5, <1>6 DEF StatusInv

\* A step of the users on the row of one monitor, its calls untouched.
LEMMA RowStep ==
    ASSUME TypeInv, StatusInv, NEW m \in Monitors,
           \/ \E c \in Configs : Create(m, c)
           \/ \E c \in Configs, active \in BOOLEAN : Update(m, c, active)
           \/ Remove(m)
           \/ BecomeDue(m)
    PROVE  StatusInv'
<1>t. row \in [Monitors -> Row] /\ newest \in [Monitors -> CheckStatus \union {None}]
  BY TypeInvParts DEF TableOK
<1>u. UNCHANGED <<checks, asked, torn>>
  BY DEF Create, Update, Remove, BecomeDue
<1>at. \A n \in Monitors : At(n, "inserting")' = At(n, "inserting")
  BY <1>u DEF At
<1>o. \A n \in Monitors \ {m} : row'[n] = row[n] /\ newest'[n] = newest[n]
  BY <1>t DEF Create, Update, Remove, BecomeDue
<1>1. CASE \E c \in Configs : Create(m, c)
  <2>1. row[m].state = "new" /\ row'[m].last = None /\ newest'[m] = newest[m]
    BY <1>1, <1>t DEF Create
  <2>2. row'[m].state = "live"
    BY <1>1, <1>t DEF Create
  <2>3. newest[m] = None /\ ~At(m, "inserting")
    BY <2>1 DEF StatusInv, NewIsBare
  <2>4. StatusMatchesNewest'
    BY <1>u, <1>at, <1>o, <2>1, <2>3 DEF StatusInv, StatusMatchesNewest, Live
  <2>5. InsertCarriesLast'
    BY <1>u, <1>o, <2>3 DEF StatusInv, InsertCarriesLast, Live, At
  <2>6. NewIsBare'
    BY <1>u, <1>at, <1>o, <2>2 DEF StatusInv, NewIsBare
  <2> QED BY <2>4, <2>5, <2>6 DEF StatusInv
<1>2. CASE Remove(m)
  <2>1. row'[m].state = "gone"
    BY <1>2, <1>t DEF Remove, NoRow
  <2>4. StatusMatchesNewest'
    BY <1>u, <1>at, <1>o, <2>1 DEF StatusInv, StatusMatchesNewest, Live
  <2>5. InsertCarriesLast'
    BY <1>u, <1>o, <2>1 DEF StatusInv, InsertCarriesLast, Live
  <2>6. NewIsBare'
    BY <1>u, <1>at, <1>o, <2>1 DEF StatusInv, NewIsBare
  <2> QED BY <2>4, <2>5, <2>6 DEF StatusInv
<1>3. CASE \/ \E c \in Configs, active \in BOOLEAN : Update(m, c, active)
           \/ BecomeDue(m)
  <2>r. row[m] \in [state : {"new", "live", "gone"}, active : BOOLEAN,
                    due : BOOLEAN, cfg : Configs \union {None},
                    last : CheckStatus \union {None}]
    BY <1>t DEF Row
  <2>1. /\ row'[m].state = row[m].state
        /\ row'[m].last = row[m].last
        /\ newest'[m] = newest[m]
    <3>1. CASE BecomeDue(m)
      BY <3>1, <2>r, <1>t DEF BecomeDue
    <3>2. CASE \E c \in Configs, active \in BOOLEAN : Update(m, c, active)
      <4>1. PICK c, a : row' = [row EXCEPT ![m] =
                                  [row[m] EXCEPT !.cfg = c, !.active = a]]
        BY <3>2 DEF Update
      <4> QED BY <3>2, <4>1, <2>r, <1>t DEF Update
    <3> QED BY <1>3, <3>1, <3>2
  <2>4. StatusMatchesNewest'
    BY <1>u, <1>at, <1>o, <2>1 DEF StatusInv, StatusMatchesNewest, Live
  <2>5. InsertCarriesLast'
    BY <1>u, <1>o, <2>1 DEF StatusInv, InsertCarriesLast, Live
  <2>6. NewIsBare'
    BY <1>u, <1>at, <1>o, <2>1 DEF StatusInv, NewIsBare
  <2> QED BY <2>4, <2>5, <2>6 DEF StatusInv
<1> QED BY <1>1, <1>2, <1>3

\* The first statement: no other check of m is in flight unless it was asked.
LEMMA UpdateStep ==
    ASSUME TypeInv, FlightInv, StatusInv, NEW m \in Monitors, NEW s \in Slots,
           UpdateApplied(m, s)
    PROVE  StatusInv'
<1>t. GoodChecks /\ row \in [Monitors -> Row]
  BY TypeInvParts DEF TableOK
<1>u. UNCHANGED <<newest, asked, torn>>
  BY DEF UpdateApplied
<1>r. row[m] \in [state : {"new", "live", "gone"}, active : BOOLEAN,
                  due : BOOLEAN, cfg : Configs \union {None},
                  last : CheckStatus \union {None}]
  BY <1>t DEF Row
<1>1. /\ row'[m].state = "live"
      /\ row'[m].last = checks[m][s].status
      /\ \A n \in Monitors \ {m} : row'[n] = row[n]
  BY <1>t, <1>r DEF UpdateApplied, Live
<1>2. PICK k : Set(m, s, k) /\ k.pc = "inserting" /\ k.status = checks[m][s].status
  <2>1. checks[m][s] \in Check
    BY <1>t DEF GoodChecks, GoodCheck
  <2>2. /\ [checks[m][s] EXCEPT !.pc = "inserting", !.cfg = None].pc = "inserting"
        /\ [checks[m][s] EXCEPT !.pc = "inserting", !.cfg = None].status
             = checks[m][s].status
    BY <2>1 DEF Check
  <2> QED BY <2>2 DEF UpdateApplied
<1>3. \A n \in Monitors, t \in Slots :
        checks'[n][t] = IF n = m /\ t = s THEN k ELSE checks[n][t]
  BY <1>2, <1>t DEF Set, GoodChecks
<1>4. At(m, "inserting")'
  BY <1>2, <1>3 DEF At
<1>5. \A n \in Monitors \ {m} : At(n, "inserting")' = At(n, "inserting")
  BY <1>3 DEF At
<1>6. ASSUME m \notin asked, NEW t \in Slots, t # s
      PROVE  checks[m][t].pc # "inserting"
  BY <1>6 DEF FlightInv, CronSolo, InFlight, UpdateApplied
<1>7. StatusMatchesNewest'
  BY <1>u, <1>1, <1>4, <1>5 DEF StatusInv, StatusMatchesNewest, Live
<1>8. InsertCarriesLast'
  BY <1>u, <1>1, <1>2, <1>3, <1>6 DEF StatusInv, InsertCarriesLast, Live
<1>9. NewIsBare'
  BY <1>u, <1>1, <1>5 DEF StatusInv, NewIsBare
<1> QED BY <1>7, <1>8, <1>9 DEF StatusInv

\* The second statement, or its failure.
LEMMA InsertStep ==
    ASSUME TypeInv, FlightInv, StatusInv, NEW m \in Monitors, NEW s \in Slots,
           InsertApplied(m, s) \/ StatementFails(m, s)
    PROVE  StatusInv'
<1>t. GoodChecks /\ newest \in [Monitors -> CheckStatus \union {None}]
  BY TypeInvParts DEF TableOK
<1>u. UNCHANGED <<row, asked>>
  BY DEF InsertApplied, StatementFails
<1>k. PICK k : Set(m, s, k) /\ k.pc = "finishing"
  BY DEF InsertApplied, StatementFails, Leave, Idle
<1>1. \A n \in Monitors, t \in Slots :
        /\ checks'[n][t] = IF n = m /\ t = s THEN k ELSE checks[n][t]
        /\ k.pc = "finishing"
  BY <1>t, <1>k DEF Set, GoodChecks
<1>2. \A n \in Monitors : At(n, "inserting")' => At(n, "inserting")
  BY <1>1 DEF At
<1>3. \A n \in Monitors \ {m} : At(n, "inserting")' = At(n, "inserting")
  BY <1>1 DEF At
<1>4. InsertCarriesLast'
  BY <1>u, <1>1 DEF StatusInv, InsertCarriesLast, Live
<1>5. CASE InsertApplied(m, s)
  <2>1. /\ newest'[m] = checks[m][s].status
        /\ Live(m) /\ checks[m][s].pc = "inserting"
        /\ \A n \in Monitors \ {m} : /\ newest'[n] = newest[n]
                                     /\ n \in torn' <=> n \in torn
    BY <1>5, <1>t DEF InsertApplied
  <2>2. StatusMatchesNewest'
    BY <1>u, <1>3, <2>1
       DEF StatusInv, StatusMatchesNewest, InsertCarriesLast, Live
  <2>3. NewIsBare'
    BY <1>u, <1>2, <2>1 DEF StatusInv, NewIsBare, Live
  <2> QED BY <1>4, <2>2, <2>3 DEF StatusInv
<1>6. CASE StatementFails(m, s)
  <2>1. newest' = newest /\ torn \subseteq torn'
    BY <1>6 DEF StatementFails
  <2>2. At(m, "inserting") => m \in torn' \/ At(m, "inserting")'
    BY <1>1, <1>6 DEF At, StatementFails
  <2>3. StatusMatchesNewest'
    BY <1>u, <1>3, <2>1, <2>2 DEF StatusInv, StatusMatchesNewest, Live
  <2>4. NewIsBare'
    BY <1>u, <1>2, <2>1 DEF StatusInv, NewIsBare
  <2> QED BY <1>4, <2>3, <2>4 DEF StatusInv
<1> QED BY <1>5, <1>6

LEMMA CrashStatus == StatusInv /\ Crash => StatusInv'
<1> SUFFICES ASSUME StatusInv, Crash PROVE StatusInv'
  OBVIOUS
<1>1. \A m \in Monitors, s \in Slots : checks'[m][s].pc = "idle"
  BY DEF Crash, Idle
<1>2. \A m \in Monitors : Live(m)' = Live(m) /\ ~At(m, "inserting")'
  BY <1>1 DEF At, Live, Crash
<1>3. StatusMatchesNewest'
  BY <1>2 DEF Crash, StatusInv, StatusMatchesNewest
<1>4. InsertCarriesLast'
  BY <1>1 DEF InsertCarriesLast
<1>5. NewIsBare'
  BY <1>2 DEF Crash, StatusInv, NewIsBare
<1> QED BY <1>3, <1>4, <1>5 DEF StatusInv

LEMMA CalmCheck ==
    ASSUME TypeInv, StatusInv, NEW m \in Monitors, NEW s \in Slots,
           \/ CheckNow(m, s) \/ CheckNowStart(m, s) \/ ProbeSettles(m, s)
           \/ ProbeHangs(m, s) \/ ProbeThrows(m, s) \/ UpdateMisses(m, s)
           \/ InsertMisses(m, s) \/ Finish(m, s)
    PROVE  StatusInv'
<1>t. GoodChecks
  BY TypeInvParts
<1>u. UNCHANGED <<row, newest, torn>> /\ asked \subseteq asked'
  BY DEF CheckNow, CheckNowStart, ProbeSettles, ProbeHangs, ProbeThrows,
         UpdateMisses, InsertMisses, Finish
<1>1. checks[m][s].pc # "inserting" \/ ~Live(m)
  BY DEF CheckNow, CheckNowStart, ProbeSettles, ProbeHangs, ProbeThrows,
         UpdateMisses, InsertMisses, Finish, Free
<1>2. \E k : Set(m, s, k) /\ k.pc # "inserting"
  <2>1. CASE ProbeSettles(m, s)
    <3>1. PICK status :
            Set(m, s, [checks[m][s] EXCEPT !.pc = "updating", !.status = status])
      BY <2>1 DEF ProbeSettles
    <3>2. [checks[m][s] EXCEPT !.pc = "updating", !.status = status].pc = "updating"
      BY <1>t DEF GoodChecks, GoodCheck, Check
    <3> QED BY <3>1, <3>2
  <2>2. CASE ~ProbeSettles(m, s)
    BY <2>2 DEF CheckNow, CheckNowStart, ProbeHangs, ProbeThrows,
       UpdateMisses, InsertMisses, Finish, Leave, Idle, Probe
  <2> QED BY <2>1, <2>2
<1>3. PICK k : Set(m, s, k) /\ k.pc # "inserting"
  BY <1>2
<1>4. \A n \in Monitors, t \in Slots :
        checks'[n][t] = IF n = m /\ t = s THEN k ELSE checks[n][t]
  BY <1>3, <1>t DEF Set, GoodChecks
<1> QED BY <1>u, <1>1, <1>3, <1>4, CalmStep

LEMMA CalmCron ==
    ASSUME TypeInv, StatusInv, NEW c \in Crons, Query(c) \/ Dispatch(c)
    PROVE  StatusInv'
<1>u. UNCHANGED <<row, newest, torn, asked>>
  BY DEF Query, Dispatch
<1>1. CASE Query(c)
  BY <1>u, <1>1, CalmStep DEF Query
<1>2. CASE Dispatch(c)
  <2>t. GoodChecks
    BY TypeInvParts
  <2>1. PICK slot \in [Started(c) -> Slots] :
          /\ \A m \in Started(c) : slot[m] \in Free(m)
          /\ checks' = [m \in Monitors |->
                          IF m \in Started(c)
                          THEN [checks[m] EXCEPT ![slot[m]] = Probe(batch[c][m])]
                          ELSE checks[m]]
    BY <1>2 DEF Dispatch
  <2>p. \A m : Probe(batch[c][m]).pc = "probing"
    BY DEF Probe
  <2>2. \A m \in Monitors, s \in Slots :
          checks'[m][s] = IF m \in Started(c) /\ s = slot[m]
                          THEN Probe(batch[c][m]) ELSE checks[m][s]
    BY <2>1, <2>t DEF GoodChecks
  <2>3. \A m \in Started(c) : checks[m][slot[m]].pc # "inserting"
    BY <2>1 DEF Free
  <2>4. \A m \in Monitors, s \in Slots :
          \/ checks'[m][s] = checks[m][s]
          \/ /\ checks'[m][s].pc # "inserting"
             /\ checks[m][s].pc # "inserting" \/ ~Live(m)
    <3> SUFFICES ASSUME NEW m \in Monitors, NEW s \in Slots
                 PROVE  \/ checks'[m][s] = checks[m][s]
                        \/ /\ checks'[m][s].pc # "inserting"
                           /\ checks[m][s].pc # "inserting" \/ ~Live(m)
      OBVIOUS
    <3>1. CASE m \in Started(c) /\ s = slot[m]
      BY <2>2, <2>p, <2>3, <3>1
    <3>2. CASE ~(m \in Started(c) /\ s = slot[m])
      BY <2>2, <3>2
    <3> QED BY <3>1, <3>2
  <2> QED BY <1>u, <2>4, CalmStep
<1> QED BY <1>1, <1>2

LEMMA StatusStep ==
    TypeInv /\ FlightInv /\ StatusInv /\ [Next]_vars => StatusInv'
<1> SUFFICES ASSUME TypeInv, FlightInv, StatusInv, [Next]_vars PROVE StatusInv'
  OBVIOUS
<1>1. ASSUME NEW m \in Monitors, UserStep(m) \/ BecomeDue(m) PROVE StatusInv'
  BY <1>1, RowStep, CalmCheck DEF UserStep
<1>2. ASSUME NEW c \in Crons, Query(c) \/ Dispatch(c) PROVE StatusInv'
  BY <1>2, CalmCron
<1>3. ASSUME NEW m \in Monitors, NEW s \in Slots,
             CheckNowStart(m, s) \/ CheckStep(m, s) \/ StatementFails(m, s)
      PROVE  StatusInv'
  BY <1>3, CalmCheck, UpdateStep, InsertStep DEF CheckStep
<1>4. CASE Crash
  BY <1>4, CrashStatus
<1>5. CASE UNCHANGED vars
  BY <1>5, CalmStep DEF vars
<1> QED BY <1>1, <1>2, <1>3, <1>4, <1>5 DEF Next

(***************************************************************************)
(* No id is left in `running` without a check that will take it out: what  *)
(* the finally of checkMonitor promises, over crashes, failed statements   *)
(* and removed rows.                                                       *)
(***************************************************************************)
THEOREM NoIdLeaks == Spec => []RunningBacked
BY Exclusive, PTL

(***************************************************************************)
(* A monitor that is between checks shows the status of its newest result, *)
(* unless a fault fell between the two statements or check-now was used.   *)
(***************************************************************************)
THEOREM StatusShown == Spec => []StatusMatchesNewest
<1>1. Init => TypeInv /\ FlightInv /\ StatusInv
  BY InitType, InitFlight, InitStatus
<1>2. TypeInv /\ FlightInv /\ StatusInv /\ [Next]_vars
        => (TypeInv /\ FlightInv /\ StatusInv)'
  BY TypeStep, FlightStep, StatusStep
<1>3. StatusInv => StatusMatchesNewest
  BY DEF StatusInv
<1> QED BY <1>1, <1>2, <1>3, PTL DEF Spec
=============================================================================
