---------------------------- MODULE CheckCadence ----------------------------
(***************************************************************************)
(* When runDueChecks checks a monitor: the clock that MonitorChecker       *)
(* leaves out.  One active monitor that nobody checks by hand.             *)
(*                                                                         *)
(* A cron timer fires once per Period, at most Jitter late.  The query it  *)
(* makes selects the monitor if its lastCheckedAt is at least Threshold    *)
(* old; the check stamps lastCheckedAt when it ENDS, between MinLatency    *)
(* and MaxLatency after the timer fired.  The columns intervalSec and      *)
(* nextCheckAt have no part in it.                                         *)
(*                                                                         *)
(* Times are ages and offsets, so that the model stays finite.  (MCChecker *)
(* sets this clock beside MonitorChecker: hence the names.)                *)
(***************************************************************************)
EXTENDS Naturals

CONSTANTS
    Period,         \* of the timer, 30 s
    Threshold,      \* the age that makes a monitor due, 30 s
    Jitter,         \* how late the timer may fire
    MinLatency, MaxLatency,     \* from the timer to the stamp
    Interval        \* the monitor's intervalSec: what its user asked for

ASSUME CadenceAssumption ==
    /\ Period \in Nat \ {0} /\ Threshold = Period
    /\ Jitter \in Nat /\ MinLatency \in Nat /\ MaxLatency \in Nat
    /\ Jitter < MinLatency /\ MinLatency <= MaxLatency
    /\ MaxLatency + Jitter < Period

VARIABLES
    phase,      \* time since the timer was to fire
    fired,      \* whether it has fired in this period
    stamped,    \* lastCheckedAt is not null
    age,        \* time since lastCheckedAt, or since the row was created
    busy,       \* whether a check is in flight
    elapsed,    \* time since it began
    gap         \* history: from the last stamp but one to the last, or 0

cadenceVars == <<phase, fired, stamped, age, busy, elapsed, gap>>

\* Longest time between two stamps.
MaxGap == 2 * Period + Jitter + MaxLatency

CadenceTypeOK ==
    /\ phase \in 0 .. Period - 1
    /\ fired \in BOOLEAN
    /\ stamped \in BOOLEAN
    /\ age \in 0 .. MaxGap
    /\ busy \in BOOLEAN
    /\ elapsed \in 0 .. MaxLatency
    /\ gap \in 0 .. MaxGap

\* The row is created at any time after the timer has fired.
CadenceInit ==
    /\ phase \in 0 .. Period - 1
    /\ fired = TRUE
    /\ stamped = FALSE
    /\ age = 0
    /\ busy = FALSE
    /\ elapsed = 0
    /\ gap = 0

\* Time waits for a timer that is as late as it can be, and for a check
\* that has taken as long as it can.
Advance ==
    /\ ~fired => phase < Jitter
    /\ busy => elapsed < MaxLatency
    /\ phase' = IF phase + 1 = Period THEN 0 ELSE phase + 1
    /\ fired' = (fired /\ phase + 1 # Period)
    /\ age' = age + 1
    /\ elapsed' = IF busy THEN elapsed + 1 ELSE 0
    /\ UNCHANGED <<stamped, busy, gap>>

\* Variant: the threshold is applied twice.
StaleLate == ~stamped \/ age >= 2 * Threshold

Stale == ~stamped \/ age >= Threshold

\* runDueChecks; `running` keeps a second check out.
Tick ==
    /\ ~fired
    /\ fired' = TRUE
    /\ busy' = (busy \/ Stale)
    /\ elapsed' = IF busy THEN elapsed ELSE 0
    /\ UNCHANGED <<phase, stamped, age, gap>>

\* Variant: the stamp is the time the check began.
StampStart ==
    /\ busy
    /\ elapsed >= MinLatency
    /\ busy' = FALSE
    /\ stamped' = TRUE
    /\ gap' = IF stamped THEN age - elapsed ELSE 0
    /\ age' = elapsed
    /\ elapsed' = 0
    /\ UNCHANGED <<phase, fired>>

\* monitor.update with lastCheckedAt: new Date().
Stamp ==
    /\ busy
    /\ elapsed >= MinLatency
    /\ busy' = FALSE
    /\ stamped' = TRUE
    /\ gap' = IF stamped THEN age ELSE 0
    /\ age' = 0
    /\ elapsed' = 0
    /\ UNCHANGED <<phase, fired>>

CadenceNext == Advance \/ Tick \/ Stamp

CadenceSpec == CadenceInit /\ [][CadenceNext]_cadenceVars

-----------------------------------------------------------------------------
(***************************************************************************)
(* No monitor goes unchecked for longer than two periods, a late timer and *)
(* a slow check.                                                           *)
(***************************************************************************)
NotTooSeldom == age <= MaxGap /\ gap <= MaxGap

(***************************************************************************)
(* A check ends after its timer fired, so at the next tick lastCheckedAt   *)
(* is less than Threshold old and the monitor is not due: it is checked at *)
(* every second tick.  The gap is two periods, up to jitter and latency.   *)
(***************************************************************************)
EverySecondTick ==
    gap # 0 => gap + Jitter + MaxLatency >= 2 * Period + MinLatency

(***************************************************************************)
(* What the form for a monitor promises: an interval in seconds after      *)
(* which it is checked again.                                              *)
(***************************************************************************)
IntervalKept == age <= Interval + Jitter + MaxLatency
=============================================================================
