------------------------- MODULE CheckCadenceProofs -------------------------
(***************************************************************************)
(* How often a monitor is checked, for every period, jitter and latency    *)
(* that CadenceAssumption admits.                                          *)
(***************************************************************************)
EXTENDS CheckCadence, TLAPS

(***************************************************************************)
(* The invariant places the last stamp.  It fell at an offset between      *)
(* MinLatency and Jitter + MaxLatency of a period: of this one, of the one *)
(* before, or of the one before that, and only in the last case is a check *)
(* to come or under way.                                                   *)
(***************************************************************************)
Types ==
    /\ phase \in Nat /\ age \in Nat /\ elapsed \in Nat /\ gap \in Nat
    /\ fired \in BOOLEAN /\ stamped \in BOOLEAN /\ busy \in BOOLEAN

Timer ==
    /\ phase < Period
    /\ ~fired => phase <= Jitter
    /\ busy => /\ fired
               /\ elapsed <= phase /\ phase <= elapsed + Jitter
               /\ elapsed <= MaxLatency
    /\ ~busy => elapsed = 0

\* phase + back - age is the offset of the last stamp in its period, which
\* began `back` before this one did.
Since(back) ==
    /\ age + MinLatency <= phase + back
    /\ phase + back <= age + Jitter + MaxLatency

LastStamp ==
    /\ stamped => \/ Since(0) /\ ~busy /\ fired
                  \/ Since(Period) /\ ~busy
                  \/ Since(Period + Period) /\ (fired <=> busy)
    /\ ~stamped => \/ fired /\ ~busy /\ age <= phase
                   \/ ~fired /\ ~busy /\ age <= phase + Period
                   \/ busy /\ age <= phase + Period

GapOK ==
    gap # 0 => /\ gap + Jitter + MaxLatency >= 2 * Period + MinLatency
               /\ gap <= MaxGap

Inv == Types /\ Timer /\ LastStamp /\ GapOK

LEMMA InitInv == CadenceInit => Inv
<1> SUFFICES ASSUME CadenceInit PROVE Inv
  OBVIOUS
<1>1. phase \in Nat /\ phase < Period
  BY CadenceAssumption DEF CadenceInit
<1>2. Types /\ Timer
  BY <1>1 DEF CadenceInit, Types, Timer
<1>3. LastStamp
  BY <1>1 DEF CadenceInit, LastStamp
<1> QED BY <1>2, <1>3 DEF CadenceInit, Inv, GapOK

LEMMA AdvanceInv == Inv /\ Advance => Inv'
<1> SUFFICES ASSUME Inv, Advance PROVE Inv'
  OBVIOUS
<1> USE CadenceAssumption DEF Inv
<1>1. Types'
  BY DEF Types, Advance
<1>2. ~(busy /\ phase + 1 = Period)
  BY DEF Types, Timer, Advance
<1>3. Timer'
  BY <1>2 DEF Types, Timer, Advance
<1>4. LastStamp'
  <2>1. CASE phase + 1 = Period
    BY <1>2, <2>1 DEF Types, Timer, LastStamp, Since, Advance
  <2>2. CASE phase + 1 # Period
    BY <2>2 DEF Types, Timer, LastStamp, Since, Advance
  <2> QED BY <2>1, <2>2
<1>5. GapOK'
  BY DEF GapOK, MaxGap, Advance
<1> QED BY <1>1, <1>3, <1>4, <1>5

LEMMA TickInv == Inv /\ Tick => Inv'
<1> SUFFICES ASSUME Inv, Tick PROVE Inv'
  OBVIOUS
<1> USE CadenceAssumption DEF Inv
<1>1. Types' /\ Timer'
  BY DEF Types, Timer, Tick, Stale
<1>2. LastStamp'
  <2>1. CASE busy
    BY <2>1 DEF Types, Timer, LastStamp, Since, Tick
  <2>2. CASE ~busy /\ ~stamped
    BY <2>2 DEF Types, Timer, LastStamp, Since, Tick, Stale
  <2>3. CASE ~busy /\ stamped /\ Since(Period)
    <3>1. ~Stale
      BY <2>3 DEF Types, Timer, Since, Tick, Stale
    <3> QED BY <2>3, <3>1 DEF Types, LastStamp, Since, Tick
  <2>4. CASE ~busy /\ stamped /\ Since(Period + Period)
    <3>1. Stale
      BY <2>4 DEF Types, Timer, Since, Tick, Stale
    <3> QED BY <2>4, <3>1 DEF Types, LastStamp, Since, Tick
  <2> QED BY <2>1, <2>2, <2>3, <2>4 DEF LastStamp, Tick
<1>3. GapOK'
  BY DEF GapOK, MaxGap, Tick
<1> QED BY <1>1, <1>2, <1>3

LEMMA StampInv == Inv /\ Stamp => Inv'
<1> SUFFICES ASSUME Inv, Stamp PROVE Inv'
  OBVIOUS
<1> USE CadenceAssumption DEF Inv
<1>1. Types' /\ Timer'
  BY DEF Types, Timer, Stamp
<1>2. LastStamp'
  BY DEF Types, Timer, LastStamp, Since, Stamp
<1>3. GapOK'
  BY DEF Types, Timer, LastStamp, Since, GapOK, MaxGap, Stamp
<1> QED BY <1>1, <1>2, <1>3

LEMMA StepInv == Inv /\ [CadenceNext]_cadenceVars => Inv'
<1>1. Inv /\ UNCHANGED cadenceVars => Inv'
  BY DEF cadenceVars, Inv, Types, Timer, LastStamp, Since, GapOK, MaxGap
<1> QED BY <1>1, AdvanceInv, TickInv, StampInv DEF CadenceNext

LEMMA InvImplies == Inv => CadenceTypeOK /\ NotTooSeldom /\ EverySecondTick
<1> SUFFICES ASSUME Inv PROVE CadenceTypeOK /\ NotTooSeldom /\ EverySecondTick
  OBVIOUS
<1> USE CadenceAssumption DEF Inv
<1>1. age <= MaxGap
  BY DEF Types, Timer, LastStamp, Since, MaxGap
<1>2. gap <= MaxGap
  BY DEF Types, GapOK, MaxGap
<1>3. CadenceTypeOK
  BY <1>1, <1>2 DEF CadenceTypeOK, Types, Timer, MaxGap
<1>4. EverySecondTick
  BY DEF GapOK, EverySecondTick
<1> QED BY <1>1, <1>2, <1>3, <1>4 DEF NotTooSeldom

(***************************************************************************)
(* A monitor is stamped at every second tick, at gaps of two periods up to *)
(* jitter and latency, whatever its interval; none waits longer.           *)
(***************************************************************************)
THEOREM Cadence == CadenceSpec => [](CadenceTypeOK /\ NotTooSeldom /\ EverySecondTick)
BY InitInv, StepInv, InvImplies, PTL DEF CadenceSpec

(***************************************************************************)
(* A monitor that stays enabled is never left without a check for longer   *)
(* than two periods of the timer with its jitter and the slowest check.    *)
(***************************************************************************)
THEOREM Seldom == CadenceSpec => []NotTooSeldom
BY Cadence, PTL
=============================================================================
