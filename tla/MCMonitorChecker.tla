-------------------------- MODULE MCMonitorChecker --------------------------
(***************************************************************************)
(* Instances of MonitorChecker for TLC.                                    *)
(***************************************************************************)
EXTENDS MonitorChecker, TLC

CONSTANTS web, host, broken

\* An http configuration, which may hang, an SNMP agent and an invalid URL.
MCTypeOf == [c \in Configs |-> IF c = host THEN "snmp" ELSE "http"]

\* The same with a second target that has the fewest outcomes.
MCLiveTypeOf == [c \in Configs |-> IF c = host THEN "dns" ELSE "http"]

Symmetry == Permutations(Slots) \union Permutations(Crons)
=============================================================================
