------------------------------- MODULE SnmpTab -------------------------------
(***************************************************************************)
(* The SNMP tab of the discovery page: host and object are typed or taken  *)
(* from the catalogue, the object is asked for, or the device's system     *)
(* objects.  The catalogue's Test sets the object and asks a tenth of a    *)
(* second later, for whatever host and object the fields hold by then, and *)
(* its button is never off: its requests may overlap others.               *)
(***************************************************************************)
EXTENDS Naturals, FiniteSets

CONSTANTS Hosts, Oids, MaxTests     \* MaxTests: bound, tests awaited at once

VARIABLES
    snmpHost, snmpOid,
    timers,         \* Tests of the catalogue that have still to ask
    tests,          \* the questions awaited, and whether each is the last sent
    snmpResult,     \* the question whose answer is shown
    device, snmpDevInfo,    \* the host device-info is awaited for, and shown of
    lastAsked,      \* history: the question asked last, none if that failed
    overlapped      \* history: a Test of the catalogue was sent as another awaited

vars == <<snmpHost, snmpOid, timers, tests, snmpResult, device, snmpDevInfo,
          lastAsked, overlapped>>

NoHost == "no host"
NoQuestion == [host |-> NoHost, oid |-> "none"]
Question == [host |-> snmpHost, oid |-> snmpOid]

Init ==
    /\ snmpHost = NoHost /\ snmpOid \in Oids
    /\ timers = 0 /\ tests = {} /\ snmpResult = NoQuestion
    /\ device = NoHost /\ snmpDevInfo = NoHost
    /\ lastAsked = NoQuestion /\ overlapped = FALSE

TypeHost(h) ==
    /\ snmpHost' = h
    /\ UNCHANGED <<snmpOid, timers, tests, snmpResult, device, snmpDevInfo, lastAsked, overlapped>>

\* In the field, or with the catalogue's Select.
ChooseOid(o) ==
    /\ snmpOid' = o
    /\ UNCHANGED <<snmpHost, timers, tests, snmpResult, device, snmpDevInfo, lastAsked, overlapped>>

Awaited(question, current) == [of |-> question, current |-> current]
Send ==
    /\ tests' = {Awaited(t.of, FALSE) : t \in tests} \union {Awaited(Question, TRUE)}
    /\ lastAsked' = Question
    /\ UNCHANGED <<snmpHost, snmpOid, snmpResult, device, snmpDevInfo>>

\* Variant: the button is not off while an answer is awaited.
AskableAlways == snmpHost # NoHost
\* The button waits for the request sent last only.
Askable == snmpHost # NoHost /\ ~\E t \in tests : t.current
Ask ==
    /\ Askable /\ Send
    /\ overlapped' = (overlapped /\ tests # {})
    /\ UNCHANGED timers

\* Shown with a host only; the field may be emptied before it asks.
CatalogueTest(o) ==
    /\ snmpHost # NoHost /\ timers + Cardinality(tests) < MaxTests
    /\ snmpOid' = o /\ timers' = timers + 1
    /\ UNCHANGED <<snmpHost, tests, snmpResult, device, snmpDevInfo, lastAsked, overlapped>>

CatalogueAsks ==
    /\ timers > 0 /\ timers' = timers - 1
    /\ Send
    /\ overlapped' = (tests # {})

\* Each answer is shown as it arrives; a request that fails leaves the last.
Answered(t) ==
    /\ tests' = tests \ {t}
    /\ snmpResult' = t.of
    /\ UNCHANGED <<snmpHost, snmpOid, timers, device, snmpDevInfo, lastAsked, overlapped>>

Failed(t) ==
    /\ tests' = tests \ {t}
    /\ lastAsked' = IF t.current THEN NoQuestion ELSE lastAsked
    /\ UNCHANGED <<snmpHost, snmpOid, timers, snmpResult, device, snmpDevInfo, overlapped>>

AskDevice ==
    /\ snmpHost # NoHost /\ device = NoHost
    /\ device' = snmpHost
    /\ UNCHANGED <<snmpHost, snmpOid, timers, tests, snmpResult, snmpDevInfo, lastAsked, overlapped>>

\* The answer names its host, and is shown under it.
DeviceAnswered ==
    /\ device # NoHost /\ device' = NoHost
    /\ snmpDevInfo' \in {device, snmpDevInfo}       \* or it failed
    /\ UNCHANGED <<snmpHost, snmpOid, timers, tests, snmpResult, lastAsked, overlapped>>

Next ==
    \/ \E h \in Hosts \union {NoHost} : TypeHost(h)
    \/ \E o \in Oids : ChooseOid(o) \/ CatalogueTest(o)
    \/ Ask \/ CatalogueAsks \/ AskDevice \/ DeviceAnswered
    \/ \E t \in tests : Answered(t) \/ Failed(t)

Spec == Init /\ [][Next]_vars

-----------------------------------------------------------------------------
\* The answer shown is that of the question asked last: unless that one is
\* still awaited or has failed, or a Test of the catalogue overlapped another
\* request (then the later answer, of whichever question, stays).
LastAnswerShown ==
    (tests = {} /\ lastAsked # NoQuestion /\ ~overlapped) => snmpResult = lastAsked
=============================================================================
