------------------------------- MODULE Probes -------------------------------
(***************************************************************************)
(* The sockets of SNMP probes in the backend process: the monitors' UDP    *)
(* probes (one for version 3), the tester's UDP probe and its TCP one, side *)
(* by side on Node's one thread.  A probe is a promise that its first answer settles; the    *)
(* name of its host is looked up by send, and that ends whenever the       *)
(* resolver gives up, before or after the probe's own timer.               *)
(*                                                                         *)
(* close() on a closed UDP socket throws.  Thrown in a callback it stops   *)
(* the process, unless the callback catches it, as the monitors' do.       *)
(***************************************************************************)
CONSTANTS
    Slots           \* bound: probes at once

ProbeKinds == {"monitor", "v3", "tester", "tcp"}

VARIABLES
    probe,      \* the probes
    device,     \* the slots a device-info request waits for
    process,    \* up or down
    culprit     \* history: the probe that stopped the process

vars == <<probe, device, process, culprit>>

\* lookup: none, pending, found, failed.  timer: it is armed.
Unused == [kind |-> "none", lookup |-> "none", open |-> FALSE, timer |-> FALSE,
           answer |-> "none"]
Asked(kind) == [kind |-> kind, lookup |-> "pending", open |-> TRUE, timer |-> TRUE,
                answer |-> "none"]

ProbesTypeOK ==
    /\ probe \in [Slots -> [kind : ProbeKinds \union {"none"},
                            lookup : {"none", "pending", "found", "failed"},
                            open : BOOLEAN, timer : BOOLEAN,
                            answer : {"none", "up", "down", "timeout"}]]
    /\ device \subseteq Slots
    /\ process \in {"up", "down"}

Init ==
    /\ probe = [s \in Slots |-> Unused]
    /\ device = {} /\ process = "up" /\ culprit = Unused

-----------------------------------------------------------------------------
Settled(p, answer) ==
    [kind |-> p.kind, lookup |-> p.lookup, open |-> FALSE, timer |-> FALSE,
     answer |-> IF p.answer = "none" THEN answer ELSE p.answer]

\* Variant: only the timer's callback catches what close throws.
CatchesTimer(kind) == kind = "tcp"

\* destroy of a TCP socket may be called twice.
Catches(kind) == kind \in {"monitor", "v3", "tcp"}

\* clearTimeout, close, resolve: in every callback, in this order.  An
\* exception leaves the rest of it, and all of the process, undone.
Settle(s, p, answer) ==
    IF p.open \/ Catches(p.kind)
    THEN /\ probe' = [probe EXCEPT ![s] = Settled(p, answer)]
         /\ UNCHANGED <<device, process, culprit>>
    ELSE /\ probe' = [q \in Slots |-> Unused]
         /\ device' = {} /\ process' = "down" /\ culprit' = p

Up == process = "up"

\* The executor of the promise runs through to send without a break.
runUdpSnmpCheck(s) ==
    /\ probe[s] = Unused
    /\ probe' = [probe EXCEPT ![s] = Asked("monitor")]
    /\ UNCHANGED <<device, process, culprit>>

runSnmpV3Check(s) ==
    /\ probe[s] = Unused
    /\ probe' = [probe EXCEPT ![s] = Asked("v3")]
    /\ UNCHANGED <<device, process, culprit>>

\* A port out of range: send throws in the executor.  The promise is rejected,
\* checkSnmp reports down, and the socket waits for its timer; only version 3
\* catches it, and closes.
SendThrows(s) ==
    LET p == [Asked("monitor") EXCEPT !.lookup = "none"] IN
    /\ probe[s] = Unused
    /\ probe' \in {[probe EXCEPT ![s] = [p EXCEPT !.answer = "down"]],
                  [probe EXCEPT ![s] = Settled([p EXCEPT !.kind = "v3"], "down")]}
    /\ UNCHANGED <<device, process, culprit>>

checkSnmpUdp(s) ==
    /\ probe[s] = Unused
    /\ probe' = [probe EXCEPT ![s] = Asked("tester")]
    /\ UNCHANGED <<device, process, culprit>>

checkSnmpTcp(s) ==
    /\ probe[s] = Unused
    /\ probe' = [probe EXCEPT ![s] = Asked("tcp")]
    /\ UNCHANGED <<device, process, culprit>>

\* device-info: a tester's probe for each of its objects, at once.
deviceInfo(S) ==
    /\ device = {} /\ S # {} /\ \A s \in S : probe[s] = Unused
    /\ probe' = [s \in Slots |-> IF s \in S THEN Asked("tester") ELSE probe[s]]
    /\ device' = S
    /\ UNCHANGED <<process, culprit>>

\* All have answered.
DeviceAnswered ==
    /\ device # {} /\ \A s \in device : probe[s].answer # "none"
    /\ device' = {}
    /\ UNCHANGED <<probe, process, culprit>>

-----------------------------------------------------------------------------
\* The packet leaves if the socket is still there.
Found(s) ==
    /\ probe[s].lookup = "pending"
    /\ probe' = [probe EXCEPT ![s].lookup = "found"]
    /\ UNCHANGED <<device, process, culprit>>

\* send's callback is called with the error even if the socket was closed
\* meanwhile; a TCP socket destroyed meanwhile is told nothing.
LookupFails(s) ==
    LET p == [probe[s] EXCEPT !.lookup = "failed"] IN
    /\ probe[s].lookup = "pending"
    /\ IF p.kind = "tcp" /\ ~p.open
       THEN /\ probe' = [probe EXCEPT ![s] = p]
            /\ UNCHANGED <<device, process, culprit>>
       ELSE Settle(s, p, "down")

\* Any message is an answer, whatever it says; or the TCP connection is made.
OnMessage(s) ==
    /\ probe[s].open /\ probe[s].lookup = "found"
    /\ Settle(s, probe[s], "up")

OnError(s) ==
    /\ probe[s].open /\ probe[s].lookup = "found"
    /\ Settle(s, probe[s], "down")

OnTimeout(s) ==
    /\ probe[s].timer
    /\ Settle(s, probe[s], IF probe[s].kind \in {"monitor", "v3"} THEN "timeout" ELSE "down")

\* Nothing refers to it any more.
Over(s) ==
    /\ probe[s].answer # "none" /\ ~probe[s].open /\ probe[s].lookup # "pending"
    /\ s \notin device
    /\ probe' = [probe EXCEPT ![s] = Unused]
    /\ UNCHANGED <<device, process, culprit>>

Restart ==
    /\ process = "down" /\ process' = "up"
    /\ UNCHANGED <<probe, device, culprit>>

Next ==
    \/ /\ Up
       /\ \/ DeviceAnswered
          \/ \E S \in SUBSET Slots : deviceInfo(S)
          \/ \E s \in Slots :
                \/ runUdpSnmpCheck(s) \/ runSnmpV3Check(s) \/ SendThrows(s)
                \/ checkSnmpUdp(s) \/ checkSnmpTcp(s)
                \/ Found(s) \/ LookupFails(s) \/ OnMessage(s) \/ OnError(s)
                \/ OnTimeout(s) \/ Over(s)
    \/ Restart

Spec == Init /\ [][Next]_vars

-----------------------------------------------------------------------------
\* A probe never outlives its timer with an open socket, nor waits for an
\* answer without one; and no probe of a monitor, however its lookup, its
\* answer and its timer fall together, can stop the process.  A tester's can,
\* in one way: its timer closed the socket and then the lookup failed.
ProbesContained ==
    /\ \A s \in Slots : /\ probe[s].open => probe[s].timer
                        /\ probe[s].kind # "none" /\ ~probe[s].open =>
                              probe[s].answer # "none"
    /\ culprit # Unused =>
          /\ culprit.kind = "tester" /\ culprit.lookup = "failed"
          /\ culprit.answer = "down"
=============================================================================
