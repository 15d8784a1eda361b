------------------------------ MODULE NetRate -------------------------------
(***************************************************************************)
(* The network collector: byte counters of the interfaces, unsigned and of *)
(* a fixed width, and the rates it computes from the previous sample of an *)
(* interface and the time of the previous collection of all.               *)
(*                                                                         *)
(* One counter stands for the pair (sent, received), which are treated the *)
(* same.  moved, age, odd and truth are history: what really happened.     *)
(***************************************************************************)
EXTENDS Integers

CONSTANTS
    Ifaces,         \* the interfaces that are included
    Width,          \* bits of a counter (64 in the code)
    MaxBurst,       \* bound: bytes of one transfer
    MaxAge          \* bound: ticks between two collections

Modulus == 2 ^ Width
Unknown == -1

VARIABLES
    counter,        \* the host's counters
    present,        \* the interfaces that exist
    prevSample,     \* the collector's previous sample of each, or Unknown
    since,          \* now - prevTime in ticks, or Unknown (prevTime is zero)
    rate,           \* the last collection's rate of each: bytes over ticks
    moved,          \* bytes since the last successful collection
    age,            \* ticks since then
    odd,            \* interfaces whose counter restarted since then
    truth           \* what the last rates should be; NoRate where odd

host == <<counter, present>>
memory == <<prevSample, since, rate>>
history == <<moved, age, odd, truth>>
vars == <<host, memory, history>>

NoRate == [bytes |-> Unknown, over |-> 1]

TypeOK ==
    /\ counter \in [Ifaces -> 0 .. Modulus - 1]
    /\ present \subseteq Ifaces
    /\ prevSample \in [Ifaces -> {Unknown} \union 0 .. Modulus - 1]
    /\ since \in {Unknown} \union 0 .. MaxAge
    /\ rate \in [Ifaces -> [bytes : {Unknown} \union 0 .. Modulus - 1,
                            over : 1 .. MaxAge + 1]]
    /\ moved \in [Ifaces -> 0 .. Modulus - 1]
    /\ age \in 0 .. MaxAge
    /\ odd \subseteq Ifaces
    /\ truth \in [Ifaces -> [bytes : {Unknown} \union 0 .. Modulus - 1,
                             over : 1 .. MaxAge + 1]]

Init ==
    /\ counter = [i \in Ifaces |-> 0]
    /\ present = Ifaces
    /\ prevSample = [i \in Ifaces |-> Unknown]
    /\ since = Unknown
    /\ rate = [i \in Ifaces |-> NoRate]
    /\ moved = [i \in Ifaces |-> 0]
    /\ age = 0
    /\ odd = {}
    /\ truth = [i \in Ifaces |-> NoRate]

-----------------------------------------------------------------------------
(***************************************************************************)
(* The host.  Between two collections an interface moves fewer bytes than  *)
(* a counter can tell apart: 2^64 in the code.                             *)
(***************************************************************************)
Transfer(i, n) ==
    /\ i \in present
    /\ moved[i] + n < Modulus
    /\ counter' = [counter EXCEPT ![i] = (@ + n) % Modulus]
    /\ moved' = [moved EXCEPT ![i] = @ + n]
    /\ UNCHANGED <<present, memory, age, odd, truth>>

\* The driver starts again from zero.
Reset(i) ==
    /\ i \in present
    /\ counter' = [counter EXCEPT ![i] = 0]
    /\ odd' = odd \union {i}
    /\ UNCHANGED <<present, memory, moved, age, truth>>

Unplug(i) ==
    /\ i \in present
    /\ present' = present \ {i}
    /\ UNCHANGED <<counter, memory, history>>

Plug(i) ==
    /\ i \notin present
    /\ present' = present \union {i}
    /\ counter' = [counter EXCEPT ![i] = 0]
    /\ odd' = odd \union {i}
    /\ UNCHANGED <<memory, moved, age, truth>>

Tick ==
    /\ age < MaxAge
    /\ age' = age + 1
    /\ since' = IF since = Unknown THEN Unknown ELSE since + 1
    /\ UNCHANGED <<host, prevSample, rate, moved, odd, truth>>

-----------------------------------------------------------------------------
AtLeastOne(n) == IF n <= 0 THEN 1 ELSE n

\* Variant: signed arithmetic, where a counter that wrapped gives less than 0.
DifferenceSigned(i) == counter[i] - prevSample[i]

Difference(i) == (counter[i] - prevSample[i]) % Modulus

Sampled(i) == i \in present /\ prevSample[i] # Unknown /\ since # Unknown

Collect ==
    /\ rate' = [i \in Ifaces |->
                  IF Sampled(i)
                  THEN [bytes |-> Difference(i), over |-> AtLeastOne(since)]
                  ELSE NoRate]
    /\ truth' = [i \in Ifaces |->
                  IF i \in odd THEN NoRate
                  ELSE [bytes |-> moved[i], over |-> AtLeastOne(age)]]
    /\ prevSample' = [i \in Ifaces |-> IF i \in present THEN counter[i]
                                       ELSE prevSample[i]]
    /\ since' = 0
    /\ age' = 0
    /\ moved' = [i \in Ifaces |-> 0]
    /\ odd' = odd \ present
    /\ UNCHANGED host

\* Variant: prevTime is stamped before the counters are read.
CollectFailsStamped ==
    /\ since' = IF since = Unknown THEN Unknown ELSE 0
    /\ rate' = [i \in Ifaces |-> NoRate]
    /\ UNCHANGED <<host, prevSample, history>>

\* IOCounters fails: no points, and nothing is remembered.
CollectFails ==
    /\ rate' = [i \in Ifaces |-> NoRate]
    /\ UNCHANGED <<host, prevSample, since, history>>

Next ==
    \/ Tick \/ Collect \/ CollectFails
    \/ \E i \in Ifaces : Reset(i) \/ Unplug(i) \/ Plug(i)
    \/ \E i \in Ifaces, n \in 1 .. MaxBurst : Transfer(i, n)

Spec == Init /\ [][Next]_vars

-----------------------------------------------------------------------------
(***************************************************************************)
(* A published rate is what the interface moved since the last successful  *)
(* collection, over the time since then, also when its counter wrapped     *)
(* around or collections failed in between.  The exception is a counter    *)
(* that restarted: the difference is unsigned, so the code's test for a    *)
(* rate below zero never keeps such a rate back.                           *)
(***************************************************************************)
RateTrue ==
    \A i \in Ifaces :
        rate[i] # NoRate /\ truth[i] # NoRate => rate[i] = truth[i]
=============================================================================
