----------------------------- MODULE Collectors -----------------------------
(***************************************************************************)
(* One collection of the agent: a goroutine per registered collector, the  *)
(* channel they answer on, the goroutine that closes it when all are done, *)
(* and the caller, which ranges over the channel until it is closed.       *)
(*                                                                         *)
(* The channel has room for an answer of every collector, so no send       *)
(* waits.  A panic in a collector is an error.  Commands (docker,          *)
(* journalctl) are killed when the context of 25 seconds is done; a        *)
(* reading of a file system that does not answer is not.                   *)
(*                                                                         *)
(* Points are named by the group of series they belong to; values, tags    *)
(* and time stamps are left out (the rates are in NetRate, the files in    *)
(* AgentDelivery).                                                         *)
(***************************************************************************)
EXTENDS Naturals, FiniteSets, Sequences

CONSTANT MaxWorkers     \* bound: collectors that are followed at once

ASSUME CollectorsAssumption == MaxWorkers \in Nat \ {0}

VARIABLES
    registered,     \* the collectors that are followed
    caller,         \* CollectAll is running, or has returned
    worker,         \* the goroutine of each collector and its answer
    ch,             \* the buffered channel
    closed,         \* the channel is closed
    all,            \* collectors whose points were appended, in order
    expired,        \* the context's 25 seconds are over
    stuck           \* a file system does not answer

vars == <<registered, caller, worker, ch, closed, all, expired, stuck>>

-----------------------------------------------------------------------------
(***************************************************************************)
(* What each collector can answer: an error, or some groups of points.     *)
(***************************************************************************)
Failed == [err |-> TRUE, pts |-> {}]
Read(groups) == [err |-> FALSE, pts |-> groups]
SomeOf(groups) == {Read(g) : g \in SUBSET groups}

Cpu == {Failed} \union SomeOf({"cpu.usage", "cpu.count", "cpu.times"})
Memory == {Failed, Read({"mem"}), Read({"mem", "mem.swap"})}
Disk == {Failed} \union SomeOf({"disk"})
Load == SomeOf({"load", "system.uptime"})
Network == {Failed} \union SomeOf({"net.total"})
             \union {Read({"net.total", "net.rate"})}
Processes == {Failed, Read({"process"})}
Docker == {Read({}), Read({"docker"}), Read({"docker", "docker.cpu"})}
Syslog == {Read({}), Read({"syslog"}), Read({"syslog", "systemd"})}
FileWatch == {Read({"filewatch"})}

Collect == [cpu |-> Cpu, memory |-> Memory, disk |-> Disk, load |-> Load,
            network |-> Network, processes |-> Processes, docker |-> Docker,
            syslog |-> Syslog, filewatch |-> FileWatch]

Workers == DOMAIN Collect
Toggled == {"cpu", "memory", "disk", "load", "network"}
Commands == {"docker", "syslog"}
Answers == {Failed} \union UNION {Collect[w] : w \in Workers}

Absent == [pc |-> "absent", answer |-> Failed]

TypeOK ==
    /\ registered \subseteq Workers
    /\ caller \in {"starting", "ranging", "returned"}
    /\ worker \in [Workers -> [pc : {"absent", "running", "answered", "sent",
                                     "done", "dead"},
                               answer : Answers]]
    /\ ch \in Seq(Workers) /\ Len(ch) <= Cardinality(registered)
    /\ closed \in BOOLEAN
    /\ all \in Seq(Workers)
    /\ expired \in BOOLEAN
    /\ stuck \in BOOLEAN

Init ==
    /\ registered = {}
    /\ caller = "starting"
    /\ worker = [w \in Workers |-> Absent]
    /\ ch = <<>>
    /\ closed = FALSE
    /\ all = <<>>
    /\ expired = FALSE
    /\ stuck = FALSE

\* buildRegistry: five collectors as the configuration says, four always.
Configure(toggles) ==
    /\ caller = "starting"
    /\ registered' \in {r \in SUBSET (toggles \union (Workers \ Toggled)) :
                           Cardinality(r) \in 1 .. MaxWorkers}
    /\ caller' = "returned"
    /\ UNCHANGED <<worker, ch, closed, all, expired, stuck>>

-----------------------------------------------------------------------------
Step(w, from, to) ==
    /\ worker[w].pc = from
    /\ worker' = [worker EXCEPT ![w].pc = to]

Settle(w, answer) ==
    /\ worker[w].pc = "running"
    /\ worker' = [worker EXCEPT ![w] = [pc |-> "answered", answer |-> answer]]
    /\ UNCHANGED <<registered, caller, ch, closed, all, expired, stuck>>

\* The tick of the scheduler, once the last collection has been sent.
Begin ==
    /\ caller = "returned"
    /\ caller' = "ranging"
    /\ worker' = [w \in Workers |-> IF w \in registered
                                    THEN [Absent EXCEPT !.pc = "running"]
                                    ELSE Absent]
    /\ ch' = <<>>
    /\ closed' = FALSE
    /\ all' = <<>>
    /\ expired' = FALSE
    /\ UNCHANGED <<registered, stuck>>

Blocked(w) == w = "disk" /\ stuck

Answer(w) == ~Blocked(w) /\ \E answer \in Collect[w] : Settle(w, answer)

\* Variant: the panic ends the goroutine before it answers.
RecoverNot(w) ==
    /\ Step(w, "running", "dead")
    /\ UNCHANGED <<registered, caller, ch, closed, all, expired, stuck>>

\* safeCollect turns a panic into an error.
Recover(w) == Settle(w, Failed)

Panic(w) == ~Blocked(w) /\ Recover(w)

Send(w) ==
    /\ ~closed
    /\ Step(w, "answered", "sent")
    /\ ch' = Append(ch, w)
    /\ UNCHANGED <<registered, caller, closed, all, expired, stuck>>

Done(w) ==
    /\ Step(w, "sent", "done")
    /\ UNCHANGED <<registered, caller, ch, closed, all, expired, stuck>>

\* wg.Wait.
AllDone == \A w \in registered : worker[w].pc = "done"

Close ==
    /\ caller = "ranging"
    /\ ~closed
    /\ AllDone
    /\ closed' = TRUE
    /\ UNCHANGED <<registered, caller, worker, ch, all, expired, stuck>>

\* Variant: the points of an answer with an error are appended too.
KeptLax(answer) == TRUE

Kept(answer) == ~answer.err

Receive ==
    /\ caller = "ranging"
    /\ ch # <<>>
    /\ ch' = Tail(ch)
    /\ all' = IF Kept(worker[Head(ch)].answer) THEN Append(all, Head(ch)) ELSE all
    /\ UNCHANGED <<registered, caller, worker, closed, expired, stuck>>

Return ==
    /\ caller = "ranging"
    /\ closed
    /\ ch = <<>>
    /\ caller' = "returned"
    /\ UNCHANGED <<registered, worker, ch, closed, all, expired, stuck>>

Expire ==
    /\ caller = "ranging"
    /\ ~expired
    /\ expired' = TRUE
    /\ UNCHANGED <<registered, caller, worker, ch, closed, all, stuck>>

\* The host: a file system stops answering (a mount whose server is gone),
\* or answers again.
Freeze ==
    /\ stuck' = ~stuck
    /\ UNCHANGED <<registered, caller, worker, ch, closed, all, expired>>

-----------------------------------------------------------------------------
Next ==
    \/ \E toggles \in SUBSET Toggled : Configure(toggles)
    \/ Begin \/ Close \/ Receive \/ Return \/ Expire \/ Freeze
    \/ \E w \in Workers : Answer(w) \/ Panic(w) \/ Send(w) \/ Done(w)

Spec == Init /\ [][Next]_vars

(***************************************************************************)
(* Goroutines run and the context expires.  A command ends by itself or,   *)
(* once the context is done, because it is killed; the other readings end. *)
(***************************************************************************)
Ends(w) == (w \in Commands => expired) /\ (Answer(w) \/ Panic(w))

Progress == Close \/ Receive \/ Return

-----------------------------------------------------------------------------
(***************************************************************************)
(* CollectAll implements Gather: it returns when every collector has       *)
(* answered, with the points of each successful one exactly once.          *)
(***************************************************************************)
Verdict(w) == CASE worker[w].pc = "absent" -> "none"
                [] worker[w].pc \in {"running", "dead"} -> "open"
                [] OTHER -> IF worker[w].answer.err THEN "bad" ELSE "good"

Taken(w) == Cardinality({i \in DOMAIN all : all[i] = w})

Gathered == INSTANCE Gather WITH
    Workers <- Workers,
    open    <- caller = "ranging",
    verdict <- [w \in Workers |-> Verdict(w)],
    parcel  <- [w \in Workers |-> Taken(w)]

GatherSpec == Gathered!Spec

(***************************************************************************)
(* A collection ends, whatever panics, fails or runs too long, unless a    *)
(* file system does not answer: for that one the context is no help, and   *)
(* the agent's only goroutine waits with it.                               *)
(***************************************************************************)
RoundEnds == caller = "ranging" ~> (caller = "returned" \/ stuck)
=============================================================================
