--------------------------- MODULE AgentDelivery ---------------------------
(***************************************************************************)
(* The agent (scheduler, sender, the file watcher among its collectors)    *)
(* and the ingest endpoints of the backend it posts to.                    *)
(*                                                                         *)
(* The agent is one goroutine: it collects or sends a heartbeat, and while *)
(* a post is retried nothing else happens.  The tickers' channels have     *)
(* room for one tick.  A connection is one POST: the server goes on with a *)
(* request whose client has given up, so connections that nobody waits for *)
(* may still store their batch.                                            *)
(***************************************************************************)
EXTENDS Naturals, FiniteSets

CONSTANTS
    Files,          \* the watched files
    Contents,       \* what may be in a file: values of its hash
    Batches,        \* bound: batches that are remembered
    Conns,          \* bound: requests in progress
    MaxAttempts,    \* retry_max_attempts
    MaxFaults       \* bound: lost connections, errors, timeouts, restarts

Unseen == "unseen"
NoBatch == "none"

ASSUME AgentAssumption ==
    /\ MaxAttempts \in Nat \ {0}
    /\ MaxFaults \in Nat
    /\ IsFiniteSet(Conns)
    /\ Unseen \notin Contents
    /\ NoBatch \notin Batches

VARIABLES
    file,           \* the watched files: what they contain, if readable
    fileHashes,     \* the agent's map from path to previous hash
    agent,          \* where the goroutine is
    ticks,          \* the tickers' channels that hold a tick
    cancelled,      \* the root context is done
    conns,          \* the requests on the network or in the server
    authorized,     \* the agent's key is the asset's
    changed,        \* files each batch reports as changed
    log,            \* what the agent logged about each batch
    stored,         \* copies of each batch in the Metric table
    seen,           \* lastSeenAt is at most 120 s ago
    faults,
    touched         \* history: files edited since the agent last read them

memory == <<fileHashes, changed, touched>>
vars == <<file, memory, agent, ticks, cancelled, conns, authorized, log,
          stored, seen, faults>>

-----------------------------------------------------------------------------
Kind == {"collect", "heartbeat"}
Reply == {"ok", "permanent", "transient"}
Stage == {"none", "sent", "admitted", "stored"} \union Reply

Agent == [pc       : {"ready", "trying", "waiting", "backoff", "stopped"},
          phase    : Kind \union {"loop"},   \* Run's two calls, then select
          kind     : Kind,
          batch    : Batches \union {NoBatch},
          attempt  : 0 .. MaxAttempts,
          expired  : BOOLEAN]

Conn == [stage : Stage, kind : Kind, batch : Batches \union {NoBatch},
         awaited : BOOLEAN]

Started == [pc |-> "ready", phase |-> "collect", kind |-> "collect",
            batch |-> NoBatch, attempt |-> 0, expired |-> FALSE]
Closed == [stage |-> "none", kind |-> "collect", batch |-> NoBatch,
           awaited |-> FALSE]

TypeOK ==
    /\ file \in [Files -> [content : Contents, readable : BOOLEAN]]
    /\ fileHashes \in [Files -> Contents \union {Unseen}]
    /\ agent \in Agent
    /\ ticks \subseteq Kind
    /\ cancelled \in BOOLEAN
    /\ conns \in [Conns -> Conn]
    /\ authorized \in BOOLEAN
    /\ changed \in [Batches -> SUBSET Files]
    /\ log \in [Batches -> {"unused", "pending", "delivered", "failed"}]
    /\ stored \in [Batches -> Nat]
    /\ seen \in BOOLEAN
    /\ faults \in 0 .. MaxFaults
    /\ touched \subseteq Files

Init ==
    /\ file \in [Files -> [content : Contents, readable : {TRUE}]]
    /\ fileHashes = [f \in Files |-> Unseen]
    /\ agent = Started
    /\ ticks = {}
    /\ cancelled = FALSE
    /\ conns = [c \in Conns |-> Closed]
    /\ authorized = TRUE
    /\ changed = [b \in Batches |-> {}]
    /\ log = [b \in Batches |-> "unused"]
    /\ stored = [b \in Batches |-> 0]
    /\ seen = FALSE
    /\ faults = 0
    /\ touched = {}

Fault == faults < MaxFaults /\ faults' = faults + 1

-----------------------------------------------------------------------------
(***************************************************************************)
(* The host and the clock.                                                 *)
(***************************************************************************)
Edit(f, x) ==
    /\ file[f].content # x
    /\ file' = [file EXCEPT ![f].content = x]
    /\ touched' = touched \union {f}
    /\ UNCHANGED <<fileHashes, changed, agent, ticks, cancelled, conns,
                   authorized, log, stored, seen, faults>>

\* A file disappears or cannot be opened, or can be again.
Toggle(f) ==
    /\ file' = [file EXCEPT ![f].readable = ~@]
    /\ UNCHANGED <<memory, agent, ticks, cancelled, conns, authorized, log,
                   stored, seen, faults>>

Tick(kind) ==
    /\ agent.pc # "stopped"
    /\ agent.phase = "loop"
    /\ kind \notin ticks
    /\ ticks' = ticks \union {kind}
    /\ UNCHANGED <<file, memory, agent, cancelled, conns, authorized, log,
                   stored, seen, faults>>

Age ==
    /\ seen
    /\ seen' = FALSE
    /\ UNCHANGED <<file, memory, agent, ticks, cancelled, conns, authorized,
                   log, stored, faults>>

\* SIGTERM or SIGINT.
Cancel ==
    /\ agent.pc # "stopped"
    /\ ~cancelled
    /\ cancelled' = TRUE
    /\ UNCHANGED <<file, memory, agent, ticks, conns, authorized, log, stored,
                   seen, faults>>

\* The user generates a new key for the asset (generateAgentToken).
NewKey ==
    /\ authorized
    /\ authorized' = FALSE
    /\ UNCHANGED <<file, memory, agent, ticks, cancelled, conns, log, stored,
                   seen, faults>>

-----------------------------------------------------------------------------
(***************************************************************************)
(* The file watcher.  A file that cannot be read keeps its previous hash.  *)
(***************************************************************************)
\* Variant: a file that cannot be read is forgotten as an empty one.
HashesForgetful ==
    [f \in Files |-> IF file[f].readable THEN file[f].content ELSE ""]

Hashes ==
    [f \in Files |-> IF file[f].readable THEN file[f].content ELSE fileHashes[f]]

Changed == {f \in Files : /\ file[f].readable
                          /\ fileHashes[f] # Unseen
                          /\ fileHashes[f] # file[f].content}

(***************************************************************************)
(* Run: collect and heartbeat once, then whatever select chooses.          *)
(***************************************************************************)
Turn(kind) ==
    /\ agent.pc = "ready"
    /\ agent.phase = kind \/ (agent.phase = "loop" /\ kind \in ticks)
    /\ ticks' = IF agent.phase = "loop" THEN ticks \ {kind} ELSE ticks

Begin(kind, b) ==
    agent' = [pc |-> "trying", phase |-> agent.phase, kind |-> kind,
              batch |-> b, attempt |-> 1, expired |-> FALSE]

\* The file watcher always has points: a batch is never empty.
Collect(b) ==
    /\ Turn("collect")
    /\ log[b] # "pending"
    /\ \A c \in Conns : conns[c].batch # b
    /\ Begin("collect", b)
    /\ fileHashes' = Hashes
    /\ changed' = [changed EXCEPT ![b] = Changed]
    /\ touched' = {f \in touched : ~file[f].readable}
    /\ log' = [log EXCEPT ![b] = "pending"]
    /\ stored' = [stored EXCEPT ![b] = 0]
    /\ UNCHANGED <<file, cancelled, conns, authorized, seen, faults>>

Heartbeat ==
    /\ Turn("heartbeat")
    /\ Begin("heartbeat", NoBatch)
    /\ UNCHANGED <<file, memory, cancelled, conns, authorized, log, stored,
                   seen, faults>>

(***************************************************************************)
(* The process ends: its requests are nobody's, its batch is not logged.   *)
(***************************************************************************)
Die ==
    /\ ticks' = {}
    /\ log' = [b \in Batches |-> IF log[b] = "pending" THEN "failed" ELSE log[b]]
    /\ conns' = [c \in Conns |-> [conns[c] EXCEPT !.awaited = FALSE]]

(***************************************************************************)
(* select sees that the context is done, or main's timer exits ten seconds *)
(* after the signal wherever the goroutine is.                             *)
(***************************************************************************)
Stop ==
    /\ cancelled
    /\ agent.pc # "stopped"
    /\ agent' = [Started EXCEPT !.pc = "stopped"]
    /\ Die
    /\ UNCHANGED <<file, memory, cancelled, authorized, stored, seen, faults>>

-----------------------------------------------------------------------------
(***************************************************************************)
(* postWithRetry.                                                          *)
(***************************************************************************)
CtxDone == cancelled \/ agent.expired

\* What Run does after this post: its second call, or select.
Following == IF agent.phase = "collect" THEN "heartbeat" ELSE "loop"

\* Variant: the agent gives up for good when a post has failed.
ReturnFatal(result) ==
    /\ agent' = [Started EXCEPT
                   !.pc = IF result = "failed" THEN "stopped" ELSE "ready",
                   !.phase = Following]
    /\ log' = IF agent.kind = "heartbeat" THEN log
              ELSE [log EXCEPT ![agent.batch] = result]

Return(result) ==
    /\ agent' = [Started EXCEPT !.phase = Following]
    /\ log' = IF agent.kind = "heartbeat" THEN log
              ELSE [log EXCEPT ![agent.batch] = result]

\* Variant: one attempt too many.
LastAttemptLate == agent.attempt > MaxAttempts

LastAttempt == agent.attempt = MaxAttempts

\* Variant: the loop is entered again from its first attempt.
RetryFromStart ==
    /\ agent' = [agent EXCEPT !.pc = "backoff", !.attempt = 0]
    /\ UNCHANGED log

RetryLater ==
    IF LastAttempt THEN Return("failed")
    ELSE agent' = [agent EXCEPT !.pc = "backoff"] /\ UNCHANGED log

GiveUp ==
    /\ agent.pc \in {"trying", "backoff"}
    /\ CtxDone
    /\ Return("failed")
    /\ UNCHANGED <<file, memory, ticks, cancelled, conns, authorized, stored,
                   seen, faults>>

Post(c) ==
    /\ agent.pc = "trying"
    /\ ~CtxDone
    /\ conns[c] = Closed
    /\ conns' = [conns EXCEPT ![c] = [stage |-> "sent", kind |-> agent.kind,
                                      batch |-> agent.batch, awaited |-> TRUE]]
    /\ agent' = [agent EXCEPT !.pc = "waiting"]
    /\ UNCHANGED <<file, memory, ticks, cancelled, authorized, log, stored,
                   seen, faults>>

\* Variant: every answer but a transient failure counts as delivered.
SucceededLax(reply) == reply # "transient"

Succeeded(reply) == reply = "ok"

Answered(c) ==
    /\ conns[c].awaited
    /\ conns[c].stage \in Reply
    /\ conns' = [conns EXCEPT ![c] = Closed]
    /\ \/ Succeeded(conns[c].stage) /\ Return("delivered")
       \/ /\ ~Succeeded(conns[c].stage)
          /\ \/ conns[c].stage = "permanent" /\ Return("failed")
             \/ conns[c].stage # "permanent" /\ RetryLater
    /\ UNCHANGED <<file, memory, ticks, cancelled, authorized, stored, seen,
                   faults>>

(***************************************************************************)
(* client.Do returns an error: the connection broke or the context is      *)
(* done.  The request may never have arrived, or the server goes on.       *)
(***************************************************************************)
Unanswered(c) ==
    /\ conns[c].awaited
    /\ \/ CtxDone /\ UNCHANGED faults
       \/ Fault
    /\ \/ conns[c].stage = "sent" /\ conns' = [conns EXCEPT ![c] = Closed]
       \/ conns' = [conns EXCEPT ![c].awaited = FALSE]
    /\ RetryLater
    /\ UNCHANGED <<file, memory, ticks, cancelled, authorized, stored, seen>>

BackoffEnds ==
    /\ agent.pc = "backoff"
    /\ agent' = [agent EXCEPT !.pc = "trying", !.attempt = @ + 1]
    /\ UNCHANGED <<file, memory, ticks, cancelled, conns, authorized, log,
                   stored, seen, faults>>

\* The timeout of the request's context.
Expire ==
    /\ agent.pc \in {"trying", "waiting", "backoff"}
    /\ ~agent.expired
    /\ Fault
    /\ agent' = [agent EXCEPT !.expired = TRUE]
    /\ UNCHANGED <<file, memory, ticks, cancelled, conns, authorized, log,
                   stored, seen>>

\* The process dies, or has stopped, and is started again: memory is lost.
Restart ==
    /\ Fault
    /\ agent' = Started
    /\ cancelled' = FALSE
    /\ fileHashes' = [f \in Files |-> Unseen]
    /\ Die
    /\ UNCHANGED <<file, changed, touched, authorized, stored, seen>>

-----------------------------------------------------------------------------
(***************************************************************************)
(* The server: AgentKeyGuard, then MetricsService.ingest or heartbeat.     *)
(***************************************************************************)
Advance(c, stage) == conns' = [conns EXCEPT ![c].stage = stage]

Guard(c) ==
    /\ conns[c].stage = "sent"
    /\ Advance(c, IF authorized THEN "admitted" ELSE "permanent")
    /\ UNCHANGED <<file, memory, agent, ticks, cancelled, authorized, log,
                   stored, seen, faults>>

\* metric.createMany: one statement, and no key that a copy could violate.
Insert(c) ==
    /\ conns[c].stage = "admitted" /\ conns[c].kind = "collect"
    /\ Advance(c, "stored")
    /\ stored' = [stored EXCEPT ![conns[c].batch] = @ + 1]
    /\ UNCHANGED <<file, memory, agent, ticks, cancelled, authorized, log,
                   seen, faults>>

\* asset.update of lastSeenAt.
See(c) ==
    /\ \/ conns[c].stage = "admitted" /\ conns[c].kind = "heartbeat"
       \/ conns[c].stage = "stored"
    /\ Advance(c, "ok")
    /\ seen' = TRUE
    /\ UNCHANGED <<file, memory, agent, ticks, cancelled, authorized, log,
                   stored, faults>>

\* A statement fails, or the proxy answers in the server's place.
ServerFails(c) ==
    /\ conns[c].stage \in {"sent", "admitted", "stored"}
    /\ Fault
    /\ Advance(c, "transient")
    /\ UNCHANGED <<file, memory, agent, ticks, cancelled, authorized, log,
                   stored, seen>>

\* An answer nobody waits for.
Discard(c) ==
    /\ conns[c].stage \in Reply
    /\ ~conns[c].awaited
    /\ conns' = [conns EXCEPT ![c] = Closed]
    /\ UNCHANGED <<file, memory, agent, ticks, cancelled, authorized, log,
                   stored, seen, faults>>

-----------------------------------------------------------------------------
AgentStep ==
    \/ \E b \in Batches : Collect(b)
    \/ Heartbeat \/ GiveUp \/ BackoffEnds
    \/ \E c \in Conns : Post(c) \/ Answered(c)

ServerStep(c) == Guard(c) \/ Insert(c) \/ See(c) \/ Discard(c)

Next ==
    \/ AgentStep \/ Stop \/ Cancel \/ NewKey \/ Age \/ Expire \/ Restart
    \/ \E c \in Conns : ServerStep(c) \/ Unanswered(c) \/ ServerFails(c)
    \/ \E kind \in Kind : Tick(kind)
    \/ \E f \in Files : Toggle(f) \/ \E x \in Contents : Edit(f, x)

Spec == Init /\ [][Next]_vars

(***************************************************************************)
(* The tickers tick, the goroutine runs and the server answers; faults,    *)
(* signals and users are left free.                                        *)
(***************************************************************************)
Fairness ==
    /\ WF_vars(AgentStep)
    /\ \A kind \in Kind : WF_vars(Tick(kind))
    /\ \A c \in Conns : WF_vars(ServerStep(c))

FairSpec == Spec /\ Fairness

-----------------------------------------------------------------------------
(***************************************************************************)
(* The agent keeps the promise of Upload: it logs a batch as delivered     *)
(* only when the table holds it, whatever is lost, retried or late.        *)
(***************************************************************************)
Promise == INSTANCE Upload WITH log <- log, stored <- stored
UploadSpec == Promise!Spec

(***************************************************************************)
(* Copies are accounted for: a batch is in the table once for each attempt *)
(* at most, counting the requests still in the server, even the late ones. *)
(***************************************************************************)
CopiesBounded ==
    \A b \in Batches :
        stored[b] + Cardinality({c \in Conns : /\ conns[c].batch = b
                                               /\ conns[c].stage \in {"sent", "admitted"}})
          <= IF agent.batch = b THEN agent.attempt ELSE MaxAttempts

(***************************************************************************)
(* A change is never invented: a file a batch reports has been edited      *)
(* since this process last read it, though it may have vanished, come back *)
(* or been restarted over meanwhile.                                       *)
(***************************************************************************)
NoPhantomChange ==
    [][\A b \in Batches : log[b] # "pending" /\ log'[b] = "pending"
                            => changed'[b] \subseteq touched]_vars

(***************************************************************************)
(* An agent that counts as offline comes back by itself once the network   *)
(* and the server do, unless it is stopped or its key is replaced.         *)
(***************************************************************************)
BackOnline == ~seen ~> (seen \/ cancelled \/ ~authorized)

(***************************************************************************)
(* EventsService.fileChanges lists the rows "filewatch.changed" with a     *)
(* value above 0: one per changed file, and the total the file watcher     *)
(* adds under the same name.                                               *)
(***************************************************************************)
FileChangeRows(b) ==
    stored[b] * (Cardinality(changed[b]) + IF changed[b] = {} THEN 0 ELSE 1)

(***************************************************************************)
(* What the events page says of them: the number of rows is the number of  *)
(* file changes detected.                                                  *)
(***************************************************************************)
RowsAreChanges ==
    \A b \in Batches : FileChangeRows(b) = stored[b] * Cardinality(changed[b])
=============================================================================
