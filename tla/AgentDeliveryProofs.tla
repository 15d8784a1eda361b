------------------------ MODULE AgentDeliveryProofs ------------------------
(***************************************************************************)
(* Machine-checked proofs about AgentDelivery, for any sets of files,      *)
(* contents, batches and connections, any number of attempts and faults.   *)
(***************************************************************************)
EXTENDS AgentDelivery, FiniteSetTheorems, TLAPS

USE DEF memory

Posting == {"trying", "waiting", "backoff"}

\* A batch is pending exactly while the goroutine is posting it.
PendingPosted ==
    /\ \A b \in Batches :
         log[b] = "pending" => /\ agent.pc \in Posting
                               /\ agent.kind = "collect"
                               /\ agent.batch = b
    /\ agent.pc \in Posting /\ agent.kind = "collect" =>
         /\ agent.batch \in Batches
         /\ log[agent.batch] = "pending"

\* There are attempts left while the goroutine is backing off.
AttemptsLeft == agent.pc = "backoff" => agent.attempt < MaxAttempts

\* The goroutine waits for at most one request, and for its own.
AwaitedOwn ==
    /\ \A c \in Conns :
         conns[c].awaited => /\ agent.pc = "waiting"
                             /\ conns[c].kind = agent.kind
                             /\ conns[c].batch = agent.batch
    /\ \A c, d \in Conns : conns[c].awaited /\ conns[d].awaited => c = d

\* What a request carries was submitted; past its insert, it is in the table.
CarriedStored ==
    \A c \in Conns :
        conns[c].stage # "none" /\ conns[c].kind = "collect" =>
          /\ conns[c].batch \in Batches
          /\ log[conns[c].batch] # "unused"
          /\ conns[c].stage \in {"stored", "ok"} => stored[conns[c].batch] > 0

Inv == TypeOK /\ PendingPosted /\ AttemptsLeft /\ AwaitedOwn /\ CarriedStored

-----------------------------------------------------------------------------
(***************************************************************************)
(* Type correctness.                                                       *)
(***************************************************************************)
LEMMA StartType ==
    /\ Started \in Agent
    /\ Closed \in Conn
    /\ Following \in Kind \union {"loop"}
BY AgentAssumption DEF Started, Agent, Closed, Conn, Stage, Kind, Following

LEMMA InitType == Init => TypeOK
<1> SUFFICES ASSUME Init PROVE TypeOK
  OBVIOUS
<1>1. agent \in Agent /\ conns \in [Conns -> Conn]
  BY StartType DEF Init
<1>2. file \in [Files -> [content : Contents, readable : BOOLEAN]]
  BY DEF Init
<1>3. cancelled \in BOOLEAN /\ authorized \in BOOLEAN /\ seen \in BOOLEAN
  BY DEF Init
<1>4. log \in [Batches -> {"unused", "pending", "delivered", "failed"}]
  BY DEF Init
<1>5. stored \in [Batches -> Nat] /\ faults \in 0 .. MaxFaults
  BY AgentAssumption DEF Init
<1>6. /\ fileHashes \in [Files -> Contents \union {Unseen}]
      /\ ticks \subseteq Kind
      /\ changed \in [Batches -> SUBSET Files]
      /\ touched \subseteq Files
  BY DEF Init
<1> QED
  BY <1>1, <1>2, <1>3, <1>4, <1>5, <1>6 DEF TypeOK

\* The host, the clock and the users.
LEMMA HostType ==
    ASSUME TypeOK,
           \/ Cancel \/ NewKey \/ Age
           \/ \E kind \in Kind : Tick(kind)
           \/ \E f \in Files : Toggle(f) \/ \E x \in Contents : Edit(f, x)
    PROVE  TypeOK'
<1>1. CASE Cancel \/ NewKey \/ Age
  BY <1>1 DEF TypeOK, Cancel, NewKey, Age
<1>2. CASE \E kind \in Kind : Tick(kind)
  BY <1>2 DEF TypeOK, Tick
<1>3. CASE \E f \in Files : Toggle(f)
  <2> SUFFICES ASSUME NEW f \in Files, Toggle(f) PROVE TypeOK'
    BY <1>3
  <2>1. file' \in [Files -> [content : Contents, readable : BOOLEAN]]
    BY DEF TypeOK, Toggle
  <2> QED
    BY <2>1 DEF TypeOK, Toggle
<1>4. CASE \E f \in Files : \E x \in Contents : Edit(f, x)
  <2> SUFFICES ASSUME NEW f \in Files, NEW x \in Contents, Edit(f, x)
               PROVE  TypeOK'
    BY <1>4
  <2>1. file' \in [Files -> [content : Contents, readable : BOOLEAN]]
    BY DEF TypeOK, Edit
  <2> QED
    BY <2>1 DEF TypeOK, Edit
<1> QED
  BY <1>1, <1>2, <1>3, <1>4

\* The ways a post ends or goes on.
LEMMA ReturnType ==
    ASSUME TypeOK, NEW result \in {"delivered", "failed"}, Return(result)
    PROVE  /\ agent' \in Agent
           /\ log' \in [Batches -> {"unused", "pending", "delivered", "failed"}]
<1>1. agent' \in Agent
  BY StartType DEF Return, Agent
<1>2. log' \in [Batches -> {"unused", "pending", "delivered", "failed"}]
  BY DEF TypeOK, Return
<1> QED
  BY <1>1, <1>2

LEMMA RetryType ==
    ASSUME TypeOK, RetryLater
    PROVE  /\ agent' \in Agent
           /\ log' \in [Batches -> {"unused", "pending", "delivered", "failed"}]
<1>1. CASE Return("failed")
  BY <1>1, ReturnType
<1>2. CASE agent' = [agent EXCEPT !.pc = "backoff"] /\ UNCHANGED log
  BY <1>2 DEF TypeOK, Agent
<1> QED
  BY <1>1, <1>2 DEF RetryLater

LEMMA DieType ==
    ASSUME TypeOK, Die
    PROVE  /\ ticks' \subseteq Kind
           /\ conns' \in [Conns -> Conn]
           /\ log' \in [Batches -> {"unused", "pending", "delivered", "failed"}]
BY DEF TypeOK, Die, Conn

LEMMA AgentType ==
    ASSUME TypeOK, AttemptsLeft,
           AgentStep \/ Stop \/ Expire \/ Restart \/ \E c \in Conns : Unanswered(c)
    PROVE  TypeOK'
<1>1. CASE \E b \in Batches : Collect(b)
  <2> SUFFICES ASSUME NEW b \in Batches, Collect(b) PROVE TypeOK'
    BY <1>1
  <2>1. agent' \in Agent
    BY AgentAssumption DEF TypeOK, Collect, Begin, Agent, Kind
  <2>2. fileHashes' \in [Files -> Contents \union {Unseen}]
    BY DEF TypeOK, Collect, Hashes
  <2>3. changed' \in [Batches -> SUBSET Files]
    BY DEF TypeOK, Collect, Changed
  <2> QED
    BY <2>1, <2>2, <2>3 DEF TypeOK, Collect, Turn
<1>2. CASE Heartbeat
  BY <1>2, AgentAssumption DEF TypeOK, Heartbeat, Turn, Begin, Agent, Kind
<1>3. CASE GiveUp
  BY <1>3, ReturnType DEF TypeOK, GiveUp
<1>4. CASE BackoffEnds
  <2>1. agent.attempt + 1 \in 0 .. MaxAttempts
    BY <1>4, AgentAssumption DEF TypeOK, AttemptsLeft, BackoffEnds, Agent
  <2>2. agent' \in Agent
    BY <1>4, <2>1 DEF TypeOK, BackoffEnds, Agent
  <2> QED
    BY <1>4, <2>2 DEF TypeOK, BackoffEnds
<1>5. CASE \E c \in Conns : Post(c)
  <2> SUFFICES ASSUME NEW c \in Conns, Post(c) PROVE TypeOK'
    BY <1>5
  <2>1. agent' \in Agent
    BY DEF TypeOK, Post, Agent
  <2>2. conns' \in [Conns -> Conn]
    BY DEF TypeOK, Post, Agent, Conn, Stage
  <2> QED
    BY <2>1, <2>2 DEF TypeOK, Post
<1>6. CASE \E c \in Conns : Answered(c)
  <2> SUFFICES ASSUME NEW c \in Conns, Answered(c) PROVE TypeOK'
    BY <1>6
  <2>1. /\ agent' \in Agent
        /\ log' \in [Batches -> {"unused", "pending", "delivered", "failed"}]
    BY ReturnType, RetryType DEF Answered
  <2>2. conns' \in [Conns -> Conn]
    BY DEF TypeOK, Answered, Closed, Conn, Stage, Kind
  <2> QED
    BY <2>1, <2>2 DEF TypeOK, Answered
<1>7. CASE Stop
  <2>1. agent' \in Agent
    BY <1>7, StartType DEF Stop, Agent
  <2> QED
    BY <1>7, <2>1, DieType DEF TypeOK, Stop
<1>8. CASE Expire
  <2>1. agent' \in Agent
    BY <1>8 DEF TypeOK, Expire, Agent
  <2>2. faults' \in 0 .. MaxFaults
    BY <1>8, AgentAssumption DEF TypeOK, Expire, Fault
  <2> QED
    BY <1>8, <2>1, <2>2 DEF TypeOK, Expire
<1>9. CASE Restart
  <2>1. agent' \in Agent
    BY <1>9, StartType DEF Restart
  <2>2. faults' \in 0 .. MaxFaults
    BY <1>9, AgentAssumption DEF TypeOK, Restart, Fault
  <2>3. fileHashes' \in [Files -> Contents \union {Unseen}]
    BY <1>9 DEF Restart
  <2> QED
    BY <1>9, <2>1, <2>2, <2>3, DieType DEF TypeOK, Restart
<1>10. CASE \E c \in Conns : Unanswered(c)
  <2> SUFFICES ASSUME NEW c \in Conns, Unanswered(c) PROVE TypeOK'
    BY <1>10
  <2>1. /\ agent' \in Agent
        /\ log' \in [Batches -> {"unused", "pending", "delivered", "failed"}]
    BY RetryType DEF Unanswered
  <2>2. conns' \in [Conns -> Conn]
    <3>1. CASE conns' = [conns EXCEPT ![c] = Closed]
      BY <3>1, StartType DEF TypeOK
    <3>2. CASE conns' = [conns EXCEPT ![c].awaited = FALSE]
      BY <3>2 DEF TypeOK, Conn
    <3> QED
      BY <3>1, <3>2 DEF Unanswered
  <2>3. faults' \in 0 .. MaxFaults
    BY AgentAssumption DEF TypeOK, Unanswered, Fault
  <2> QED
    BY <2>1, <2>2, <2>3 DEF TypeOK, Unanswered
<1> QED
  BY <1>1, <1>2, <1>3, <1>4, <1>5, <1>6, <1>7, <1>8, <1>9, <1>10 DEF AgentStep

LEMMA ServerType ==
    ASSUME TypeOK, CarriedStored, NEW c \in Conns, ServerStep(c) \/ ServerFails(c)
    PROVE  TypeOK'
<1>1. CASE Guard(c)
  BY <1>1 DEF TypeOK, Guard, Advance, Conn, Stage, Reply
<1>2. CASE Insert(c)
  BY <1>2 DEF TypeOK, CarriedStored, Insert, Advance, Conn, Stage
<1>3. CASE See(c)
  BY <1>3 DEF TypeOK, See, Advance, Conn, Stage, Reply
<1>4. CASE Discard(c)
  BY <1>4 DEF TypeOK, Discard, Closed, Conn, Stage, Kind
<1>5. CASE ServerFails(c)
  <2>1. conns' \in [Conns -> Conn]
    BY <1>5 DEF TypeOK, ServerFails, Advance, Conn, Stage, Reply
  <2>2. faults' \in 0 .. MaxFaults
    BY <1>5, AgentAssumption DEF TypeOK, ServerFails, Fault
  <2> QED
    BY <1>5, <2>1, <2>2 DEF TypeOK, ServerFails
<1> QED
  BY <1>1, <1>2, <1>3, <1>4, <1>5 DEF ServerStep

LEMMA TypeStep == Inv /\ [Next]_vars => TypeOK'
<1> SUFFICES ASSUME Inv, [Next]_vars PROVE TypeOK'
  OBVIOUS
<1>1. CASE UNCHANGED vars
  BY <1>1 DEF Inv, TypeOK, vars
<1>2. CASE Next
  BY <1>2, HostType, AgentType, ServerType DEF Inv, Next
<1> QED
  BY <1>1, <1>2

-----------------------------------------------------------------------------
(***************************************************************************)
(* The invariant is inductive.                                             *)
(***************************************************************************)
LEMMA InitInv == Init => Inv
<1> SUFFICES ASSUME Init PROVE Inv
  OBVIOUS
<1>1. TypeOK
  BY InitType
<1>2. PendingPosted /\ AttemptsLeft
  BY DEF Init, Started, Posting, PendingPosted, AttemptsLeft
<1>3. AwaitedOwn /\ CarriedStored
  BY DEF Init, Closed, AwaitedOwn, CarriedStored
<1> QED
  BY <1>1, <1>2, <1>3 DEF Inv

Untouched(c) ==
    /\ conns'[c].stage = conns[c].stage
    /\ conns'[c].kind = conns[c].kind
    /\ conns'[c].batch = conns[c].batch

\* The verdict on whatever batch is pending, and on no other.
Judged ==
    \A b \in Batches :
        /\ log[b] = "pending" => log'[b] \in {"delivered", "failed"}
        /\ log[b] # "pending" => log'[b] = log[b]

\* The goroutine leaves a post: nothing is pending, nothing awaited any more.
LEMMA PostEnds ==
    ASSUME Inv, TypeOK', Judged, stored' = stored,
           agent'.pc \in {"ready", "stopped"},
           \A c \in Conns : /\ ~conns'[c].awaited
                            /\ conns'[c].stage = "none" \/ Untouched(c)
    PROVE  Inv'
<1>1. PendingPosted' /\ AttemptsLeft'
  BY DEF Inv, TypeOK, Judged, PendingPosted, AttemptsLeft, Posting
<1>2. AwaitedOwn'
  BY DEF AwaitedOwn
<1>3. CarriedStored'
  BY DEF Inv, Judged, CarriedStored, Untouched
<1> QED
  BY <1>1, <1>2, <1>3 DEF Inv

LEMMA ReturnJudges ==
    ASSUME Inv, agent.pc \in Posting,
           NEW result \in {"delivered", "failed"}, Return(result)
    PROVE  Judged /\ agent'.pc = "ready"
<1>1. agent'.pc = "ready"
  BY DEF Return, Started
<1>2. CASE agent.kind = "heartbeat"
  BY <1>1, <1>2 DEF Inv, PendingPosted, Judged, Return
<1>3. CASE agent.kind = "collect"
  BY <1>1, <1>3 DEF Inv, TypeOK, PendingPosted, Judged, Return
<1> QED
  BY <1>2, <1>3 DEF Inv, TypeOK, Agent, Kind

LEMMA DieJudges ==
    ASSUME Inv, Die
    PROVE  /\ Judged
           /\ \A c \in Conns : ~conns'[c].awaited /\ Untouched(c)
BY DEF Inv, TypeOK, Die, Judged, Untouched, Conn

\* The goroutine backs off: its batch stays pending, nothing is awaited.
LEMMA BacksOff ==
    ASSUME Inv, TypeOK', stored' = stored, log' = log, agent.pc = "waiting",
           agent' = [agent EXCEPT !.pc = "backoff"], ~LastAttempt,
           \A c \in Conns : /\ ~conns'[c].awaited
                            /\ conns'[c].stage = "none" \/ Untouched(c)
    PROVE  Inv'
<1>1. /\ agent'.pc = "backoff" /\ agent'.kind = agent.kind
      /\ agent'.batch = agent.batch /\ agent'.attempt = agent.attempt
  BY DEF Inv, TypeOK, Agent
<1>2. agent.attempt < MaxAttempts
  <2>1. agent.attempt \in 0 .. MaxAttempts /\ agent.attempt # MaxAttempts
    BY DEF Inv, TypeOK, Agent, LastAttempt
  <2> QED
    BY <2>1, AgentAssumption
<1>3. PendingPosted' /\ AttemptsLeft'
  BY <1>1, <1>2 DEF Inv, PendingPosted, AttemptsLeft, Posting
<1>4. AwaitedOwn'
  BY DEF AwaitedOwn
<1>5. CarriedStored'
  BY DEF Inv, CarriedStored, Untouched
<1> QED
  BY <1>3, <1>4, <1>5 DEF Inv

LEMMA RetryInv ==
    ASSUME Inv, TypeOK', stored' = stored, agent.pc = "waiting", RetryLater,
           \A c \in Conns : /\ ~conns'[c].awaited
                            /\ conns'[c].stage = "none" \/ Untouched(c)
    PROVE  Inv'
<1>1. CASE LastAttempt
  <2>1. Judged /\ agent'.pc = "ready"
    BY <1>1, ReturnJudges DEF RetryLater, Posting
  <2> QED
    BY <2>1, PostEnds
<1>2. CASE ~LastAttempt
  BY <1>2, BacksOff DEF RetryLater
<1> QED
  BY <1>1, <1>2

\* Nothing the invariant is about changes.
LEMMA CalmInv ==
    ASSUME Inv, TypeOK', UNCHANGED <<agent, conns, log, stored>>
    PROVE  Inv'
BY DEF Inv, PendingPosted, AttemptsLeft, AwaitedOwn, CarriedStored

LEMMA BeginInv ==
    ASSUME Inv, TypeOK', Heartbeat \/ \E b \in Batches : Collect(b)
    PROVE  Inv'
<1>1. agent.pc = "ready" /\ agent'.pc = "trying"
  BY DEF Heartbeat, Collect, Turn, Begin
<1>2. /\ \A c \in Conns : ~conns[c].awaited
      /\ conns' = conns
      /\ \A b \in Batches : log[b] # "pending"
  BY <1>1 DEF Inv, AwaitedOwn, PendingPosted, Posting, Heartbeat, Collect
<1>3. AwaitedOwn' /\ AttemptsLeft'
  BY <1>1, <1>2 DEF AwaitedOwn, AttemptsLeft
<1>4. CASE Heartbeat
  <2>1. PendingPosted'
    BY <1>2, <1>4 DEF PendingPosted, Heartbeat, Begin
  <2>2. CarriedStored'
    BY <1>4 DEF Inv, CarriedStored, Heartbeat
  <2> QED
    BY <1>3, <2>1, <2>2 DEF Inv
<1>5. CASE \E b \in Batches : Collect(b)
  <2> PICK b \in Batches : Collect(b)
    BY <1>5
  <2>1. agent'.kind = "collect" /\ agent'.batch = b
    BY DEF Collect, Begin
  <2>2. log' = [log EXCEPT ![b] = "pending"] /\ stored' = [stored EXCEPT ![b] = 0]
    BY DEF Collect
  <2>3. PendingPosted'
    BY <1>1, <1>2, <2>1, <2>2 DEF Inv, TypeOK, PendingPosted, Posting
  <2>4. \A c \in Conns : conns[c].batch # b
    BY DEF Collect
  <2>5. CarriedStored'
    BY <1>2, <2>2, <2>4 DEF Inv, TypeOK, CarriedStored
  <2> QED
    BY <1>3, <2>3, <2>5 DEF Inv
<1> QED
  BY <1>4, <1>5

LEMMA PostInv ==
    ASSUME Inv, TypeOK', NEW c \in Conns, Post(c)
    PROVE  Inv'
<1>1. /\ agent.pc = "trying" /\ agent'.pc = "waiting"
      /\ agent'.kind = agent.kind /\ agent'.batch = agent.batch
  BY DEF Inv, TypeOK, Agent, Post
<1>2. /\ conns'[c] = [stage |-> "sent", kind |-> agent.kind,
                      batch |-> agent.batch, awaited |-> TRUE]
      /\ \A d \in Conns \ {c} : conns'[d] = conns[d]
      /\ log' = log /\ stored' = stored
  BY DEF Inv, TypeOK, Post
<1>3. PendingPosted' /\ AttemptsLeft'
  BY <1>1, <1>2 DEF Inv, PendingPosted, AttemptsLeft, Posting
<1>4. \A d \in Conns : ~conns[d].awaited
  BY <1>1 DEF Inv, AwaitedOwn
<1>5. AwaitedOwn'
  BY <1>1, <1>2, <1>4 DEF AwaitedOwn
<1>6. CarriedStored'
  BY <1>1, <1>2 DEF Inv, PendingPosted, Posting, CarriedStored
<1> QED
  BY <1>3, <1>5, <1>6 DEF Inv

LEMMA AnsweredInv ==
    ASSUME Inv, TypeOK', NEW c \in Conns, Answered(c) \/ Unanswered(c)
    PROVE  Inv'
<1>1. agent.pc = "waiting" /\ stored' = stored
  BY DEF Inv, AwaitedOwn, Answered, Unanswered
<1>2. \A d \in Conns : /\ ~conns'[d].awaited
                       /\ conns'[d].stage = "none" \/ Untouched(d)
  <2>1. \A d \in Conns \ {c} : ~conns[d].awaited
    BY DEF Inv, AwaitedOwn, Answered, Unanswered
  <2>2. CASE conns' = [conns EXCEPT ![c] = Closed]
    BY <2>1, <2>2 DEF Inv, TypeOK, Closed, Untouched
  <2>3. CASE conns' = [conns EXCEPT ![c].awaited = FALSE]
    BY <2>1, <2>3 DEF Inv, TypeOK, Conn, Untouched
  <2> QED
    BY <2>2, <2>3 DEF Answered, Unanswered
<1>3. CASE RetryLater
  BY <1>1, <1>2, <1>3, RetryInv
<1>4. CASE \E result \in {"delivered", "failed"} : Return(result)
  <2>1. Judged /\ agent'.pc = "ready"
    BY <1>1, <1>4, ReturnJudges DEF Posting
  <2> QED
    BY <1>1, <1>2, <2>1, PostEnds
<1> QED
  BY <1>3, <1>4 DEF Answered, Unanswered

LEMMA AgentInv ==
    ASSUME Inv, TypeOK', GiveUp \/ BackoffEnds \/ Expire \/ Stop \/ Restart
    PROVE  Inv'
<1>1. CASE GiveUp
  <2>1. Judged /\ agent'.pc = "ready" /\ stored' = stored
    BY <1>1, ReturnJudges DEF GiveUp, Posting
  <2>2. \A c \in Conns : ~conns'[c].awaited /\ Untouched(c)
    BY <1>1 DEF Inv, AwaitedOwn, GiveUp, Untouched
  <2> QED
    BY <2>1, <2>2, PostEnds
<1>2. CASE BackoffEnds \/ Expire
  <2>1. /\ agent'.kind = agent.kind /\ agent'.batch = agent.batch
        /\ agent.pc \in Posting /\ agent'.pc \in Posting
        /\ agent.pc = "waiting" => agent'.pc = "waiting"
        /\ agent'.pc = "backoff" => agent.pc = "backoff" /\ agent'.attempt = agent.attempt
        /\ UNCHANGED <<conns, log, stored>>
    BY <1>2 DEF Inv, TypeOK, Agent, BackoffEnds, Expire, Posting
  <2>2. PendingPosted' /\ AttemptsLeft'
    BY <2>1 DEF Inv, PendingPosted, AttemptsLeft
  <2>3. AwaitedOwn' /\ CarriedStored'
    BY <2>1 DEF Inv, AwaitedOwn, CarriedStored
  <2> QED
    BY <2>2, <2>3 DEF Inv
<1>3. CASE Stop \/ Restart
  <2>1. Die /\ agent'.pc \in {"ready", "stopped"} /\ stored' = stored
    BY <1>3 DEF Stop, Restart, Started
  <2> QED
    BY <2>1, DieJudges, PostEnds
<1> QED
  BY <1>1, <1>2, <1>3

LEMMA ServerInv ==
    ASSUME Inv, TypeOK', NEW c \in Conns, ServerStep(c) \/ ServerFails(c)
    PROVE  Inv'
<1>1. agent' = agent /\ log' = log
  BY DEF ServerStep, ServerFails, Guard, Insert, See, Discard
<1>2. \A d \in Conns \ {c} : conns'[d] = conns[d]
  BY DEF Inv, TypeOK, ServerStep, ServerFails, Guard, Insert, See, Discard, Advance
<1>3. PendingPosted' /\ AttemptsLeft'
  BY <1>1 DEF Inv, PendingPosted, AttemptsLeft
<1>4. CASE Discard(c)
  <2>1. conns'[c] = Closed /\ stored' = stored
    BY <1>4 DEF Inv, TypeOK, Discard
  <2>2. AwaitedOwn' /\ CarriedStored'
    BY <1>1, <1>2, <2>1 DEF Inv, AwaitedOwn, CarriedStored, Closed
  <2> QED
    BY <1>3, <2>2 DEF Inv
<1>5. CASE ServerFails(c) \/ Guard(c) \/ Insert(c) \/ See(c)
  <2>1. /\ conns'[c].kind = conns[c].kind /\ conns'[c].batch = conns[c].batch
        /\ conns'[c].awaited = conns[c].awaited
        /\ conns[c].stage # "none"
    BY <1>5 DEF Inv, TypeOK, Conn, ServerFails, Guard, Insert, See, Advance
  <2>2. AwaitedOwn'
    BY <1>1, <1>2, <2>1 DEF Inv, AwaitedOwn
  <2>3. CASE Insert(c)
    <3>1. conns[c].batch \in Batches /\ conns[c].kind = "collect"
      BY <2>3 DEF Inv, CarriedStored, Insert
    <3>2. \A b \in Batches : /\ stored'[b] >= stored[b] /\ stored[b] \in Nat
                             /\ b = conns[c].batch => stored'[b] > 0
      BY <2>3, <3>1 DEF Inv, TypeOK, Insert
    <3>3. ASSUME NEW d \in Conns, conns'[d].stage # "none",
                 conns'[d].kind = "collect"
          PROVE  /\ conns'[d].batch \in Batches
                 /\ log'[conns'[d].batch] # "unused"
                 /\ conns'[d].stage \in {"stored", "ok"}
                      => stored'[conns'[d].batch] > 0
      <4>1. CASE d = c
        BY <1>1, <2>1, <3>1, <3>2, <4>1 DEF Inv, CarriedStored
      <4>2. CASE d # c
        <5>1. /\ conns[d].batch \in Batches
              /\ log[conns[d].batch] # "unused"
              /\ conns[d].stage \in {"stored", "ok"} => stored[conns[d].batch] > 0
          BY <1>2, <3>3, <4>2 DEF Inv, CarriedStored
        <5>2. conns'[d] = conns[d] /\ log' = log
          BY <1>1, <1>2, <4>2
        <5>3. conns[d].stage \in {"stored", "ok"} => stored'[conns[d].batch] > 0
          <6>1. /\ stored[conns[d].batch] \in Nat
                /\ stored'[conns[d].batch] \in Nat
                /\ stored'[conns[d].batch] >= stored[conns[d].batch]
            BY <3>2, <5>1 DEF TypeOK
          <6> QED
            BY <5>1, <6>1
        <5> QED
          BY <5>1, <5>2, <5>3
      <4> QED
        BY <4>1, <4>2
    <3>4. CarriedStored'
      BY <3>3 DEF CarriedStored
    <3> QED
      BY <1>3, <2>2, <3>4 DEF Inv
  <2>4. CASE ServerFails(c) \/ Guard(c) \/ See(c)
    <3>1. /\ stored' = stored
          /\ conns'[c].stage \in {"stored", "ok"} /\ conns[c].kind = "collect"
               => conns[c].stage = "stored"
      BY <2>4 DEF Inv, TypeOK, Conn, ServerFails, Guard, See, Advance
    <3>2. CarriedStored'
      BY <1>1, <1>2, <2>1, <3>1 DEF Inv, CarriedStored
    <3> QED
      BY <1>3, <2>2, <3>2 DEF Inv
  <2> QED
    BY <1>5, <2>3, <2>4
<1> QED
  BY <1>4, <1>5 DEF ServerStep

LEMMA InvStep == Inv /\ [Next]_vars => Inv'
<1> SUFFICES ASSUME Inv, [Next]_vars PROVE Inv'
  OBVIOUS
<1>1. TypeOK'
  BY TypeStep
<1>2. CASE UNCHANGED vars
  BY <1>1, <1>2, CalmInv DEF vars
<1>3. CASE Cancel \/ NewKey \/ Age \/ (\E kind \in Kind : Tick(kind))
           \/ \E f \in Files : Toggle(f) \/ \E x \in Contents : Edit(f, x)
  <2>1. UNCHANGED <<agent, conns, log, stored>>
    BY <1>3 DEF Cancel, NewKey, Age, Tick, Toggle, Edit
  <2> QED
    BY <1>1, <2>1, CalmInv
<1>4. CASE AgentStep \/ Stop \/ Expire \/ Restart
  BY <1>1, <1>4, BeginInv, PostInv, AnsweredInv, AgentInv DEF AgentStep
<1>5. CASE \E c \in Conns : ServerStep(c) \/ Unanswered(c) \/ ServerFails(c)
  BY <1>1, <1>5, ServerInv, AnsweredInv
<1> QED
  BY <1>2, <1>3, <1>4, <1>5 DEF Next

(***************************************************************************)
(* Every variable keeps its type: the loop of postWithRetry never begins   *)
(* an attempt beyond the last, and no ticker holds more than one tick.     *)
(***************************************************************************)
THEOREM AgentTypes == Spec => []TypeOK
<1>1. Inv => TypeOK
  BY DEF Inv
<1> QED
  BY <1>1, InitInv, InvStep, PTL DEF Spec

-----------------------------------------------------------------------------
(***************************************************************************)
(* The agent implements Upload.                                            *)
(***************************************************************************)
LEMMA InitPromise == Init => Promise!Init
BY DEF Init, Promise!Init

\* A judged batch has been failed: there is at most one to judge.
LEMMA JudgedFails ==
    ASSUME Inv, stored' = stored,
           log' = [b \in Batches |-> log'[b]],
           \A b \in Batches : log'[b] = IF log[b] = "pending" THEN "failed" ELSE log[b]
    PROVE  [Promise!Next]_(Promise!vars)
<1>1. CASE \E b \in Batches : log[b] = "pending"
  <2> PICK b \in Batches : log[b] = "pending"
    BY <1>1
  <2>1. \A a \in Batches : log[a] = "pending" => a = b
    BY DEF Inv, PendingPosted
  <2>2. log' = [log EXCEPT ![b] = "failed"]
    BY <2>1 DEF Inv, TypeOK
  <2>3. Promise!Fail(b)
    BY <2>2 DEF Promise!Fail
  <2> QED
    BY <2>3 DEF Promise!Next
<1>2. CASE \A b \in Batches : log[b] # "pending"
  <2>1. log' = log
    BY <1>2 DEF Inv, TypeOK
  <2> QED
    BY <2>1 DEF Promise!vars
<1> QED
  BY <1>1, <1>2

LEMMA ReturnPromise ==
    ASSUME Inv, agent.pc \in Posting, stored' = stored,
           \/ Return("failed")
           \/ /\ Return("delivered")
              /\ agent.kind = "collect" => stored[agent.batch] > 0
    PROVE  [Promise!Next]_(Promise!vars)
<1>1. CASE agent.kind = "heartbeat"
  BY <1>1 DEF Return, Promise!vars
<1>2. CASE agent.kind = "collect"
  <2>1. agent.batch \in Batches /\ log[agent.batch] = "pending"
    BY <1>2 DEF Inv, PendingPosted
  <2>2. CASE Return("failed")
    <3>1. Promise!Fail(agent.batch)
      BY <1>2, <2>1, <2>2 DEF Return, Promise!Fail
    <3> QED
      BY <2>1, <3>1 DEF Promise!Next
  <2>3. CASE Return("delivered") /\ stored[agent.batch] > 0
    <3>1. Promise!Deliver(agent.batch)
      BY <1>2, <2>1, <2>3 DEF Return, Promise!Deliver
    <3> QED
      BY <2>1, <3>1 DEF Promise!Next
  <2> QED
    BY <1>2, <2>2, <2>3
<1> QED
  BY <1>1, <1>2 DEF Inv, TypeOK, Agent, Kind

LEMMA RetryPromise ==
    ASSUME Inv, agent.pc = "waiting", stored' = stored, RetryLater
    PROVE  [Promise!Next]_(Promise!vars)
<1>1. CASE Return("failed")
  BY <1>1, ReturnPromise DEF Posting
<1>2. CASE UNCHANGED log
  BY <1>2 DEF Promise!vars
<1> QED
  BY <1>1, <1>2 DEF RetryLater

LEMMA PromiseStep ==
    ASSUME Inv, Next
    PROVE  [Promise!Next]_(Promise!vars)
<1>1. CASE \E b \in Batches : Collect(b)
  <2> PICK b \in Batches : Collect(b)
    BY <1>1
  <2>1. Promise!Submit(b)
    BY DEF Collect, Promise!Submit
  <2> QED
    BY <2>1 DEF Promise!Next
<1>2. CASE GiveUp
  BY <1>2, ReturnPromise DEF GiveUp, Posting
<1>3. CASE \E c \in Conns : Answered(c)
  <2> PICK c \in Conns : Answered(c)
    BY <1>3
  <2>1. /\ agent.pc = "waiting" /\ stored' = stored
        /\ conns[c].kind = agent.kind /\ conns[c].batch = agent.batch
    BY DEF Inv, AwaitedOwn, Answered
  <2>2. CASE RetryLater
    BY <2>1, <2>2, RetryPromise
  <2>3. CASE Return("failed")
    BY <2>1, <2>3, ReturnPromise DEF Posting
  <2>4. CASE Return("delivered") /\ conns[c].stage = "ok"
    <3>1. agent.kind = "collect" => stored[agent.batch] > 0
      BY <2>1, <2>4 DEF Inv, CarriedStored
    <3> QED
      BY <2>1, <2>4, <3>1, ReturnPromise DEF Posting
  <2> QED
    BY <2>2, <2>3, <2>4 DEF Answered, Succeeded
<1>4. CASE \E c \in Conns : Unanswered(c)
  <2> PICK c \in Conns : Unanswered(c)
    BY <1>4
  <2>1. agent.pc = "waiting" /\ stored' = stored /\ RetryLater
    BY DEF Inv, AwaitedOwn, Unanswered
  <2> QED
    BY <2>1, RetryPromise
<1>5. CASE Stop \/ Restart
  <2>1. stored' = stored /\ Die
    BY <1>5 DEF Stop, Restart
  <2> QED
    BY <2>1, JudgedFails DEF Die
<1>6. CASE \E c \in Conns : Insert(c)
  <2> PICK c \in Conns : Insert(c)
    BY <1>6
  <2>1. conns[c].batch \in Batches /\ log[conns[c].batch] # "unused"
    BY DEF Inv, CarriedStored, Insert
  <2>2. Promise!Arrive(conns[c].batch)
    BY <2>1 DEF Insert, Promise!Arrive
  <2> QED
    BY <2>1, <2>2 DEF Promise!Next
<1>7. CASE UNCHANGED <<log, stored>>
  BY <1>7 DEF Promise!vars
<1>8. \/ UNCHANGED <<log, stored>>
      \/ GiveUp \/ Stop \/ Restart \/ (\E b \in Batches : Collect(b))
      \/ \E c \in Conns : Answered(c) \/ Unanswered(c) \/ Insert(c)
  BY DEF Next, AgentStep, ServerStep, Heartbeat, BackoffEnds, Post, Cancel,
         NewKey, Age, Expire, Guard, See, Discard, ServerFails, Tick, Toggle,
         Edit
<1> QED
  BY <1>1, <1>2, <1>3, <1>4, <1>5, <1>6, <1>7, <1>8

(***************************************************************************)
(* The agent keeps the promise of Upload, for any number of files, batches,*)
(* connections, attempts and faults: whatever postWithRetry has met, a     *)
(* batch it returns success for is in the Metric table.                    *)
(***************************************************************************)
THEOREM KeepsPromise == Spec => UploadSpec
<1>1. Inv /\ [Next]_vars => [Promise!Next]_(Promise!vars)
  <2>1. CASE UNCHANGED vars
    BY <2>1 DEF vars, Promise!vars
  <2> QED
    BY <2>1, PromiseStep
<1> QED
  BY <1>1, InitInv, InvStep, InitPromise, PTL DEF Spec, UploadSpec, Promise!Spec

-----------------------------------------------------------------------------
(***************************************************************************)
(* The file watcher.  A file that differs from what this process remembers *)
(* of it has been edited since the process read it.                        *)
(***************************************************************************)
EditedSince ==
    \A f \in Files :
        fileHashes[f] # Unseen /\ file[f].content # fileHashes[f] => f \in touched

\* A batch becomes pending when it is collected, and at no other time.
LEMMA PendingCollected ==
    ASSUME Inv, Next, NEW b \in Batches, log[b] # "pending", log'[b] = "pending"
    PROVE  Collect(b)
<1>1. CASE \E a \in Batches : Collect(a)
  BY <1>1 DEF Collect, Inv, TypeOK
<1>2. \A result \in {"delivered", "failed"} : ~Return(result)
  BY DEF Return, Inv, TypeOK
<1>3. ~RetryLater /\ ~Die /\ ~UNCHANGED log
  BY <1>2 DEF RetryLater, Die
<1>4. \E a \in Batches : Collect(a)
  BY <1>2, <1>3 DEF Next, AgentStep, ServerStep, Heartbeat, GiveUp, BackoffEnds, Post,
         Answered, Unanswered, Stop, Restart, Cancel, NewKey, Age, Expire, Guard, Insert,
         See, Discard, ServerFails, Tick, Toggle, Edit, Succeeded
<1> QED
  BY <1>1, <1>4

LEMMA EditedStep ==
    ASSUME Inv, EditedSince, [Next]_vars
    PROVE  EditedSince'
<1>1. CASE UNCHANGED <<file, fileHashes, touched>>
  BY <1>1 DEF EditedSince
<1>2. ASSUME NEW b \in Batches, Collect(b) PROVE EditedSince'
  BY <1>2 DEF EditedSince, Collect, Hashes, Inv, TypeOK
<1>3. CASE Restart
  BY <1>3 DEF EditedSince, Restart
<1>4. ASSUME NEW f \in Files, Toggle(f) PROVE EditedSince'
  <2>1. \A g \in Files : file'[g].content = file[g].content
    BY <1>4 DEF Toggle, Inv, TypeOK
  <2> QED
    BY <1>4, <2>1 DEF EditedSince, Toggle
<1>5. ASSUME NEW f \in Files, NEW x \in Contents, Edit(f, x) PROVE EditedSince'
  <2>1. \A g \in Files \ {f} : file'[g] = file[g]
    BY <1>5 DEF Edit, Inv, TypeOK
  <2> QED
    BY <1>5, <2>1 DEF EditedSince, Edit
<1>6. \/ UNCHANGED <<file, fileHashes, touched>>
      \/ Restart \/ \E b \in Batches : Collect(b)
      \/ \E f \in Files : Toggle(f) \/ \E x \in Contents : Edit(f, x)
  BY DEF Next, vars, AgentStep, ServerStep, Heartbeat, GiveUp, BackoffEnds, Post,
         Answered, Unanswered, Stop, Cancel, NewKey, Age, Expire, Guard, Insert,
         See, Discard, ServerFails, Tick
<1> QED
  BY <1>1, <1>2, <1>3, <1>4, <1>5, <1>6

(***************************************************************************)
(* The file watcher never invents a change, for any files, contents,       *)
(* restarts and files that vanish and come back: what a batch reports as   *)
(* changed has been edited since the process last read it.                 *)
(***************************************************************************)
THEOREM ChangesAreEdits == Spec => NoPhantomChange
<1>1. Init => EditedSince
  BY DEF Init, EditedSince
<1>2. ASSUME Inv, EditedSince, Next, NEW b \in Batches,
             log[b] # "pending", log'[b] = "pending"
      PROVE  changed'[b] \subseteq touched
  <2>1. Collect(b)
    BY <1>2, PendingCollected
  <2>2. changed'[b] = Changed
    BY <1>2, <2>1 DEF Collect, Inv, TypeOK
  <2> QED
    BY <1>2, <2>2 DEF Changed, EditedSince
<1>3. Inv /\ EditedSince /\ [Next]_vars =>
        [\A b \in Batches : log[b] # "pending" /\ log'[b] = "pending"
                              => changed'[b] \subseteq touched]_vars
  BY <1>2
<1> QED
  BY <1>1, <1>3, InitInv, InvStep, EditedStep, PTL DEF Spec, NoPhantomChange

-----------------------------------------------------------------------------
(***************************************************************************)
(* Copies.  An attempt that has not posted yet owes its request: while the *)
(* goroutine is trying, one attempt less is accounted for.                 *)
(***************************************************************************)
InServer(b) == {c \in Conns : /\ conns[c].batch = b
                              /\ conns[c].stage \in {"sent", "admitted"}}

Attempts(b) == IF agent.batch = b
               THEN IF agent.pc = "trying" THEN agent.attempt - 1 ELSE agent.attempt
               ELSE MaxAttempts

Counted == \A b \in Batches : stored[b] + Cardinality(InServer(b)) <= Attempts(b)

CopiesInv == Inv /\ Counted

LEMMA InServerFinite ==
    ASSUME NEW b
    PROVE  /\ IsFiniteSet(InServer(b)) /\ Cardinality(InServer(b)) \in Nat
           /\ IsFiniteSet(InServer(b)') /\ Cardinality(InServer(b)') \in Nat
<1>1. InServer(b) \subseteq Conns /\ InServer(b)' \subseteq Conns /\ IsFiniteSet(Conns)
  BY AgentAssumption DEF InServer
<1> QED
  BY <1>1, FS_Subset, FS_CardinalityType

LEMMA AttemptsType ==
    ASSUME TypeOK, NEW b \in Batches
    PROVE  Attempts(b) \in Int /\ Attempts(b) <= MaxAttempts /\ stored[b] \in Nat
BY AgentAssumption DEF TypeOK, Agent, Attempts

\* Nothing is stored, no request is sent, and no attempt is taken back.
LEMMA NoMoreCopies ==
    ASSUME CopiesInv, TypeOK', stored' = stored,
           \A c \in Conns : conns'[c].stage \in {"sent", "admitted"} =>
              /\ conns'[c].batch = conns[c].batch
              /\ conns[c].stage \in {"sent", "admitted"},
           \A b \in Batches : Attempts(b) <= Attempts(b)'
    PROVE  Counted'
<1> SUFFICES ASSUME NEW b \in Batches
             PROVE  stored'[b] + Cardinality(InServer(b)') <= Attempts(b)'
  BY DEF Counted
<1>1. InServer(b)' \subseteq InServer(b)
  BY DEF InServer
<1>2. Cardinality(InServer(b)') <= Cardinality(InServer(b))
  BY <1>1, InServerFinite, FS_Subset
<1>3. stored[b] + Cardinality(InServer(b)) <= Attempts(b)
  BY DEF CopiesInv, Counted
<1>4. Attempts(b) \in Int /\ stored[b] \in Nat /\ Attempts(b) <= Attempts(b)'
  BY AttemptsType DEF CopiesInv, Inv
<1>5. Attempts(b)' \in Int
  <2>1. agent'.attempt \in 0 .. MaxAttempts
    BY DEF TypeOK, Agent
  <2> QED
    BY <2>1, AgentAssumption DEF Attempts
<1> QED
  BY <1>2, <1>3, <1>4, <1>5, InServerFinite

LEMMA ReturnAttempts ==
    ASSUME Inv, agent'.batch = NoBatch
    PROVE  \A b \in Batches : Attempts(b) <= Attempts(b)'
BY AttemptsType, AgentAssumption DEF Attempts, Inv

LEMMA RetryAttempts ==
    ASSUME Inv, agent.pc = "waiting", RetryLater
    PROVE  \A b \in Batches : Attempts(b) <= Attempts(b)'
<1>1. CASE Return("failed")
  BY <1>1, ReturnAttempts DEF Return, Started
<1>2. CASE agent' = [agent EXCEPT !.pc = "backoff"]
  BY <1>2, AttemptsType DEF Attempts, Inv, TypeOK, Agent
<1> QED
  BY <1>1, <1>2 DEF RetryLater

\* A batch that is collected has no copies and no requests.
LEMMA CollectCopies ==
    ASSUME CopiesInv, TypeOK', NEW a \in Batches, Collect(a)
    PROVE  Counted'
<1> SUFFICES ASSUME NEW b \in Batches
             PROVE  stored'[b] + Cardinality(InServer(b)') <= Attempts(b)'
  BY DEF Counted
<1>1. InServer(b)' = InServer(b) /\ agent'.batch = a /\ agent'.pc = "trying" /\ agent'.attempt = 1
  BY DEF Collect, Begin, InServer
<1>2. CASE b = a
  <2>1. InServer(b) = {} /\ stored'[b] = 0
    BY <1>2 DEF Collect, InServer, CopiesInv, Inv, TypeOK
  <2>2. Cardinality(InServer(b)') = 0
    BY <1>1, <2>1, FS_EmptySet
  <2>3. Attempts(b)' = 0
    BY <1>1, <1>2 DEF Attempts
  <2> QED
    BY <2>1, <2>2, <2>3
<1>3. CASE b # a
  <2>1. stored'[b] = stored[b] /\ Attempts(b)' = MaxAttempts
    BY <1>1, <1>3 DEF Collect, CopiesInv, Inv, TypeOK, Attempts
  <2>2. stored[b] + Cardinality(InServer(b)) <= Attempts(b)
    BY DEF CopiesInv, Counted
  <2> QED
    BY <1>1, <2>1, <2>2, AttemptsType, InServerFinite, AgentAssumption DEF CopiesInv, Inv
<1> QED
  BY <1>2, <1>3

\* The attempt that is owed is posted.
LEMMA PostCopies ==
    ASSUME CopiesInv, TypeOK', NEW c \in Conns, Post(c)
    PROVE  Counted'
<1> SUFFICES ASSUME NEW b \in Batches
             PROVE  stored'[b] + Cardinality(InServer(b)') <= Attempts(b)'
  BY DEF Counted
<1>1. /\ agent.pc = "trying" /\ agent'.pc = "waiting" /\ agent'.batch = agent.batch
      /\ agent'.attempt = agent.attempt /\ stored' = stored
  BY DEF Post, CopiesInv, Inv, TypeOK, Agent
<1>2. /\ conns'[c].batch = agent.batch /\ conns[c].stage = "none"
      /\ \A d \in Conns \ {c} : conns'[d] = conns[d]
  BY DEF Post, Closed, CopiesInv, Inv, TypeOK
<1>3. stored[b] + Cardinality(InServer(b)) <= Attempts(b)
  BY DEF CopiesInv, Counted
<1>4. CASE b = agent.batch
  <2>1. InServer(b)' \subseteq InServer(b) \union {c} /\ c \notin InServer(b)
    BY <1>2 DEF InServer
  <2>2. /\ IsFiniteSet(InServer(b) \union {c})
        /\ Cardinality(InServer(b) \union {c}) = Cardinality(InServer(b)) + 1
    BY <2>1, InServerFinite, FS_AddElement
  <2>3. Cardinality(InServer(b)') <= Cardinality(InServer(b)) + 1
    BY <2>1, <2>2, FS_Subset
  <2>4. Attempts(b)' = Attempts(b) + 1
    BY <1>1, <1>4 DEF Attempts, CopiesInv, Inv, TypeOK, Agent
  <2> QED
    BY <1>1, <1>3, <2>3, <2>4, AttemptsType, InServerFinite DEF CopiesInv, Inv
<1>5. CASE b # agent.batch
  <2>1. InServer(b)' = InServer(b) /\ Attempts(b)' = Attempts(b)
    BY <1>1, <1>2, <1>5 DEF InServer, Attempts
  <2> QED
    BY <1>1, <1>3, <2>1
<1> QED
  BY <1>4, <1>5

\* A copy more is a request less.
LEMMA InsertCopies ==
    ASSUME CopiesInv, TypeOK', NEW c \in Conns, Insert(c)
    PROVE  Counted'
<1> SUFFICES ASSUME NEW b \in Batches
             PROVE  stored'[b] + Cardinality(InServer(b)') <= Attempts(b)'
  BY DEF Counted
<1>1. /\ conns[c].stage = "admitted" /\ conns'[c].stage = "stored"
      /\ \A d \in Conns \ {c} : conns'[d] = conns[d]
      /\ Attempts(b)' = Attempts(b)
  BY DEF Insert, Advance, Attempts, CopiesInv, Inv, TypeOK, Conn
<1>2. stored[b] + Cardinality(InServer(b)) <= Attempts(b)
  BY DEF CopiesInv, Counted
<1>3. CASE b = conns[c].batch
  <2>1. InServer(b)' = InServer(b) \ {c} /\ c \in InServer(b)
    BY <1>1, <1>3 DEF InServer
  <2>2. Cardinality(InServer(b)') = Cardinality(InServer(b)) - 1
    BY <2>1, InServerFinite, FS_RemoveElement
  <2>3. stored'[b] = stored[b] + 1
    BY <1>3 DEF Insert, CopiesInv, Inv, TypeOK
  <2> QED
    BY <1>1, <1>2, <2>2, <2>3, AttemptsType, InServerFinite DEF CopiesInv, Inv
<1>4. CASE b # conns[c].batch
  <2>1. InServer(b)' = InServer(b) /\ stored'[b] = stored[b]
    BY <1>1, <1>4 DEF InServer, Insert, CopiesInv, Inv, TypeOK
  <2> QED
    BY <1>1, <1>2, <2>1
<1> QED
  BY <1>3, <1>4

LEMMA CopiesStep == CopiesInv /\ [Next]_vars => CopiesInv'
<1> SUFFICES ASSUME CopiesInv, [Next]_vars PROVE CopiesInv'
  OBVIOUS
<1>t. Inv' /\ TypeOK'
  BY InvStep DEF CopiesInv, Inv
<1>i. Inv
  BY DEF CopiesInv
<1> SUFFICES Counted'
  BY <1>t DEF CopiesInv
<1>1. CASE UNCHANGED <<agent, conns, stored>>
  BY <1>1 DEF CopiesInv, Counted, InServer, Attempts
<1>2. ASSUME NEW b \in Batches, Collect(b) PROVE Counted'
  BY <1>2, <1>t, CollectCopies
<1>3. ASSUME NEW c \in Conns, Post(c) \/ Insert(c) PROVE Counted'
  BY <1>3, <1>t, PostCopies, InsertCopies
<1>4. CASE Heartbeat \/ GiveUp \/ BackoffEnds \/ Expire
  <2>1. stored' = stored /\ conns' = conns
    BY <1>4 DEF Heartbeat, GiveUp, BackoffEnds, Expire
  <2>2. \A b \in Batches : Attempts(b) <= Attempts(b)'
    <3>1. CASE Heartbeat \/ GiveUp
      BY <1>i, <3>1, ReturnAttempts DEF Heartbeat, Begin, GiveUp, Return, Started
    <3>2. CASE BackoffEnds \/ Expire
      <4>1. agent \in Agent
        BY <1>i DEF Inv, TypeOK
      <4>2. /\ agent'.batch = agent.batch
            /\ \/ agent'.pc = agent.pc /\ agent'.attempt = agent.attempt
               \/ agent.pc = "backoff" /\ agent'.attempt = agent.attempt + 1
        BY <3>2, <4>1 DEF BackoffEnds, Expire, Agent
      <4>3. agent.attempt \in Nat
        BY <4>1, AgentAssumption DEF Agent
      <4> QED
        BY <4>2, <4>3, AgentAssumption DEF Attempts
    <3> QED
      BY <1>4, <3>1, <3>2
  <2> QED
    BY <1>t, <2>1, <2>2, NoMoreCopies
<1>5. CASE Stop \/ Restart
  <2>1. /\ stored' = stored
        /\ \A c \in Conns : /\ conns'[c].batch = conns[c].batch
                             /\ conns'[c].stage = conns[c].stage
    BY <1>5, <1>i DEF Stop, Restart, Die, Inv, TypeOK, Conn
  <2>2. \A b \in Batches : Attempts(b) <= Attempts(b)'
    BY <1>5, <1>i, ReturnAttempts DEF Stop, Restart, Started
  <2> QED
    BY <1>t, <2>1, <2>2, NoMoreCopies
<1>6. ASSUME NEW c \in Conns, Answered(c) \/ Unanswered(c) PROVE Counted'
  <2>1. /\ stored' = stored /\ agent.pc = "waiting"
        /\ RetryLater \/ (\E result \in {"delivered", "failed"} : Return(result))
    BY <1>6, <1>i DEF Answered, Unanswered, Inv, AwaitedOwn
  <2>2. \A d \in Conns : conns'[d].stage \in {"sent", "admitted"} =>
           conns'[d].batch = conns[d].batch /\ conns[d].stage \in {"sent", "admitted"}
    BY <1>6, <1>i DEF Answered, Unanswered, Closed, Inv, TypeOK, Conn
  <2>3. \A b \in Batches : Attempts(b) <= Attempts(b)'
    BY <1>i, <2>1, RetryAttempts, ReturnAttempts DEF Return, Started
  <2> QED
    BY <1>t, <2>1, <2>2, <2>3, NoMoreCopies
<1>7. ASSUME NEW c \in Conns, Guard(c) \/ See(c) \/ Discard(c) \/ ServerFails(c) PROVE Counted'
  <2>1. /\ stored' = stored /\ agent' = agent
        /\ \A d \in Conns : conns'[d].stage \in {"sent", "admitted"} =>
             conns'[d].batch = conns[d].batch /\ conns[d].stage \in {"sent", "admitted"}
    BY <1>7, <1>i DEF Guard, See, Discard, ServerFails, Advance, Closed, Inv, TypeOK, Conn
  <2>2. \A b \in Batches : Attempts(b) <= Attempts(b)'
    BY <1>i, <2>1, AttemptsType DEF Attempts, Inv
  <2> QED
    BY <1>t, <2>1, <2>2, NoMoreCopies
<1>8. \/ UNCHANGED <<agent, conns, stored>>
      \/ Heartbeat \/ GiveUp \/ BackoffEnds \/ Expire \/ Stop \/ Restart
      \/ \E b \in Batches : Collect(b)
      \/ \E c \in Conns : \/ Post(c) \/ Insert(c) \/ Answered(c) \/ Unanswered(c)
                         \/ Guard(c) \/ See(c) \/ Discard(c) \/ ServerFails(c)
  BY DEF Next, vars, AgentStep, ServerStep, Cancel, NewKey, Age, Tick, Toggle, Edit
<1> QED
  BY <1>1, <1>2, <1>3, <1>4, <1>5, <1>6, <1>7, <1>8

(***************************************************************************)
(* Copies are accounted for, whatever the number of attempts, requests and *)
(* faults: a batch is in the Metric table at most once per attempt, and a  *)
(* late request of an attempt that was given up is counted already.        *)
(***************************************************************************)
THEOREM CopiesAccounted == Spec => []CopiesBounded
<1>1. Init => CopiesInv
  <2> SUFFICES ASSUME Init PROVE Counted
    BY InitInv DEF CopiesInv
  <2>1. \A b \in Batches : /\ InServer(b) = {} /\ stored[b] = 0
                            /\ Attempts(b) = MaxAttempts
    BY AgentAssumption DEF Init, InServer, Closed, Attempts, Started
  <2> QED
    BY <2>1, FS_EmptySet, AgentAssumption DEF Counted
<1>2. CopiesInv => CopiesBounded
  <2> SUFFICES ASSUME CopiesInv, NEW b \in Batches
               PROVE  stored[b] + Cardinality(InServer(b))
                        <= IF agent.batch = b THEN agent.attempt ELSE MaxAttempts
    BY DEF CopiesBounded, InServer
  <2>1. Attempts(b) <= IF agent.batch = b THEN agent.attempt ELSE MaxAttempts
    BY AgentAssumption DEF CopiesInv, Inv, TypeOK, Agent, Attempts
  <2>2. stored[b] + Cardinality(InServer(b)) <= Attempts(b)
    BY DEF CopiesInv, Counted
  <2> QED
    BY <2>1, <2>2, AttemptsType, InServerFinite, AgentAssumption DEF CopiesInv, Inv, TypeOK, Agent
<1> QED
  BY <1>1, <1>2, CopiesStep, PTL DEF Spec
=============================================================================
