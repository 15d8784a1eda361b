--------------------------- MODULE AgentHostProofs ---------------------------
(***************************************************************************)
(* What a host of the agent promises: one collection, for any set of       *)
(* collectors followed, any answers and any order of the goroutines; the   *)
(* rates of the network collector, for any interfaces and any width of the *)
(* counters; and the installation, for any number of keys.                 *)
(***************************************************************************)
EXTENDS MCAgentHost, FiniteSetTheorems, TLAPS

-----------------------------------------------------------------------------
(***************************************************************************)
(* The collection.                                                         *)
(***************************************************************************)
State == [pc : {"absent", "running", "answered", "sent", "done"}, answer : Answers]

Types ==
    /\ registered \subseteq Workers
    /\ caller \in {"starting", "ranging", "returned"}
    /\ worker \in [Workers -> State]
    /\ ch \in Seq(Workers)
    /\ all \in Seq(Workers)

\* Only what is followed runs, and nothing runs when nobody collects.
Followed ==
    /\ \A w \in Workers :
         worker[w].pc # "absent" => w \in registered \/ caller # "ranging"
    /\ caller = "ranging" => \A w \in registered : worker[w].pc # "absent"
    /\ caller # "ranging" => \A w \in Workers : worker[w].pc \in {"absent", "done"}
    /\ closed /\ caller = "ranging" => AllDone

Places(s, w) == {i \in DOMAIN s : s[i] = w}

\* An answer is in the channel once, and before its points are taken.
Queued ==
    /\ \A i \in DOMAIN ch :
         worker[ch[i]].pc \in {"sent", "done"} /\ Places(all, ch[i]) = {}
    /\ \A i, j \in DOMAIN ch : ch[i] = ch[j] => i = j

\* Points are taken once, of answers without an error.
TakenOnce ==
    /\ \A i \in DOMAIN all :
         worker[all[i]].pc \in {"sent", "done"} /\ ~worker[all[i]].answer.err
    /\ \A i, j \in DOMAIN all : all[i] = all[j] => i = j

\* What was sent is still in the channel or has been taken.
Underway ==
    caller = "ranging" =>
      \A w \in Workers :
        worker[w].pc \in {"sent", "done"} /\ ~worker[w].answer.err =>
          (\E i \in DOMAIN ch : ch[i] = w) \/ Places(all, w) # {}

GatherInv == Types /\ Followed /\ Queued /\ TakenOnce /\ Underway

-----------------------------------------------------------------------------
LEMMA AnswerType ==
    /\ Failed \in Answers
    /\ \A w \in Workers : Collect[w] \subseteq Answers
BY DEF Answers, Workers

LEMMA InitGather == Init => GatherInv
<1> SUFFICES ASSUME Init PROVE GatherInv
  OBVIOUS
<1>1. Absent \in State /\ Absent.pc = "absent"
  BY AnswerType DEF Absent, State
<1>2. Types
  BY <1>1 DEF Init, Types
<1> QED
  BY <1>1, <1>2 DEF Init, GatherInv, Followed, Queued, TakenOnce, Underway, Places

\* A goroutine goes on; what it has answered already stays.
LEMMA GoesOn ==
    ASSUME GatherInv, NEW w \in Workers, NEW x \in State, x.pc # "absent",
           worker' = [worker EXCEPT ![w] = x],
           worker[w].pc \in {"running", "answered", "sent"},
           worker[w].pc = "sent" => x.pc \in {"sent", "done"} /\ x.answer = worker[w].answer,
           UNCHANGED <<registered, caller, closed, all>>,
           \/ ch' = ch /\ (x.pc \in {"sent", "done"} => worker[w].pc = "sent")
           \/ ch' = Append(ch, w) /\ worker[w].pc = "answered" /\ x.pc = "sent"
    PROVE  GatherInv'
<1>1. Types'
  <2>1. ch \in Seq(Workers)
    BY DEF GatherInv, Types
  <2>2. Append(ch, w) \in Seq(Workers)
    BY <2>1
  <2> QED
    BY <2>1, <2>2 DEF GatherInv, Types
<1>2. /\ worker'[w] = x
      /\ \A v \in Workers \ {w} : worker'[v] = worker[v]
  BY DEF GatherInv, Types
<1>3. caller = "ranging" /\ ~closed
  BY DEF GatherInv, Followed, Types, AllDone
<1>4. Followed'
  BY <1>2, <1>3 DEF GatherInv, Followed, Types
<1>5. TakenOnce'
  BY <1>2 DEF GatherInv, TakenOnce, Types
<1>6. Queued' /\ Underway'
  <2>1. CASE ch' = ch /\ (x.pc \in {"sent", "done"} => worker[w].pc = "sent")
    BY <1>2, <2>1 DEF GatherInv, Queued, Underway, Places, Types
  <2>2. CASE ch' = Append(ch, w) /\ worker[w].pc = "answered" /\ x.pc = "sent"
    <3>1. \A i \in DOMAIN ch : ch[i] # w
      BY <2>2 DEF GatherInv, Queued
    <3>2. Places(all, w) = {}
      BY <2>2 DEF GatherInv, TakenOnce, Places
    <3>3. /\ DOMAIN ch' = DOMAIN ch \union {Len(ch) + 1} /\ ch'[Len(ch) + 1] = w
          /\ \A i \in DOMAIN ch : ch'[i] = ch[i] /\ ch[i] \in Workers
      BY <2>2 DEF GatherInv, Types
    <3>4. Queued'
      BY <1>2, <2>2, <3>1, <3>2, <3>3 DEF GatherInv, Queued, Places
    <3>5. Underway'
      BY <1>2, <3>3 DEF GatherInv, Underway, Places
    <3> QED
      BY <3>4, <3>5
  <2> QED
    BY <2>1, <2>2
<1> QED
  BY <1>1, <1>4, <1>5, <1>6 DEF GatherInv

LEMMA ReceiveKeeps ==
    ASSUME GatherInv, Receive
    PROVE  GatherInv'
<1>0. ch # <<>> /\ Head(ch) \in Workers
  BY DEF GatherInv, Types, Receive
<1> PICK w \in Workers : w = Head(ch)
  BY <1>0
<1>1. /\ w = ch[1] /\ 1 \in DOMAIN ch
      /\ ch' = Tail(ch) /\ ch' \in Seq(Workers)
      /\ DOMAIN ch' = 1 .. Len(ch) - 1
      /\ \A i \in 1 .. Len(ch) - 1 : ch'[i] = ch[i + 1] /\ i + 1 \in DOMAIN ch
      /\ \A i \in DOMAIN ch : i # 1 => i - 1 \in 1 .. Len(ch) - 1
  BY <1>0 DEF GatherInv, Types, Receive
<1>2. /\ worker[w].pc \in {"sent", "done"} /\ Places(all, w) = {}
      /\ \A i \in DOMAIN ch' : ch'[i] # w
  BY <1>1 DEF GatherInv, Queued
<1>3. UNCHANGED <<registered, caller, worker, closed>>
  BY DEF Receive
<1>4. Followed'
  BY <1>3 DEF GatherInv, Followed, AllDone
<1>5. CASE all' = all /\ worker[w].answer.err
  <2>1. Types' /\ TakenOnce'
    BY <1>1, <1>3, <1>5 DEF GatherInv, Types, TakenOnce
  <2>2. Queued'
    BY <1>1, <1>3, <1>5 DEF GatherInv, Queued, Places
  <2>3. Underway'
    <3>1. ASSUME NEW v \in Workers, NEW i \in DOMAIN ch, ch[i] = v, v # w
          PROVE  \E j \in DOMAIN ch' : ch'[j] = v
      BY <1>1, <3>1
    <3> QED
      BY <1>3, <1>5, <3>1 DEF GatherInv, Underway, Places
  <2> QED
    BY <1>4, <2>1, <2>2, <2>3 DEF GatherInv
<1>6. CASE all' = Append(all, w) /\ ~worker[w].answer.err
  <2>1. /\ DOMAIN all' = DOMAIN all \union {Len(all) + 1} /\ all'[Len(all) + 1] = w
        /\ \A i \in DOMAIN all : all'[i] = all[i] /\ i # Len(all) + 1
        /\ all' \in Seq(Workers)
    BY <1>1, <1>6 DEF GatherInv, Types
  <2>2. \A i \in DOMAIN all : all[i] # w
    BY <1>2 DEF Places
  <2>3. Types'
    BY <1>1, <1>3, <2>1 DEF GatherInv, Types
  <2>4. TakenOnce'
    BY <1>2, <1>3, <1>6, <2>1, <2>2 DEF GatherInv, TakenOnce
  <2>5. \A v \in Workers \ {w} : Places(all', v) = Places(all, v)
    BY <2>1 DEF Places
  <2>6. Queued'
    <3>1. \A i \in DOMAIN ch' : ch'[i] \in Workers \ {w}
      BY <1>1, <1>2
    <3>2. \A i \in DOMAIN ch' : worker'[ch'[i]].pc \in {"sent", "done"} /\ Places(all', ch'[i]) = {}
      <4> SUFFICES ASSUME NEW i \in DOMAIN ch'
                   PROVE  worker'[ch'[i]].pc \in {"sent", "done"} /\ Places(all', ch'[i]) = {}
        OBVIOUS
      <4>1. ch'[i] = ch[i + 1] /\ i + 1 \in DOMAIN ch
        BY <1>1
      <4>2. worker[ch[i + 1]].pc \in {"sent", "done"} /\ Places(all, ch[i + 1]) = {}
        BY <4>1 DEF GatherInv, Queued
      <4> QED
        BY <1>3, <2>1, <3>1, <4>1, <4>2 DEF Places
    <3>3. \A i, j \in DOMAIN ch' : ch'[i] = ch'[j] => i = j
      BY <1>1 DEF GatherInv, Queued, Types
    <3> QED
      BY <3>2, <3>3 DEF Queued, Places
  <2>7. Underway'
    <3>1. ASSUME NEW v \in Workers, NEW i \in DOMAIN ch, ch[i] = v, v # w
          PROVE  \E j \in DOMAIN ch' : ch'[j] = v
      BY <1>1, <3>1
    <3>2. Places(all', w) # {}
      BY <2>1 DEF Places
    <3> QED
      BY <1>3, <2>5, <3>1, <3>2 DEF GatherInv, Underway
  <2> QED
    BY <1>4, <2>3, <2>4, <2>6, <2>7 DEF GatherInv
<1> QED
  BY <1>5, <1>6 DEF Receive, Kept

LEMMA GatherStep == GatherInv /\ [Next]_vars => GatherInv'
<1> SUFFICES ASSUME GatherInv, [Next]_vars PROVE GatherInv'
  OBVIOUS
<1>t. Types
  BY DEF GatherInv
<1>1. ASSUME NEW toggles \in SUBSET Toggled, Configure(toggles) PROVE GatherInv'
  <2>1. Toggled \subseteq Workers
    BY DEF Toggled, Workers, Collect
  <2>2. Types'
    BY <1>1, <1>t, <2>1 DEF Configure, Types
  <2> QED
    BY <1>1, <2>2 DEF Configure, GatherInv, Followed, Queued, TakenOnce, Underway
<1>2. CASE Begin
  <2>1. /\ Absent \in State /\ [Absent EXCEPT !.pc = "running"] \in State
        /\ Absent.pc = "absent" /\ [Absent EXCEPT !.pc = "running"].pc = "running"
    BY AnswerType DEF Absent, State
  <2>2. Types' /\ Followed'
    BY <1>2, <1>t, <2>1 DEF Begin, Types, Followed, AllDone
  <2>3. \A w \in Workers : worker'[w].pc \in {"absent", "running"}
    BY <1>2, <2>1 DEF Begin
  <2> QED
    BY <1>2, <2>2, <2>3 DEF Begin, GatherInv, Queued, TakenOnce, Underway, Places
<1>3. ASSUME NEW w \in Workers, NEW answer \in Answers, Settle(w, answer) PROVE GatherInv'
  <2>1. [pc |-> "answered", answer |-> answer] \in State
    BY DEF State
  <2> QED
    BY <1>3, <2>1, GoesOn DEF Settle
<1>4. ASSUME NEW w \in Workers, Send(w) \/ Done(w) PROVE GatherInv'
  <2> DEFINE to == IF worker[w].pc = "answered" THEN "sent" ELSE "done"
             x == [worker[w] EXCEPT !.pc = to]
  <2>1. x \in State /\ x.pc = to /\ x.answer = worker[w].answer
    BY <1>t DEF Types, State
  <2>2. worker' = [worker EXCEPT ![w] = x]
    BY <1>4 DEF Send, Done, Step
  <2>3. \/ worker[w].pc = "answered" /\ ch' = Append(ch, w) /\ to = "sent"
        \/ worker[w].pc = "sent" /\ ch' = ch /\ to = "done"
    BY <1>4 DEF Send, Done, Step
  <2>4. UNCHANGED <<registered, caller, closed, all>>
    BY <1>4 DEF Send, Done
  <2> HIDE DEF x, to
  <2> QED
    BY <2>1, <2>2, <2>3, <2>4, GoesOn
<1>5. CASE Close \/ Return \/ Expire \/ Freeze
  <2>1. UNCHANGED <<registered, worker, ch, all>>
    BY <1>5 DEF Close, Return, Expire, Freeze
  <2>2. Types' /\ Underway'
    BY <1>5, <1>t, <2>1 DEF GatherInv, Types, Underway, Close, Return, Expire, Freeze
  <2>3. Followed'
    BY <1>5, <1>t, <2>1 DEF GatherInv, Types, Followed, AllDone, Close, Return, Expire, Freeze
  <2> QED
    BY <2>1, <2>2, <2>3 DEF GatherInv, Queued, TakenOnce
<1>6. CASE UNCHANGED vars
  BY <1>6 DEF vars, GatherInv, Types, Followed, AllDone, Queued, TakenOnce, Underway
<1>7. ASSUME NEW w \in Workers, Answer(w) \/ Panic(w)
      PROVE  \E answer \in Answers : Settle(w, answer)
  BY <1>7, AnswerType DEF Answer, Panic, Recover
<1> QED
  BY <1>1, <1>2, <1>3, <1>4, <1>5, <1>6, <1>7, ReceiveKeeps DEF Next

-----------------------------------------------------------------------------
(***************************************************************************)
(* Each step is one of Gather's, or none.                                  *)
(***************************************************************************)
LEMMA TakenIs ==
    ASSUME GatherInv, NEW w \in Workers
    PROVE  Taken(w) = IF Places(all, w) = {} THEN 0 ELSE 1
<1>1. CASE Places(all, w) = {}
  BY <1>1, FS_EmptySet DEF Taken, Places
<1>2. CASE Places(all, w) # {}
  <2> PICK i \in DOMAIN all : all[i] = w
    BY <1>2 DEF Places
  <2>1. Places(all, w) = {i}
    BY DEF Places, GatherInv, TakenOnce
  <2> QED
    BY <1>2, <2>1, FS_Singleton DEF Taken, Places
<1> QED
  BY <1>1, <1>2

LEMMA VerdictIs ==
    ASSUME GatherInv, NEW w \in Workers
    PROVE  Verdict(w) = IF worker[w].pc = "absent" THEN "none"
                        ELSE IF worker[w].pc = "running" THEN "open"
                        ELSE IF worker[w].answer.err THEN "bad" ELSE "good"
BY DEF Verdict, GatherInv, Types, State

LEMMA InitGathered == Init => Gathered!Init
<1> SUFFICES ASSUME Init PROVE Gathered!Init
  OBVIOUS
<1>1. \A w \in Workers : Verdict(w) = "none"
  BY DEF Init, Verdict, Absent
<1>2. \A w \in Workers : Taken(w) = 0
  BY InitGather, TakenIs DEF Init, Places
<1> QED
  BY <1>1, <1>2 DEF Init, Gathered!Init

LEMMA GatheredStep ==
    ASSUME GatherInv, GatherInv', [Next]_vars
    PROVE  [Gathered!Next]_(Gathered!vars)
<1> DEFINE verdict == [w \in Workers |-> Verdict(w)]
           parcel == [w \in Workers |-> Taken(w)]
<1>n. ASSUME caller' = caller, worker' = worker, all' = all
      PROVE  UNCHANGED Gathered!vars
  BY <1>n DEF Gathered!vars, Verdict, Taken
<1>1. ASSUME NEW toggles \in SUBSET Toggled, Configure(toggles)
      PROVE  UNCHANGED Gathered!vars
  BY <1>1 DEF Configure, Gathered!vars, Verdict, Taken
<1>2. CASE Begin
  <2>1. \A w \in Workers : Verdict(w)' = IF w \in registered THEN "open" ELSE "none"
    BY <1>2 DEF Begin, Verdict, Absent
  <2>2. \A w \in Workers : Taken(w)' = 0
    <3>1. all' = <<>>
      BY <1>2 DEF Begin
    <3>2. \A w \in Workers : Taken(w)' = Cardinality({})
      BY <3>1 DEF Taken
    <3> QED
      BY <3>2, FS_EmptySet
  <2>3. registered \in SUBSET Workers /\ caller = "returned" /\ caller' = "ranging"
    BY <1>2 DEF Begin, GatherInv, Types
  <2>4. Gathered!Begin(registered)
    BY <2>1, <2>2, <2>3 DEF Gathered!Begin
  <2> QED
    BY <2>3, <2>4 DEF Gathered!Next
<1>3. ASSUME NEW w \in Workers, NEW answer \in Answers, Settle(w, answer)
      PROVE  \E v \in {"good", "bad"} : Gathered!Settle(w, v)
  <2> DEFINE v == IF answer.err THEN "bad" ELSE "good"
  <2>1. /\ worker[w].pc = "running" /\ worker'[w] = [pc |-> "answered", answer |-> answer]
        /\ \A u \in Workers \ {w} : worker'[u] = worker[u]
        /\ caller' = caller /\ all' = all
    BY <1>3 DEF Settle, GatherInv, Types
  <2>2. Verdict(w) = "open" /\ Verdict(w)' = v
    BY <2>1 DEF Verdict
  <2>3. \A u \in Workers \ {w} : Verdict(u)' = Verdict(u)
    BY <2>1 DEF Verdict
  <2>4. \A u \in Workers : Taken(u)' = Taken(u)
    BY <2>1 DEF Taken
  <2>5. verdict' = [verdict EXCEPT ![w] = v]
    BY <2>2, <2>3
  <2>6. Gathered!Settle(w, v)
    BY <2>1, <2>2, <2>4, <2>5 DEF Gathered!Settle
  <2> QED
    BY <2>6
<1>4. ASSUME NEW w \in Workers, Send(w) \/ Done(w)
      PROVE  UNCHANGED Gathered!vars
  <2>1. /\ worker[w].pc \in {"answered", "sent"} /\ worker'[w].pc \in {"sent", "done"}
        /\ worker'[w].answer = worker[w].answer
        /\ \A u \in Workers \ {w} : worker'[u] = worker[u]
        /\ caller' = caller /\ all' = all
    BY <1>4 DEF Send, Done, Step, GatherInv, Types, State
  <2>2. \A u \in Workers : Verdict(u)' = Verdict(u)
    BY <2>1 DEF Verdict
  <2>3. \A u \in Workers : Taken(u)' = Taken(u)
    BY <2>1 DEF Taken
  <2>4. verdict' = verdict /\ parcel' = parcel
    BY <2>2, <2>3
  <2> QED
    BY <2>1, <2>4 DEF Gathered!vars
<1>5. CASE Receive
  <2>0. ch # <<>> /\ Head(ch) \in Workers /\ Head(ch) = ch[1] /\ 1 \in DOMAIN ch
    BY <1>5 DEF Receive, GatherInv, Types
  <2> PICK w \in Workers : w = Head(ch)
    BY <2>0
  <2>1. /\ worker[w].pc \in {"sent", "done"} /\ Places(all, w) = {}
        /\ UNCHANGED <<caller, worker>> /\ caller = "ranging"
    BY <1>5, <2>0 DEF Receive, GatherInv, Queued
  <2>2. \A u \in Workers : Verdict(u)' = Verdict(u)
    BY <2>1 DEF Verdict
  <2>3. CASE worker[w].answer.err /\ all' = all
    <3> QED
      BY <1>n, <2>1, <2>3
  <2>4. CASE ~worker[w].answer.err /\ all' = Append(all, w)
    <3>1. /\ DOMAIN all' = DOMAIN all \union {Len(all) + 1} /\ all'[Len(all) + 1] = w
          /\ \A i \in DOMAIN all : all'[i] = all[i]
      BY <2>4 DEF GatherInv, Types
    <3>2. \A u \in Workers \ {w} : Places(all', u) = Places(all, u)
      BY <3>1 DEF Places
    <3>3. \A u \in Workers \ {w} : Taken(u)' = Taken(u)
      BY <3>2 DEF Places, Taken
    <3>4. Places(all', w) = {Len(all) + 1}
      BY <2>1, <3>1 DEF Places
    <3>5. Taken(w)' = 1
      BY <3>4, FS_Singleton DEF Taken, Places
    <3>6. Taken(w) = 0 /\ Verdict(w) = "good"
      BY <2>1, <2>4, TakenIs, VerdictIs
    <3>7. parcel' = [parcel EXCEPT ![w] = 1]
      BY <3>3, <3>5
    <3>8. Gathered!Take(w)
      BY <2>1, <2>2, <3>6, <3>7 DEF Gathered!Take
    <3> QED
      BY <3>8 DEF Gathered!Next
  <2> QED
    BY <1>5, <2>3, <2>4 DEF Receive, Kept
<1>6. CASE Return
  <2>1. caller = "ranging" /\ caller' = "returned" /\ UNCHANGED <<worker, all>>
    BY <1>6 DEF Return
  <2>2. \A w \in Workers : worker[w].pc \in {"absent", "done"}
    BY <1>6 DEF Return, GatherInv, Followed, AllDone
  <2>3. \A w \in Workers : Places(all, w) # {} <=> Verdict(w) = "good"
    <3> SUFFICES ASSUME NEW w \in Workers
                 PROVE  Places(all, w) # {} <=> Verdict(w) = "good"
      OBVIOUS
    <3>1. Verdict(w) = "good" <=> worker[w].pc = "done" /\ ~worker[w].answer.err
      BY <2>2, VerdictIs
    <3>2. worker[w].pc = "done" /\ ~worker[w].answer.err => Places(all, w) # {}
      BY <1>6, <2>1 DEF Return, GatherInv, Underway
    <3>3. Places(all, w) # {} => worker[w].pc = "done" /\ ~worker[w].answer.err
      BY <2>2 DEF Places, GatherInv, TakenOnce
    <3> QED
      BY <3>1, <3>2, <3>3
  <2>4. \A w \in Workers : Verdict(w) # "open" /\ Verdict(w)' = Verdict(w) /\ Taken(w)' = Taken(w)
    <3>1. \A w \in Workers : Verdict(w) # "open"
      BY <2>2, VerdictIs
    <3> QED
      BY <2>1, <3>1 DEF Verdict, Taken
  <2>5. \A w \in Workers : Taken(w) = IF Verdict(w) = "good" THEN 1 ELSE 0
    BY <2>3, TakenIs
  <2>6. Gathered!End
    BY <2>1, <2>4, <2>5 DEF Gathered!End
  <2> QED
    BY <2>6 DEF Gathered!Next
<1>7. ASSUME Close \/ Expire \/ Freeze \/ UNCHANGED vars PROVE UNCHANGED Gathered!vars
  BY <1>7, <1>n DEF Close, Expire, Freeze, vars
<1>8. ASSUME NEW w \in Workers, Answer(w) \/ Panic(w)
      PROVE  \E answer \in Answers : Settle(w, answer)
  BY <1>8, AnswerType DEF Answer, Panic, Recover
<1>9. ASSUME NEW w \in Workers, NEW v \in {"good", "bad"}, Gathered!Settle(w, v)
      PROVE  Gathered!Next
  BY <1>9 DEF Gathered!Next
<1> QED
  BY <1>1, <1>2, <1>3, <1>4, <1>5, <1>6, <1>7, <1>8, <1>9 DEF Next

(***************************************************************************)
(* CollectAll implements Gather, for any number of collectors followed and *)
(* any order of their goroutines: it returns when each has answered, with  *)
(* the points of every one that succeeded exactly once and none of the     *)
(* others'.                                                                *)
(***************************************************************************)
THEOREM Gathers == Spec => GatherSpec
BY InitGather, GatherStep, InitGathered, GatheredStep, PTL DEF Spec, GatherSpec, Gathered!Spec

-----------------------------------------------------------------------------
(***************************************************************************)
(* The rates of the network collector.                                     *)
(***************************************************************************)
\* A sample that is younger than the last restart of its counter tells what
\* has been moved since.
Sampled(i) == i \in present /\ i \notin odd /\ prevSample[i] # Net!Unknown

NetInv ==
    /\ Net!TypeOK
    /\ since # Net!Unknown => since = age
    /\ \A i \in Ifaces :
         Sampled(i) => counter[i] = (prevSample[i] + moved[i]) % Net!Modulus
    /\ RateTrue

LEMMA ModuloRange ==
    ASSUME NEW M \in Nat, M > 0, NEW a \in Int
    PROVE  a % M \in 0 .. M - 1
BY SMT

LEMMA ModuloSmall ==
    ASSUME NEW M \in Nat, M > 0, NEW a \in Int, 0 <= a, a < M
    PROVE  (a + 0) % M = a
BY SMT

LEMMA SumModulo ==
    ASSUME NEW M \in Nat, M > 0, NEW a \in Int, NEW b \in Int,
           0 <= a, a < M, 0 <= b, b < M
    PROVE  (a + b) % M = IF a + b < M THEN a + b ELSE a + b - M
BY SMTT(60)

LEMMA DifferenceModulo ==
    ASSUME NEW M \in Nat, M > 0, NEW a \in Int, NEW b \in Int,
           0 <= a, a < M, 0 <= b, b < M
    PROVE  (a - b) % M = IF a >= b THEN a - b ELSE a - b + M
BY SMTT(60)

\* What has been moved is the difference, also when the counter wrapped.
LEMMA MovedIsDifference ==
    ASSUME NEW M \in Nat, M > 0, NEW a \in Int, NEW m \in Int,
           0 <= a, a < M, 0 <= m, m < M,
           NEW c \in Int, c = (a + m) % M
    PROVE  (c - a) % M = m
<1>1. c = IF a + m < M THEN a + m ELSE a + m - M
  BY SumModulo
<1>2. (c - a) % M = IF c >= a THEN c - a ELSE c - a + M
  BY <1>1, DifferenceModulo
<1> QED
  BY <1>1, <1>2

LEMMA MovesAdd ==
    ASSUME NEW M \in Nat, M > 0, NEW a \in Int, 0 <= a, a < M,
           NEW m \in Nat, NEW n \in Nat, m + n < M,
           NEW c \in Int, c = (a + m) % M
    PROVE  (c + n) % M = (a + (m + n)) % M
<1>1. c = IF a + m < M THEN a + m ELSE a + m - M
  BY SumModulo
<1>2. (c + n) % M = IF c + n < M THEN c + n ELSE c + n - M
  BY <1>1, SumModulo
<1>3. (a + (m + n)) % M = IF a + (m + n) < M THEN a + (m + n) ELSE a + (m + n) - M
  BY SumModulo
<1> QED
  BY <1>1, <1>2, <1>3

LEMMA ModulusNat == Net!Modulus \in Nat \ {0}
BY NetRateAssumption DEF Net!Modulus

LEMMA NetInit == Net!Init => NetInv
<1> SUFFICES ASSUME Net!Init PROVE NetInv
  OBVIOUS
<1> QED
  BY ModulusNat, NetRateAssumption
     DEF Net!Init, NetInv, Net!TypeOK, Sampled, Net!Unknown, Net!NoRate, RateTrue, Net!RateTrue

LEMMA NetTransfer ==
    ASSUME NetInv, NEW i \in Ifaces, NEW n \in 1 .. MaxBurst, Net!Transfer(i, n)
    PROVE  NetInv'
<1> USE DEF Net!Unknown
<1> DEFINE M == Net!Modulus
<1>0. M \in Nat \ {0} /\ n \in Nat
  BY ModulusNat, NetRateAssumption
<1> HIDE DEF M
<1>1. /\ counter' = [counter EXCEPT ![i] = (counter[i] + n) % M]
      /\ moved' = [moved EXCEPT ![i] = moved[i] + n]
      /\ moved[i] + n < M
      /\ UNCHANGED <<present, prevSample, since, rate, age, odd, truth>>
  BY DEF Net!Transfer, Net!memory, M
<1>2. /\ counter \in [Ifaces -> 0 .. M - 1] /\ moved \in [Ifaces -> 0 .. M - 1]
      /\ prevSample \in [Ifaces -> {-1} \union 0 .. M - 1]
  BY DEF NetInv, Net!TypeOK, M
<1>3. (counter[i] + n) % M \in 0 .. M - 1
  BY <1>0, <1>2, ModuloRange
<1>4. Net!TypeOK'
  <2>1. counter' \in [Ifaces -> 0 .. M - 1]
    BY <1>1, <1>2, <1>3
  <2>2. moved' \in [Ifaces -> 0 .. M - 1]
    BY <1>0, <1>1, <1>2
  <2> QED
    BY <1>1, <2>1, <2>2 DEF NetInv, Net!TypeOK, M
<1>5. ASSUME NEW j \in Ifaces, Sampled(j)'
      PROVE  counter'[j] = (prevSample'[j] + moved'[j]) % M
  <2>1. Sampled(j) /\ counter[j] = (prevSample[j] + moved[j]) % M
    BY <1>1, <1>5 DEF Sampled, NetInv, M
  <2>2. CASE j # i
    BY <1>1, <1>2, <2>1, <2>2
  <2>3. CASE j = i
    <3>1. PICK a \in Int, m \in Nat, c \in Int :
             a = prevSample[i] /\ m = moved[i] /\ c = counter[i]
      BY <1>2, <2>1, <2>3 DEF Sampled
    <3>2. M > 0 /\ 0 <= a /\ a < M /\ m + n < M /\ c = (a + m) % M
      BY <1>0, <1>1, <1>2, <2>1, <2>3, <3>1 DEF Sampled
    <3>3. (c + n) % M = (a + (m + n)) % M
      BY <1>0, <3>2, MovesAdd
    <3> QED
      BY <1>1, <1>2, <2>3, <3>1, <3>3
  <2> QED
    BY <2>2, <2>3
<1> QED
  BY <1>1, <1>4, <1>5 DEF NetInv, M, RateTrue, Net!RateTrue

\* A counter that starts from zero is odd until it is sampled again.
LEMMA NetRestart ==
    ASSUME NetInv, NEW i \in Ifaces, Net!Reset(i) \/ Net!Plug(i) \/ Net!Unplug(i)
    PROVE  NetInv'
<1>1. Net!TypeOK'
  BY ModulusNat
     DEF NetInv, Net!TypeOK, Net!Reset, Net!Plug, Net!Unplug, Net!memory, Net!history
<1> QED
  BY <1>1
     DEF NetInv, Net!TypeOK, Net!Reset, Net!Plug, Net!Unplug, Net!memory, Net!history,
         Sampled, RateTrue, Net!RateTrue

LEMMA NetTick ==
    ASSUME NetInv, Net!Tick
    PROVE  NetInv'
<1>1. Net!TypeOK' /\ (since' # Net!Unknown => since' = age')
  BY NetRateAssumption DEF NetInv, Net!TypeOK, Net!Tick, Net!host, Net!Unknown
<1> QED
  BY <1>1 DEF NetInv, Net!Tick, Net!host, Sampled, RateTrue, Net!RateTrue

LEMMA NetCollect ==
    ASSUME NetInv, Net!Collect
    PROVE  NetInv'
<1> USE DEF Net!Unknown
<1> DEFINE M == Net!Modulus
<1>0. M \in Nat \ {0}
  BY ModulusNat
<1> HIDE DEF M
<1>1. /\ counter \in [Ifaces -> 0 .. M - 1] /\ moved \in [Ifaces -> 0 .. M - 1]
      /\ prevSample \in [Ifaces -> {-1} \union 0 .. M - 1]
      /\ since \in {-1} \union 0 .. MaxAge /\ age \in 0 .. MaxAge
  BY DEF NetInv, Net!TypeOK, M
<1>2. ASSUME NEW i \in Ifaces
      PROVE  /\ prevSample[i] # -1 => Net!Difference(i) \in 0 .. M - 1
             /\ Sampled(i) => Net!Difference(i) = moved[i]
  <2>1. ASSUME prevSample[i] # -1
        PROVE  Net!Difference(i) \in 0 .. M - 1
    <3>1. prevSample[i] \in 0 .. M - 1 /\ counter[i] \in 0 .. M - 1
      BY <1>1, <2>1
    <3> QED
      BY <1>0, <3>1, DifferenceModulo DEF Net!Difference, M
  <2>2. ASSUME Sampled(i)
        PROVE  Net!Difference(i) = moved[i]
    <3>1. /\ prevSample[i] \in 0 .. M - 1 /\ moved[i] \in 0 .. M - 1
          /\ counter[i] = (prevSample[i] + moved[i]) % M
      BY <1>1, <2>2 DEF Sampled, NetInv, M
    <3> QED
      BY <1>0, <3>1, MovedIsDifference DEF Net!Difference, M
  <2> QED
    BY <2>1, <2>2
<1>3. ASSUME since # -1
      PROVE  Net!AtLeastOne(since) = Net!AtLeastOne(age)
  BY <1>3 DEF NetInv
<1>4. /\ Net!AtLeastOne(age) \in 1 .. MaxAge + 1
      /\ since # -1 => Net!AtLeastOne(since) \in 1 .. MaxAge + 1
  BY <1>1, NetRateAssumption DEF Net!AtLeastOne
<1> DEFINE Rates == [bytes : {-1} \union 0 .. M - 1, over : 1 .. MaxAge + 1]
<1>5. Net!NoRate \in Rates
  BY NetRateAssumption DEF Net!NoRate
<1>6. rate' \in [Ifaces -> Rates] /\ truth' \in [Ifaces -> Rates]
  <2>1. ASSUME NEW i \in Ifaces, Net!Sampled(i)
        PROVE  [bytes |-> Net!Difference(i), over |-> Net!AtLeastOne(since)] \in Rates
    BY <1>2, <1>4, <2>1 DEF Net!Sampled
  <2>2. ASSUME NEW i \in Ifaces
        PROVE  [bytes |-> moved[i], over |-> Net!AtLeastOne(age)] \in Rates
    BY <1>1, <1>4
  <2> HIDE DEF Rates
  <2> QED
    BY <1>5, <2>1, <2>2 DEF Net!Collect
<1>7. Net!TypeOK'
  <2>1. /\ prevSample' \in [Ifaces -> {-1} \union 0 .. M - 1]
        /\ moved' \in [Ifaces -> 0 .. M - 1]
        /\ since' = 0 /\ age' = 0 /\ odd' \subseteq Ifaces
    BY <1>0, <1>1 DEF Net!Collect, NetInv, Net!TypeOK
  <2> QED
    BY <1>6, <2>1, NetRateAssumption DEF NetInv, Net!TypeOK, Net!Collect, Net!host, M
<1>8. ASSUME NEW i \in Ifaces, Sampled(i)'
      PROVE  counter'[i] = (prevSample'[i] + moved'[i]) % M
  <2>1. prevSample'[i] = counter[i] /\ moved'[i] = 0 /\ counter' = counter
    BY <1>8 DEF Sampled, Net!Collect, Net!host
  <2>2. counter[i] \in 0 .. M - 1
    BY <1>1
  <2> QED
    BY <1>0, <2>1, <2>2, ModuloSmall
<1>9. RateTrue'
  <2> SUFFICES ASSUME NEW i \in Ifaces, rate'[i] # Net!NoRate, truth'[i] # Net!NoRate
               PROVE  rate'[i] = truth'[i]
    BY DEF RateTrue, Net!RateTrue
  <2>1. Net!Sampled(i) /\ i \notin odd
    BY DEF Net!Collect
  <2>2. Net!Difference(i) = moved[i] /\ Net!AtLeastOne(since) = Net!AtLeastOne(age)
    BY <1>2, <1>3, <2>1 DEF Sampled, Net!Sampled
  <2> QED
    BY <2>1, <2>2 DEF Net!Collect
<1> QED
  BY <1>7, <1>8, <1>9 DEF NetInv, Net!Collect, M

LEMMA NetCollectFails ==
    ASSUME NetInv, Net!CollectFails
    PROVE  NetInv'
<1>1. Net!TypeOK'
  BY NetRateAssumption
     DEF NetInv, Net!TypeOK, Net!CollectFails, Net!host, Net!history, Net!NoRate, Net!Unknown
<1> QED
  BY <1>1
     DEF NetInv, Net!CollectFails, Net!host, Net!history, Sampled, RateTrue, Net!RateTrue

LEMMA NetStep == NetInv /\ [Net!Next]_(Net!vars) => NetInv'
<1> SUFFICES ASSUME NetInv, [Net!Next]_(Net!vars) PROVE NetInv'
  OBVIOUS
<1>1. CASE UNCHANGED Net!vars
  BY <1>1 DEF NetInv, Net!TypeOK, Sampled, RateTrue, Net!RateTrue, Net!vars, Net!host,
              Net!memory, Net!history
<1>2. CASE Net!Next
  BY <1>2, NetTransfer, NetRestart, NetTick, NetCollect, NetCollectFails DEF Net!Next
<1> QED
  BY <1>1, <1>2

\* The rate published for an interface is what it moved since the last
\* collection that succeeded, over the time since then, for counters of any
\* width, also when a counter wrapped around, an interface went and came back,
\* or collections failed in between.
THEOREM RatesAreTrue == Net!Spec => []RateTrue
<1>1. NetInv => RateTrue
  BY DEF NetInv
<1> QED
  BY NetInit, NetStep, <1>1, PTL DEF Net!Spec

-----------------------------------------------------------------------------
(***************************************************************************)
(* The installation.                                                       *)
(***************************************************************************)
\* A script that is past its configuration has written its key there, and
\* says nothing before its end.  Past its fetch it has the whole program,
\* where it ends at the first failure, and on Linux no agent was up then.
ScriptInv ==
    /\ script.at # "idle" => script.key # 0 /\ report = "none"
    /\ script.at \in {"service", "start", "report"} => config = script.key
    /\ script.at \in {"config", "service", "start", "report"} /\ Install!This.stops =>
         binary = "whole"
    /\ script.at = "config" /\ system = "linux" /\ agent # 0 => rose

Flags == service \in BOOLEAN /\ cutOff \in BOOLEAN /\ rose \in BOOLEAN

Parts ==
    /\ system \in DOMAIN Install!Script
    /\ keys \in 1 .. MaxKeys
    /\ script \in [at : {"idle", "fetch", "config", "service", "start", "report"},
                   key : 0 .. MaxKeys]
    /\ binary \in {"none", "partial", "whole"}
    /\ config \in 0 .. Install!Torn
    /\ agent \in 0 .. MaxKeys
    /\ report \in {"none", "installed", "failed"}

InstallInv == Parts /\ Flags /\ ScriptInv /\ InstallKeeps

LEMMA EachSystem ==
    ASSUME system \in DOMAIN Install!Script
    PROVE  /\ Install!This.stops \in BOOLEAN /\ Install!This.replaces \subseteq BOOLEAN
           /\ system = "linux" => Install!This.stops /\ Install!This.replaces = {FALSE}
<1> USE DEF Install!Script, Install!This, Install!Linux, Install!FreeBSD, Install!MacOS,
            Install!Windows
<1>1. system \in {"linux", "freebsd", "darwin", "windows"}
  OBVIOUS
<1>2. CASE system = "linux"
  BY <1>2
<1>3. CASE system = "freebsd"
  BY <1>3
<1>4. CASE system = "darwin"
  BY <1>4
<1>5. CASE system = "windows"
  BY <1>5
<1> QED
  BY <1>1, <1>2, <1>3, <1>4, <1>5

LEMMA InstallInit == Install!Init => InstallInv
<1> SUFFICES ASSUME Install!Init PROVE InstallInv
  OBVIOUS
<1> USE InstallerAssumption DEF Install!Init, Install!Unused, Install!Torn
<1>1. Parts
  BY DEF Parts
<1>2. Flags
  BY DEF Flags
<1>3. ScriptInv /\ InstallKeeps
  BY DEF ScriptInv, InstallKeeps, Install!InstallKeeps
<1> QED
  BY <1>1, <1>2, <1>3 DEF InstallInv

LEMMA InstallStep == InstallInv /\ [Install!Next]_(Install!vars) => InstallInv'
<1> SUFFICES ASSUME InstallInv, [Install!Next]_(Install!vars) PROVE InstallInv'
  OBVIOUS
<1> USE InstallerAssumption
    DEF InstallInv, Install!installed, Install!To, Install!GoOn, Install!Failed,
        Install!Load, Install!Torn
<1> USE DEF Parts, ScriptInv, InstallKeeps, Install!InstallKeeps
<1>0. /\ Install!This.stops \in BOOLEAN /\ Install!This.replaces \subseteq BOOLEAN
      /\ system = "linux" => Install!This.stops /\ Install!This.replaces = {FALSE}
      /\ system' = system => Install!This' = Install!This
  BY EachSystem DEF Install!This
<1>1. CASE UNCHANGED Install!vars
  BY <1>0, <1>1 DEF Install!vars, Flags
<1>2. CASE Install!generateAgentToken
  BY <1>0, <1>2 DEF Flags, Install!generateAgentToken
<1>3. ASSUME NEW k \in 1 .. MaxKeys, Install!Run(k)
      PROVE  InstallInv'
  BY <1>0, <1>3 DEF Flags, Install!Run
<1>4. CASE Install!Fetch
  BY <1>0, <1>4 DEF Flags, Install!Fetch
<1>5. CASE Install!FetchRefused
  BY <1>0, <1>5 DEF Flags, Install!FetchRefused
<1>6. CASE Install!FetchBreaksOff
  BY <1>0, <1>6 DEF Flags, Install!FetchBreaksOff
<1>7. CASE Install!WriteConfig
  BY <1>0, <1>7 DEF Flags, Install!WriteConfig
<1>8. CASE Install!Register
  <2>1. Flags'
    BY <1>0, <1>8 DEF Flags, Install!Register
  <2>2. Parts' /\ ScriptInv' /\ InstallKeeps'
    BY <1>0, <1>8 DEF Flags, Install!Register
  <2> QED
    BY <2>1, <2>2
<1>9. CASE Install!Start
  BY <1>0, <1>9 DEF Flags, Install!Start
<1>10. CASE Install!Report
  BY <1>0, <1>10 DEF Flags, Install!Report
<1>11. CASE Install!AgentExits
  <2>1. Flags'
    BY <1>0, <1>11 DEF Flags, Install!AgentExits
  <2>2. Parts' /\ ScriptInv' /\ InstallKeeps'
    BY <1>0, <1>11 DEF Flags, Install!AgentExits
  <2> QED
    BY <2>1, <2>2
<1>12. CASE Install!AgentRises
  <2>1. Flags'
    BY <1>0, <1>12 DEF Flags, Install!AgentRises
  <2>2. Parts'
    BY <1>0, <1>12 DEF Install!AgentRises
  <2>3. ScriptInv'
    BY <1>0, <1>12 DEF Flags, Install!AgentRises
  <2>4. InstallKeeps'
    BY <1>0, <1>12 DEF Flags, Install!AgentRises
  <2> QED
    BY <2>1, <2>2, <2>3, <2>4
<1>13. CASE Install!Reboot
  <2>1. Flags'
    BY <1>0, <1>13 DEF Flags, Install!Reboot
  <2>2. Parts'
    BY <1>0, <1>13 DEF Install!Reboot
  <2>3. ScriptInv' /\ InstallKeeps'
    BY <1>0, <1>13 DEF Flags, Install!Reboot
  <2> QED
    BY <2>1, <2>2, <2>3
<1> QED
  BY <1>1, <1>2, <1>3, <1>4, <1>5, <1>6, <1>7, <1>8, <1>9, <1>10, <1>11, <1>12, <1>13
     DEF Install!Next

\* Whatever order keys are handed out and scripts run, fail, are cut off or
\* raced by the agent's restarts: a script that says it installed the agent
\* left its key, an agent that is up has the configured key but for one case
\* on Linux, and a registered service can be started but after a cut.
THEOREM InstallationKeeps == Install!Spec => []InstallKeeps
<1>1. InstallInv => InstallKeeps
  BY DEF InstallInv
<1> QED
  BY InstallInit, InstallStep, <1>1, PTL DEF Install!Spec

-----------------------------------------------------------------------------
(***************************************************************************)
(* The types of the three.                                                 *)
(***************************************************************************)
\* The channel is empty outside a collection and never holds more answers
\* than there are collectors, so no send waits.
Room ==
    /\ caller # "ranging" => ch = <<>>
    /\ closed \in BOOLEAN /\ expired \in BOOLEAN /\ stuck \in BOOLEAN

HostInv == GatherInv /\ Room /\ NetInv /\ InstallInv

LEMMA WorkersFinite == IsFiniteSet(Workers)
<1> DEFINE toggled == {"cpu", "memory", "disk", "load", "network"}
           always == {"processes", "docker", "syslog", "filewatch"}
<1>1. IsFiniteSet(toggled)
  <2>1. IsFiniteSet({"cpu"} \union {"memory"})
    BY FS_Singleton, FS_AddElement
  <2>2. IsFiniteSet(({"cpu"} \union {"memory"}) \union {"disk"})
    BY <2>1, FS_AddElement
  <2>3. IsFiniteSet((({"cpu"} \union {"memory"}) \union {"disk"}) \union {"load"})
    BY <2>2, FS_AddElement
  <2>4. IsFiniteSet(((({"cpu"} \union {"memory"}) \union {"disk"}) \union {"load"})
                      \union {"network"})
    BY <2>3, FS_AddElement
  <2>5. toggled = ((({"cpu"} \union {"memory"}) \union {"disk"}) \union {"load"})
                    \union {"network"}
    OBVIOUS
  <2> QED
    BY <2>4, <2>5
<1>2. IsFiniteSet(always)
  <2>1. IsFiniteSet({"processes"} \union {"docker"})
    BY FS_Singleton, FS_AddElement
  <2>2. IsFiniteSet(({"processes"} \union {"docker"}) \union {"syslog"})
    BY <2>1, FS_AddElement
  <2>3. IsFiniteSet((({"processes"} \union {"docker"}) \union {"syslog"}) \union {"filewatch"})
    BY <2>2, FS_AddElement
  <2>4. always = (({"processes"} \union {"docker"}) \union {"syslog"}) \union {"filewatch"}
    OBVIOUS
  <2> QED
    BY <2>3, <2>4
<1>3. Workers = toggled \union always
  BY DEF Workers, Collect
<1> QED
  BY <1>1, <1>2, <1>3, FS_Union

LEMMA RoomForAll ==
    ASSUME GatherInv, Room
    PROVE  Len(ch) <= Cardinality(registered)
<1>1. IsFiniteSet(registered) /\ Cardinality(registered) \in Nat
  BY WorkersFinite, FS_Subset, FS_CardinalityType DEF GatherInv, Types
<1>2. CASE ch = <<>>
  BY <1>1, <1>2
<1>3. CASE ch # <<>>
  <2>1. caller = "ranging"
    BY <1>3 DEF Room
  <2>2. /\ Len(ch) \in Nat /\ DOMAIN ch = 1 .. Len(ch)
        /\ \A i \in DOMAIN ch : ch[i] \in registered
    BY <2>1 DEF GatherInv, Types, Queued, Followed
  <2>3. ch \in Injection(1 .. Len(ch), registered)
    BY <2>2 DEF GatherInv, Types, Queued, Injection, IsInjective
  <2>4. IsFiniteSet(1 .. Len(ch)) /\ Cardinality(1 .. Len(ch)) = Len(ch)
    BY <2>2, FS_Interval
  <2> QED
    BY <1>1, <2>3, <2>4, FS_Injection
<1> QED
  BY <1>2, <1>3

LEMMA RoomStep == GatherInv /\ Room /\ [Next]_vars => Room'
<1> SUFFICES ASSUME GatherInv, Room, [Next]_vars PROVE Room'
  OBVIOUS
<1>1. ASSUME NEW w \in Workers, Answer(w) \/ Panic(w) \/ Send(w) \/ Done(w)
      PROVE  Room'
  <2>1. worker[w].pc \in {"running", "answered", "sent"}
    BY <1>1 DEF Answer, Panic, Recover, Settle, Send, Done, Step
  <2>2. caller = "ranging"
    BY <2>1 DEF GatherInv, Types, Followed
  <2>3. UNCHANGED <<caller, closed, expired, stuck>>
    BY <1>1 DEF Answer, Panic, Recover, Settle, Send, Done
  <2> QED
    BY <2>2, <2>3 DEF Room
<1>2. CASE \/ \E toggles \in SUBSET Toggled : Configure(toggles)
           \/ Begin \/ Close \/ Receive \/ Return \/ Expire \/ Freeze \/ UNCHANGED vars
  <2>1. caller' # "ranging" => ch' = <<>>
    BY <1>2 DEF Room, vars, Configure, Begin, Close, Receive, Return, Expire, Freeze
  <2>2. closed' \in BOOLEAN /\ expired' \in BOOLEAN /\ stuck' \in BOOLEAN
    BY <1>2 DEF Room, vars, Configure, Begin, Close, Receive, Return, Expire, Freeze
  <2> QED
    BY <2>1, <2>2 DEF Room
<1> QED
  BY <1>1, <1>2 DEF Next

LEMMA HostInit == MCInit => HostInv
<1>1. Init => Room
  BY DEF Init, Room
<1> QED
  BY <1>1, InitGather, NetInit, InstallInit DEF MCInit, HostInv

\* A step of the host is a step of each part, or leaves it as it is.
LEMMA HostStep ==
    ASSUME [MCNext]_allVars
    PROVE  [Next]_vars /\ [Net!Next]_(Net!vars) /\ [Install!Next]_(Install!vars)
BY DEF MCNext, Alone, allVars, netVars, installVars, Net!vars, Net!host, Net!memory,
       Net!history, Install!vars, Install!installed

\* Every variable of the host keeps its type: what the collectors answer and the
\* rates computed stay within it, and the channel of CollectAll has room.
THEOREM HostTypes == MCSpec => []MCTypeOK
<1>1. HostInv /\ [MCNext]_allVars => HostInv'
  BY HostStep, GatherStep, RoomStep, NetStep, InstallStep DEF HostInv
<1>2. HostInv => MCTypeOK
  <2> SUFFICES ASSUME HostInv PROVE MCTypeOK
    OBVIOUS
  <2>1. TypeOK
    <3>1. worker \in [Workers -> [pc : {"absent", "running", "answered", "sent",
                                       "done", "dead"},
                                 answer : Answers]]
      BY DEF HostInv, GatherInv, Types, State
    <3> QED
      BY <3>1, RoomForAll DEF HostInv, GatherInv, Types, Room, TypeOK
  <2>2. Net!TypeOK
    BY DEF HostInv, NetInv
  <2>3. Install!InstallerTypeOK
    BY DEF HostInv, InstallInv, Parts, Flags, Install!InstallerTypeOK
  <2> QED
    BY <2>1, <2>2, <2>3 DEF MCTypeOK
<1> QED
  BY HostInit, <1>1, <1>2, PTL DEF MCSpec
=============================================================================
