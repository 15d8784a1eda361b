-------------------------- MODULE BackOfficeProofs ---------------------------
(***************************************************************************)
(* What the back office keeps: dashboards, rules and incidents, accounts,  *)
(* imports of discovered hosts and scans, the demo data, the reports, the  *)
(* history of results and the SNMP probes, for any number of rows,         *)
(* requests, addresses and restarts.                                       *)
(***************************************************************************)
EXTENDS MCBackOffice, ListProofs

-----------------------------------------------------------------------------
(***************************************************************************)
(* Which requests there can be, and what they may refer to.                *)
(***************************************************************************)
RequestOK(r) ==
    \/ req[r].op = "none"
    \/ req[r].op = "create" /\ req[r].id \in Boards
    \/ req[r].op = "update" /\ req[r].id \in Ids
    \/ req[r].op = "toggle" /\ req[r].id \in Rules
    \/ req[r].op = "remove" /\ req[r].id \in Ids

Shape ==
    /\ DOMAIN row = Ids /\ DOMAIN req = Requests
    /\ DOMAIN want = Rules /\ raced \subseteq Rules
    /\ \A i \in Ids : row[i] = [state |-> row[i].state, resolvedAt |-> row[i].resolvedAt]
    /\ \A r \in Requests : RequestOK(r)

IsDefault(i) == i \in Boards /\ row[i].state = "default"

(***************************************************************************)
(* Without a clash, one request at most is between clearing the defaults   *)
(* and inserting its own, and while it is, no default is left.             *)
(***************************************************************************)
Alone ==
    ~clash => /\ \A r, s \in Creating : r = s
              /\ \A r \in Creating, i \in Boards : ~IsDefault(i)
              /\ \A i, j \in Boards : IsDefault(i) /\ IsDefault(j) => i = j

(***************************************************************************)
(* A toggle in flight has seen the rule as it is, unless it was overtaken. *)
(***************************************************************************)
SawRight ==
    \A r \in Requests :
        req[r].op = "toggle" /\ req[r].id \notin raced => req[r].saw = row[req[r].id].state

DeskInv == Shape /\ Alone

-----------------------------------------------------------------------------
LEMMA InitDesk == Init => DeskInv /\ SawRight /\ TogglesCount
<1> SUFFICES ASSUME Init PROVE DeskInv /\ SawRight /\ TogglesCount
  OBVIOUS
<1>1. Shape
  BY DEF Init, Shape, RequestOK, Gone, Row, Idle
<1>2. Creating = {} /\ \A i \in Boards : ~IsDefault(i)
  BY DEF Init, Creating, IsDefault, Gone, Row, Idle, Ids
<1>3. SawRight /\ TogglesCount
  BY DEF Init, SawRight, TogglesCount, Gone, Row, Idle, Ids
<1> QED BY <1>1, <1>2, <1>3 DEF DeskInv, Alone

(***************************************************************************)
(* Each kind of step keeps the shape of rows and requests.                 *)
(***************************************************************************)
LEMMA ShapeStep == Shape /\ [Next]_vars => Shape'
<1> SUFFICES ASSUME Shape, [Next]_vars PROVE Shape'
  OBVIOUS
<1> USE DEF Shape, RequestOK
<1>1. ASSUME NEW r \in Requests, InsertDefault(r) PROVE Shape'
  BY <1>1 DEF InsertDefault, Reply, Idle, Row, Ids
<1>2. ASSUME NEW r \in Requests, Write(r) PROVE Shape'
  <2>1. req[r].id \in Ids
    BY <1>2 DEF Write, Ids
  <2>2. Written(req[r]) = [state |-> Written(req[r]).state,
                           resolvedAt |-> Written(req[r]).resolvedAt]
    BY <1>2 DEF Write, Written, Gone, Row
  <2>3. raced' \subseteq Rules /\ DOMAIN want' = Rules
    BY <1>2 DEF Write, Overtaken
  <2>4. DOMAIN row' = Ids /\ DOMAIN req' = Requests
    BY <1>2 DEF Write, Reply
  <2>5. \A i \in Ids : row'[i] = [state |-> row'[i].state, resolvedAt |-> row'[i].resolvedAt]
    BY <1>2, <2>1, <2>2 DEF Write
  <2>6. \A s \in Requests : RequestOK(s)'
    BY <1>2 DEF Write, Reply, Idle
  <2> QED BY <2>3, <2>4, <2>5, <2>6
<1>3. ASSUME NEW r \in Requests, Fail(r) PROVE Shape'
  BY <1>3 DEF Fail, Reply, Idle
<1>4. ASSUME NEW r \in Requests, NEW i \in Ids, ClearDefault(r, i) PROVE Shape'
  <2>1. \A j \in Ids : row'[j] = [state |-> row'[j].state, resolvedAt |-> row'[j].resolvedAt]
    BY <1>4 DEF ClearDefault, Cleared, Row
  <2>2. DOMAIN row' = Ids
    BY <1>4 DEF ClearDefault, Cleared
  <2> QED BY <1>4, <2>1, <2>2 DEF ClearDefault
<1>5. ASSUME NEW i \in Ids, Create(i) PROVE Shape'
  BY <1>5 DEF Create, Row
<1>6. ASSUME NEW r \in Requests, NEW i \in Ids, NEW op \in {"update", "toggle", "remove"},
             NEW arg, Find(r, op, i, arg)
      PROVE  Shape'
  BY <1>6 DEF Find
<1>7. ASSUME NEW i \in Incidents, Day(i) PROVE Shape'
  BY <1>7 DEF Day, Ids
<1>8. CASE UNCHANGED vars
  BY <1>8 DEF vars
<1> QED BY <1>1, <1>2, <1>3, <1>4, <1>5, <1>6, <1>7, <1>8 DEF Next

-----------------------------------------------------------------------------
LEMMA AloneStep == Shape /\ Alone /\ [Next]_vars => Alone'
<1> SUFFICES ASSUME Shape, Alone, [Next]_vars, ~clash' PROVE Alone'
  BY DEF Alone
<1> USE DEF Shape, RequestOK
<1>s. ASSUME ~clash, Creating' \subseteq Creating,
             \A i \in Boards : IsDefault(i)' => IsDefault(i)
      PROVE  Alone'
  BY <1>s DEF Alone
<1>1. ASSUME NEW r \in Requests, InsertDefault(r) PROVE Alone'
  <2>1. ~clash /\ Creating = {r}
    BY <1>1 DEF InsertDefault, Alone, Creating
  <2>2. Creating' = {}
    BY <1>1, <2>1 DEF InsertDefault, Reply, Creating, Idle
  <2>3. \A i \in Boards : ~IsDefault(i)
    BY <2>1 DEF Alone
  <2>4. \A i \in Boards : IsDefault(i)' => i = req[r].id
    BY <1>1, <2>3 DEF InsertDefault, IsDefault, Ids
  <2> QED BY <2>2, <2>4 DEF Alone
<1>2. ASSUME NEW r \in Requests, Write(r) PROVE Alone'
  <2>1. ~clash /\ ~(req[r].op = "update" /\ req[r].arg = "default")
    BY <1>2 DEF Write
  <2>2. Creating' \subseteq Creating
    BY <1>2 DEF Write, Reply, Creating, Idle
  <2>3. Written(req[r]).state # "default"
    BY <1>2, <2>1 DEF Write, Written, Gone, Row, Toggled, Flip
  <2>4. \A i \in Boards : IsDefault(i)' => IsDefault(i)
    BY <1>2, <2>3 DEF Write, IsDefault, Ids
  <2> QED BY <2>1, <2>2, <2>4, <1>s
<1>3. ASSUME NEW r \in Requests, Fail(r) PROVE Alone'
  <2>1. Creating' \subseteq Creating
    BY <1>3 DEF Fail, Reply, Creating, Idle
  <2> QED BY <1>3, <2>1, <1>s DEF Fail, IsDefault
<1>4. ASSUME NEW r \in Requests, NEW i \in Ids, ClearDefault(r, i) PROVE Alone'
  <2>1. Creating = {}
    BY <1>4 DEF ClearDefault
  <2>2. \A s \in Creating' : s = r
    BY <1>4, <2>1 DEF ClearDefault, Creating
  <2>3. \A j \in Boards : ~IsDefault(j)'
    BY <1>4 DEF ClearDefault, Cleared, IsDefault, Row, Ids
  <2> QED BY <2>2, <2>3 DEF Alone
<1>5. ASSUME NEW i \in Ids, Create(i) PROVE Alone'
  <2>1. \A j \in Boards : IsDefault(j)' => IsDefault(j)
    BY <1>5 DEF Create, Initial, IsDefault, Row, Ids
  <2> QED BY <1>5, <2>1, <1>s DEF Create, Creating
<1>6. ASSUME NEW r \in Requests, NEW i \in Ids, NEW op \in {"update", "toggle", "remove"},
             NEW arg, Find(r, op, i, arg)
      PROVE  Alone'
  <2>1. Creating' \subseteq Creating
    BY <1>6 DEF Find, Creating
  <2> QED BY <1>6, <2>1, <1>s DEF Find, IsDefault
<1>7. ASSUME NEW i \in Incidents, Day(i) PROVE Alone'
  <2>1. \A j \in Boards : IsDefault(j)' => IsDefault(j)
    BY <1>7 DEF Day, IsDefault, Ids
  <2> QED BY <1>7, <2>1, <1>s DEF Day, Creating
<1>8. CASE UNCHANGED vars
  BY <1>8, <1>s DEF vars, Creating, IsDefault
<1> QED BY <1>1, <1>2, <1>3, <1>4, <1>5, <1>6, <1>7, <1>8 DEF Next

LEMMA AloneOne == Alone => OneDefault
<1> SUFFICES ASSUME Alone, ~clash
             PROVE  Cardinality({i \in Boards : row[i].state = "default"}) <= 1
  BY DEF OneDefault
<1> DEFINE D == {i \in Boards : row[i].state = "default"}
<1>1. \A i, j \in D : i = j
  BY DEF Alone, IsDefault
<1>2. CASE D = {}
  BY <1>2, FS_EmptySet
<1>3. CASE D # {}
  <2>1. PICK i : i \in D
    BY <1>3
  <2>2. D = {i}
    BY <1>1, <2>1
  <2>3. Cardinality({i}) = 1
    BY FS_Singleton
  <2>4. Cardinality(D) <= 1
    BY <2>2, <2>3
  <2> QED BY <2>4
<1> QED BY <1>2, <1>3

(***************************************************************************)
(* An organization has one default dashboard at most, however many         *)
(* requests create, edit and remove dashboards and wherever they fail,     *)
(* unless two creations overlapped or an edit set isDefault.               *)
(***************************************************************************)
THEOREM DefaultUnique == Spec => []OneDefault
<1>1. DeskInv /\ [Next]_vars => DeskInv'
  BY ShapeStep, AloneStep DEF DeskInv
<1>2. DeskInv => OneDefault
  BY AloneOne DEF DeskInv
<1> QED BY InitDesk, <1>1, <1>2, PTL DEF Spec

-----------------------------------------------------------------------------
(***************************************************************************)
(* No other kind of step touches a rule's state, and what a toggle saw     *)
(* stays true until someone writes the rule, which is then in raced.       *)
(***************************************************************************)
TogglesInv == Shape /\ SawRight /\ TogglesCount

LEMMA TogglesStep ==
    ASSUME Rules \intersect Boards = {}
    PROVE  TogglesInv /\ [Next]_vars => (SawRight /\ TogglesCount)'
<1> SUFFICES ASSUME TogglesInv, [Next]_vars PROVE (SawRight /\ TogglesCount)'
  OBVIOUS
<1> USE DEF TogglesInv, Shape, RequestOK, SawRight, TogglesCount
<1>s. ASSUME \A i \in Rules : row'[i].state = row[i].state,
             want' = want, raced' = raced,
             \A r \in Requests : req'[r].op = "toggle" =>
                 req'[r] = req[r] \/ req'[r].saw = row[req'[r].id].state
      PROVE  (SawRight /\ TogglesCount)'
  <2> SUFFICES ASSUME Shape' PROVE (SawRight /\ TogglesCount)'
    BY ShapeStep
  <2>1. \A r \in Requests : req'[r].op = "toggle" => req'[r].id \in Rules
    OBVIOUS
  <2>2. SawRight'
    BY <1>s, <2>1
  <2>3. TogglesCount'
    BY <1>s
  <2> QED BY <2>2, <2>3
<1>1. ASSUME NEW r \in Requests, InsertDefault(r) PROVE (SawRight /\ TogglesCount)'
  <2>1. \A i \in Rules : row'[i] = row[i]
    BY <1>1 DEF InsertDefault
  <2> QED BY <1>1, <2>1, <1>s DEF InsertDefault, Reply, Idle
<1>2. ASSUME NEW r \in Requests, Write(r) PROVE (SawRight /\ TogglesCount)'
  <2> DEFINE q == req[r]
  <2>1. \A i \in Ids \ {q.id} : row'[i] = row[i]
    BY <1>2 DEF Write, Ids
  <2>2. \A i \in Rules \ {q.id} : want'[i] = want[i]
    BY <1>2 DEF Write
  <2>3. raced \subseteq raced'
    BY <1>2 DEF Write
  <2>4. q.id \in Ids
    BY <1>2 DEF Write, Ids
  <2>5. ASSUME q.id \in Rules \ raced PROVE row'[q.id].state = want'[q.id]
    <3>1. row'[q.id] = Written(q) /\ want'[q.id] = Wanted(q)
      BY <1>2, <2>4, <2>5 DEF Write
    <3>2. CASE q.op = "remove"
      BY <3>1, <3>2 DEF Written, Wanted, Gone, Row
    <3>3. CASE q.op = "toggle"
      <4>1. q.saw = want[q.id]
        BY <2>5, <3>3
      <4> QED BY <3>1, <3>3, <4>1 DEF Written, Wanted, Row, Toggled
    <3>4. CASE q.op = "update"
      BY <3>1, <3>4 DEF Written, Wanted
    <3> QED BY <1>2, <3>2, <3>3, <3>4 DEF Write
  <2>6. TogglesCount'
    BY <2>1, <2>2, <2>3, <2>5 DEF Ids
  <2>7. req' = [req EXCEPT ![r] = Idle]
    BY <1>2 DEF Write, Reply
  <2>8. ASSUME NEW s \in Requests, req'[s].op = "toggle", req'[s].id \notin raced'
        PROVE  req'[s].saw = row'[req'[s].id].state
    <3>1. s # r /\ req'[s] = req[s]
      BY <2>7, <2>8 DEF Idle
    <3>2. req[s].id \in Rules /\ req[s].saw = row[req[s].id].state
      BY <2>3, <2>8, <3>1
    <3>3. req[s].id # q.id
      BY <1>2, <2>8, <3>1, <3>2 DEF Write, Overtaken
    <3> QED BY <2>1, <3>1, <3>2, <3>3 DEF Ids
  <2>9. SawRight'
    BY <2>8
  <2> QED BY <2>6, <2>9
<1>3. ASSUME NEW r \in Requests, Fail(r) PROVE (SawRight /\ TogglesCount)'
  BY <1>3, <1>s DEF Fail, Reply, Idle
<1>4. ASSUME NEW r \in Requests, NEW i \in Ids, ClearDefault(r, i)
      PROVE  (SawRight /\ TogglesCount)'
  <2>1. \A j \in Rules : row'[j] = row[j]
    BY <1>4 DEF ClearDefault, Cleared, Ids
  <2> QED BY <1>4, <2>1, <1>s DEF ClearDefault
<1>5. ASSUME NEW i \in Ids, Create(i) PROVE (SawRight /\ TogglesCount)'
  <2>1. \A j \in Ids \ {i} : row'[j] = row[j]
    BY <1>5 DEF Create
  <2>2. i \in Rules => row'[i].state = "on" /\ want'[i] = "on"
    BY <1>5 DEF Create, Row, Initial
  <2>3. \A j \in Rules \ {i} : want'[j] = want[j]
    BY <1>5 DEF Create
  <2>4. raced' = raced \ {i} /\ req' = req /\ \A r \in Requests : req[r].id # i
    BY <1>5 DEF Create, Unused
  <2>5. TogglesCount'
    BY <2>1, <2>2, <2>3, <2>4 DEF Ids
  <2>6. SawRight'
    BY <2>1, <2>4 DEF Ids
  <2> QED BY <2>5, <2>6
<1>6. ASSUME NEW r \in Requests, NEW i \in Ids, NEW op \in {"update", "toggle", "remove"},
             NEW arg, Find(r, op, i, arg)
      PROVE  (SawRight /\ TogglesCount)'
  BY <1>6, <1>s DEF Find
<1>7. ASSUME NEW i \in Incidents, Day(i) PROVE (SawRight /\ TogglesCount)'
  <2>1. \A j \in Rules : row'[j].state = row[j].state
    BY <1>7 DEF Day, Ids
  <2> QED BY <1>7, <2>1, <1>s DEF Day
<1>8. CASE UNCHANGED vars
  BY <1>8, <1>s DEF vars
<1> QED BY <1>1, <1>2, <1>3, <1>4, <1>5, <1>6, <1>7, <1>8 DEF Next

(***************************************************************************)
(* A rule nobody wrote between a toggle's read and its write is what its   *)
(* toggles and edits add up to, for any number of rules and requests, as   *)
(* long as a rule and a dashboard never share an id (they are UUIDs of     *)
(* different tables).                                                      *)
(***************************************************************************)
THEOREM TogglesAddUp ==
    ASSUME Rules \intersect Boards = {}
    PROVE  Spec => []TogglesCount
<1>1. Init => TogglesInv
  BY InitDesk DEF TogglesInv, DeskInv
<1>2. TogglesInv /\ [Next]_vars => TogglesInv'
  BY ShapeStep, TogglesStep DEF TogglesInv
<1>3. TogglesInv => TogglesCount
  BY DEF TogglesInv
<1> QED BY <1>1, <1>2, <1>3, PTL DEF Spec

-----------------------------------------------------------------------------
(***************************************************************************)
(* Both columns of an incident are written together, and grow old together. *)
(***************************************************************************)
ResolvedInv == Shape /\ DOMAIN solved = Incidents /\ ResolvedCounted

LEMMA ResolvedStep ==
    ResolvedInv /\ [Next]_vars => (DOMAIN solved = Incidents /\ ResolvedCounted)'
<1> SUFFICES ASSUME ResolvedInv, [Next]_vars
             PROVE  (DOMAIN solved = Incidents /\ ResolvedCounted)'
  OBVIOUS
<1>s. Shape /\ DOMAIN solved = Incidents /\ ResolvedCounted /\ Incidents \subseteq Ids
  BY DEF ResolvedInv, Ids
<1>1. ASSUME NEW r \in Requests, NEW i \in Ids, ClearDefault(r, i)
      PROVE  (DOMAIN solved = Incidents /\ ResolvedCounted)'
  <2>1. \A j \in Incidents : row'[j] = row[j] \/ row'[j] = Row("plain")
    BY <1>1, <1>s DEF ClearDefault, Cleared
  <2> QED BY <1>1, <1>s, <2>1 DEF ClearDefault, ResolvedCounted, Row
<1>2. ASSUME NEW r \in Requests, InsertDefault(r)
      PROVE  (DOMAIN solved = Incidents /\ ResolvedCounted)'
  <2>1. \A j \in Incidents : row'[j] = row[j] \/ row'[j] = Row("default")
    BY <1>2, <1>s DEF InsertDefault, Shape
  <2> QED BY <1>2, <1>s, <2>1 DEF InsertDefault, ResolvedCounted, Row
<1>3. ASSUME NEW i \in Ids, Create(i)
      PROVE  (DOMAIN solved = Incidents /\ ResolvedCounted)'
  <2>1. row'[i].state # "resolved" /\ \A j \in Ids \ {i} : row'[j] = row[j]
    BY <1>3, <1>s DEF Create, Shape, Row, Initial
  <2>2. DOMAIN solved' = Incidents /\ \A j \in Incidents \ {i} : solved'[j] = solved[j]
    BY <1>3, <1>s DEF Create
  <2> QED BY <1>s, <2>1, <2>2 DEF ResolvedCounted
<1>4. ASSUME NEW r \in Requests, Write(r)
      PROVE  (DOMAIN solved = Incidents /\ ResolvedCounted)'
  <2> DEFINE q == req[r]
  <2>1. row'[q.id] = Written(q) /\ \A j \in Ids \ {q.id} : row'[j] = row[j]
    <3>1. q.id \in Ids
      BY <1>4, <1>s DEF Write, Shape, RequestOK, Ids
    <3> QED BY <1>4, <1>s, <3>1 DEF Write, Shape
  <2>2. DOMAIN solved' = Incidents /\ \A j \in Incidents \ {q.id} : solved'[j] = solved[j]
    BY <1>4, <1>s DEF Write
  <2>3. ASSUME q.id \in Incidents, Written(q).state = "resolved"
        PROVE  Written(q).resolvedAt = solved'[q.id]
    <3>1. q.op = "update" /\ q.arg = "resolved"
      BY <1>4, <2>3 DEF Write, Written, Gone, Row, Toggled, Flip
    <3>2. Written(q).resolvedAt = "fresh"
      BY <3>1 DEF Written, ResolvedAt
    <3>3. solved'[q.id] = "fresh"
      BY <1>4, <1>s, <2>3, <3>1 DEF Write
    <3> QED BY <3>2, <3>3
  <2> QED BY <1>s, <2>1, <2>2, <2>3 DEF ResolvedCounted
<1>5. ASSUME NEW r \in Requests, Fail(r)
      PROVE  (DOMAIN solved = Incidents /\ ResolvedCounted)'
  BY <1>5, <1>s DEF Fail, ResolvedCounted
<1>6. ASSUME NEW r \in Requests, NEW i \in Ids, NEW op \in {"update", "toggle", "remove"},
             NEW arg, Find(r, op, i, arg)
      PROVE  (DOMAIN solved = Incidents /\ ResolvedCounted)'
  BY <1>6, <1>s DEF Find, ResolvedCounted
<1>7. ASSUME NEW i \in Incidents, Day(i)
      PROVE  (DOMAIN solved = Incidents /\ ResolvedCounted)'
  <2> DEFINE Older(stamp) == IF stamp = "fresh" THEN "old" ELSE stamp
  <2>1. /\ row'[i] = [row[i] EXCEPT !.resolvedAt = Older(@)]
        /\ \A j \in Ids \ {i} : row'[j] = row[j]
    BY <1>7, <1>s DEF Day, Shape
  <2>2. row'[i].state = row[i].state /\ row'[i].resolvedAt = Older(row[i].resolvedAt)
    BY <1>s, <2>1 DEF Shape
  <2>3. /\ DOMAIN solved' = Incidents /\ solved'[i] = Older(solved[i])
        /\ \A j \in Incidents \ {i} : solved'[j] = solved[j]
    BY <1>7, <1>s DEF Day
  <2> QED BY <1>s, <2>1, <2>2, <2>3 DEF ResolvedCounted
<1>8. CASE UNCHANGED vars
  BY <1>8, <1>s DEF vars, ResolvedCounted
<1> QED BY <1>1, <1>2, <1>3, <1>4, <1>5, <1>6, <1>7, <1>8 DEF Next

(***************************************************************************)
(* resolved24h counts a resolved incident by the time it was last resolved, *)
(* however often it was opened again in between.                           *)
(***************************************************************************)
THEOREM ResolvedByTheLast == Spec => []ResolvedCounted
<1>1. Init => ResolvedInv
  <2>1. Init => DOMAIN solved = Incidents /\ ResolvedCounted
    BY DEF Init, ResolvedCounted, Gone, Row, Ids
  <2> QED BY InitDesk, <2>1 DEF ResolvedInv, DeskInv
<1>2. ResolvedInv /\ [Next]_vars => ResolvedInv'
  BY ShapeStep, ResolvedStep DEF ResolvedInv
<1>3. ResolvedInv => ResolvedCounted
  BY DEF ResolvedInv
<1> QED BY <1>1, <1>2, <1>3, PTL DEF Spec

-----------------------------------------------------------------------------
(***************************************************************************)
(* Organizations and users.                                                *)
(***************************************************************************)
AccountRow == [org : Orgs \union {"none"}, email : Emails \union {"none"},
               admin : BOOLEAN, active : BOOLEAN]
CallRow == [op : {"none", "register", "create", "update", "remove"},
            org : Orgs \union {"none"}, on : Emails \union Accounts \union {"none"},
            at : {"none", "org", "user", "find", "write"}]

AccountShape ==
    /\ org \subseteq Orgs
    /\ account \in [Accounts -> AccountRow]
    /\ \A a \in Accounts : account[a].email \in Emails \/ account[a] = NoAccount
    /\ call \in [Callers -> CallRow]
    /\ \A r \in Callers :
          /\ call[r].op \in {"register", "create"} => call[r].on \in Emails
          /\ call[r].op \in {"update", "remove"} => call[r].on \in Accounts

-----------------------------------------------------------------------------
LEMMA InitAccounts == AccountsInit => AccountShape
BY DEF AccountsInit, AccountShape, AccountRow, CallRow, NoAccount, NoCall

(***************************************************************************)
(* What update and remove write: the fields they are given.                *)
(***************************************************************************)
LEMMA RowRemoved ==
    ASSUME NEW x \in AccountRow
    PROVE  LET y == [x EXCEPT !.active = FALSE] IN
           /\ y \in AccountRow
           /\ y.org = x.org /\ y.email = x.email /\ y.admin = x.admin /\ ~y.active
           /\ x = NoAccount => y = NoAccount
<1> DEFINE y == [x EXCEPT !.active = FALSE]
<1>1. y \in AccountRow /\ y.org = x.org /\ y.email = x.email /\ y.admin = x.admin /\ ~y.active
  BY DEF AccountRow
<1>2. ASSUME x = NoAccount PROVE y = NoAccount
  <2>1. y.active = x.active
    BY <1>1, <1>2 DEF NoAccount
  <2> HIDE DEF y
  <2> QED BY <1>1, <1>2, <2>1 DEF AccountRow
<1> QED BY <1>1, <1>2

LEMMA Updated ==
    ASSUME AccountShape, NEW r \in Callers, NEW admin \in BOOLEAN, NEW active \in BOOLEAN,
           NEW e \in Emails, UpdateUser(r, admin, active, e)
    PROVE  LET on == call[r].on IN
           /\ on \in Accounts
           /\ account' \in [Accounts -> AccountRow]
           /\ \A b \in Accounts \ {on} : account'[b] = account[b]
           /\ account'[on].org = account[on].org /\ account'[on].email = e
           /\ account'[on].admin = admin /\ account'[on].active = active
<1> DEFINE on == call[r].on
           y == [org |-> account[on].org, email |-> e, admin |-> admin, active |-> active]
<1>1. on \in Accounts
  BY DEF UpdateUser, AccountShape
<1>2. account[on] \in AccountRow
  BY <1>1 DEF AccountShape
<1>4. account' = [account EXCEPT ![on] = y]
  BY DEF UpdateUser
<1>5. /\ y \in AccountRow
      /\ y.org = account[on].org /\ y.email = e /\ y.admin = admin /\ y.active = active
  BY <1>2 DEF AccountRow
<1> HIDE DEF y
<1> QED BY <1>1, <1>4, <1>5 DEF AccountShape

LEMMA Removed ==
    ASSUME AccountShape, NEW r \in Callers, RemoveUser(r)
    PROVE  LET on == call[r].on IN
           /\ on \in Accounts
           /\ account' \in [Accounts -> AccountRow]
           /\ \A b \in Accounts \ {on} : account'[b] = account[b]
           /\ account'[on].org = account[on].org /\ account'[on].email = account[on].email
           /\ account'[on].admin = account[on].admin /\ ~account'[on].active
           /\ account[on] = NoAccount => account'[on] = NoAccount
<1> DEFINE on == call[r].on
           y == [account[on] EXCEPT !.active = FALSE]
<1>1. on \in Accounts
  BY DEF RemoveUser, AccountShape
<1>2. account[on] \in AccountRow
  BY <1>1 DEF AccountShape
<1>4. account' = [account EXCEPT ![on] = y]
  BY DEF RemoveUser
<1>5. /\ y \in AccountRow
      /\ y.org = account[on].org /\ y.email = account[on].email
      /\ y.admin = account[on].admin /\ ~y.active
      /\ account[on] = NoAccount => y = NoAccount
  BY <1>2, RowRemoved
<1> HIDE DEF y
<1> QED BY <1>1, <1>4, <1>5 DEF AccountShape

-----------------------------------------------------------------------------
CallShape ==
    /\ call \in [Callers -> CallRow]
    /\ \A r \in Callers :
          /\ call[r].op \in {"register", "create"} => call[r].on \in Emails
          /\ call[r].op \in {"update", "remove"} => call[r].on \in Accounts

LEMMA CallDone ==
    ASSUME CallShape, NEW r \in Callers, call' = [call EXCEPT ![r] = NoCall]
    PROVE  CallShape'
BY DEF CallShape, CallRow, NoCall

LEMMA ShapeKept == AccountShape /\ [AccountsNext]_accountVars => AccountShape'
<1> SUFFICES ASSUME AccountShape, [AccountsNext]_accountVars PROVE AccountShape'
  OBVIOUS
<1> USE DEF AccountShape
<1>c. CallShape
  BY DEF CallShape
<1>s. ASSUME CallShape', org' = org, account' = account PROVE AccountShape'
  BY <1>s DEF CallShape, NoAccount
<1>1. ASSUME NEW r \in Callers, NEW e \in Emails, Register(r, e) PROVE AccountShape'
  <2>1. CallShape'
    BY <1>1 DEF Register, CallShape, CallRow, NoCall
  <2> QED BY <1>1, <2>1, <1>s DEF Register
<1>2. ASSUME NEW r \in Callers, NEW o \in Orgs, RegisterOrg(r, o) PROVE AccountShape'
  BY <1>2 DEF RegisterOrg, CallRow, NoAccount
<1>3. ASSUME NEW r \in Callers, NEW a \in Accounts, RegisterUser(r, a) PROVE AccountShape'
  <2>1. CallShape'
    BY <1>3, <1>c, CallDone DEF RegisterUser
  <2> QED BY <1>3, <2>1 DEF RegisterUser, CallShape, CallRow, AccountRow, NoAccount
<1>4. ASSUME NEW r \in Callers, NEW a \in Accounts, CreateUser(r, a) PROVE AccountShape'
  <2>1. CallShape'
    BY <1>4, <1>c, CallDone DEF CreateUser
  <2> QED BY <1>4, <2>1 DEF CreateUser, CallShape, CallRow, AccountRow, NoAccount
<1>5. ASSUME NEW r \in Callers, NEW a \in Accounts, NEW op \in {"create", "update", "remove"},
             NEW on \in IF op = "create" THEN Emails ELSE Accounts, Enter(r, a, op, on)
      PROVE  AccountShape'
  <2>1. account[a].org \in Orgs \union {"none"}
    BY DEF AccountRow
  <2>2. CallShape'
    BY <1>5, <2>1 DEF Enter, CallShape, CallRow
  <2> QED BY <1>5, <2>2, <1>s DEF Enter
<1>6. ASSUME NEW r \in Callers, FindUser(r) PROVE AccountShape'
  <2>1. CallShape'
    BY <1>6 DEF FindUser, CallShape, CallRow, NoCall
  <2> QED BY <1>6, <2>1, <1>s DEF FindUser
<1>7. ASSUME NEW r \in Callers, RemoveUser(r) PROVE AccountShape'
  <2>1. CallShape'
    BY <1>7, <1>c, CallDone DEF RemoveUser
  <2>2. \A a \in Accounts : account'[a].email \in Emails \/ account'[a] = NoAccount
    BY <1>7, Removed
  <2> QED BY <1>7, <2>1, <2>2, Removed DEF RemoveUser, CallShape, NoAccount
<1>8. ASSUME NEW r \in Callers, FailCall(r) PROVE AccountShape'
  BY <1>8, <1>c, <1>s, CallDone DEF FailCall
<1>9. ASSUME NEW r \in Callers, NEW admin \in BOOLEAN, NEW active \in BOOLEAN,
             NEW e \in Emails, UpdateUser(r, admin, active, e)
      PROVE  AccountShape'
  <2>1. CallShape'
    BY <1>9, <1>c, CallDone DEF UpdateUser
  <2>2. \A a \in Accounts : account'[a].email \in Emails \/ account'[a] = NoAccount
    BY <1>9, Updated
  <2> QED BY <1>9, <2>1, <2>2, Updated DEF UpdateUser, CallShape, NoAccount
<1>10. CASE UNCHANGED accountVars
  BY <1>10, <1>c, <1>s DEF accountVars, CallShape
<1> QED BY <1>1, <1>2, <1>3, <1>4, <1>5, <1>6, <1>7, <1>8, <1>9, <1>10 DEF AccountsNext

-----------------------------------------------------------------------------
(***************************************************************************)
(* A registration on its way has an e-mail nobody has, and no two accounts *)
(* have the same.                                                          *)
(***************************************************************************)
EmailFree ==
    \A r \in Callers :
        call[r].op = "register" /\ call[r].on \notin doubled =>
            \A a \in Accounts : account[a].email # call[r].on

EmailApart ==
    \A a, b \in Accounts :
        a # b /\ account[a].email = account[b].email
        => account[a].email \in doubled \union {"none"}

EmailInv == AccountShape /\ EmailFree /\ EmailApart

(***************************************************************************)
(* A step that changes no e-mail and starts no registration keeps them.    *)
(***************************************************************************)
LEMMA EmailKept ==
    ASSUME EmailInv, doubled' = doubled,
           \A a \in Accounts : account'[a].email = account[a].email,
           \A r \in Callers : call'[r].op = "register" =>
               call[r].op = "register" /\ call'[r].on = call[r].on
    PROVE  (EmailFree /\ EmailApart)'
BY DEF EmailInv, EmailFree, EmailApart

LEMMA EmailStep ==
    ASSUME "none" \notin Emails
    PROVE  EmailInv /\ [AccountsNext]_accountVars => EmailInv'
<1> SUFFICES ASSUME EmailInv, [AccountsNext]_accountVars PROVE (EmailFree /\ EmailApart)'
  BY ShapeKept DEF EmailInv
<1>c. CallShape
  BY DEF EmailInv, AccountShape, CallShape
<1>1. ASSUME NEW r \in Callers, NEW e \in Emails, Register(r, e)
      PROVE  (EmailFree /\ EmailApart)'
  <2>1. EmailApart'
    BY <1>1 DEF Register, EmailApart, EmailInv
  <2>2. ASSUME NEW s \in Callers, call'[s].op = "register", call'[s].on \notin doubled'
        PROVE  \A a \in Accounts : account[a].email # call'[s].on
    <3>1. CASE s = r
      BY <1>1, <2>2, <3>1, <1>c DEF Register, EmailTaken, CallShape, NoCall
    <3>2. CASE s # r
      BY <1>1, <2>2, <3>2, <1>c DEF Register, EmailFree, EmailInv, CallShape
    <3> QED BY <3>1, <3>2
  <2> QED BY <1>1, <2>1, <2>2 DEF Register, EmailFree
<1>2. ASSUME NEW r \in Callers, NEW o \in Orgs, RegisterOrg(r, o)
      PROVE  (EmailFree /\ EmailApart)'
  <2>1. \A s \in Callers : call'[s].op = call[s].op /\ call'[s].on = call[s].on
    BY <1>2, <1>c DEF RegisterOrg, CallShape, CallRow
  <2> QED BY <1>2, <2>1, EmailKept DEF RegisterOrg
<1>3. ASSUME NEW r \in Callers, NEW a \in Accounts, RegisterUser(r, a)
      PROVE  (EmailFree /\ EmailApart)'
  <2> DEFINE e == call[r].on
  <2>1. doubled \subseteq doubled'
    BY <1>3 DEF RegisterUser
  <2>2. account'[a].email = e /\ \A b \in Accounts \ {a} : account'[b] = account[b]
    BY <1>3 DEF RegisterUser, EmailInv, AccountShape
  <2>3. \A s \in Callers \ {r} : call'[s] = call[s]
    BY <1>3, <1>c DEF RegisterUser, CallShape
  <2>4. call'[r].op # "register"
    BY <1>3, <1>c DEF RegisterUser, CallShape, NoCall
  <2>5. e \notin doubled' => \A b \in Accounts : account[b].email # e
    BY <1>3, <2>1 DEF EmailFree, RegisterUser, EmailInv
  <2>6. e \notin doubled' => \A s \in Callers \ {r} : call[s].on # e
    BY <1>3 DEF RegisterUser, Beside
  <2>7. EmailApart'
    BY <2>1, <2>2, <2>5 DEF EmailApart, EmailInv
  <2>8. EmailFree'
    BY <2>1, <2>2, <2>3, <2>4, <2>6 DEF EmailFree, EmailInv
  <2> QED BY <2>7, <2>8
<1>4. ASSUME NEW r \in Callers, NEW a \in Accounts, CreateUser(r, a)
      PROVE  (EmailFree /\ EmailApart)'
  <2>1. call[r].on \in doubled' /\ doubled \subseteq doubled'
    BY <1>4 DEF CreateUser
  <2>2. account'[a].email = call[r].on /\ \A b \in Accounts \ {a} : account'[b] = account[b]
    BY <1>4 DEF CreateUser, EmailInv, AccountShape
  <2>3. \A s \in Callers : call'[s].op = "register" => call'[s] = call[s]
    BY <1>4, <1>c DEF CreateUser, CallShape, NoCall
  <2>4. EmailApart'
    BY <2>1, <2>2 DEF EmailApart, EmailInv
  <2>5. EmailFree'
    BY <2>1, <2>2, <2>3 DEF EmailFree, EmailInv
  <2> QED BY <2>4, <2>5
<1>5. ASSUME NEW r \in Callers, NEW a \in Accounts, NEW op \in {"create", "update", "remove"},
             NEW on \in IF op = "create" THEN Emails ELSE Accounts, Enter(r, a, op, on)
      PROVE  (EmailFree /\ EmailApart)'
  <2>1. \A s \in Callers : call'[s].op = "register" => call'[s] = call[s]
    BY <1>5, <1>c DEF Enter, CallShape
  <2> QED BY <1>5, <2>1, EmailKept DEF Enter
<1>6. ASSUME NEW r \in Callers, FindUser(r) PROVE (EmailFree /\ EmailApart)'
  <2>1. \A s \in Callers : call'[s].op = "register" =>
            call[s].op = "register" /\ call'[s].on = call[s].on
    BY <1>6, <1>c DEF FindUser, CallShape, CallRow, NoCall
  <2> QED BY <1>6, <2>1, EmailKept DEF FindUser
<1>7. ASSUME NEW r \in Callers, RemoveUser(r) PROVE (EmailFree /\ EmailApart)'
  <2>1. \A s \in Callers : call'[s].op = "register" => call'[s] = call[s]
    BY <1>7, <1>c DEF RemoveUser, CallShape, NoCall
  <2>2. \A b \in Accounts : account'[b].email = account[b].email
    BY <1>7, Removed DEF EmailInv
  <2> QED BY <1>7, <2>1, <2>2, EmailKept DEF RemoveUser
<1>8. ASSUME NEW r \in Callers, FailCall(r) PROVE (EmailFree /\ EmailApart)'
  <2>1. \A s \in Callers : call'[s].op = "register" => call'[s] = call[s]
    BY <1>8, <1>c DEF FailCall, CallShape, NoCall
  <2> QED BY <1>8, <2>1, EmailKept DEF FailCall
<1>9. ASSUME NEW r \in Callers, NEW admin \in BOOLEAN, NEW active \in BOOLEAN,
             NEW e \in Emails, UpdateUser(r, admin, active, e)
      PROVE  (EmailFree /\ EmailApart)'
  <2> DEFINE on == call[r].on
  <2>1. doubled \subseteq doubled'
    BY <1>9 DEF UpdateUser
  <2>2. on \in Accounts /\ \A b \in Accounts \ {on} : account'[b] = account[b]
    BY <1>9, Updated DEF EmailInv
  <2>3. \A s \in Callers : call'[s].op = "register" => call'[s] = call[s]
    BY <1>9, <1>c DEF UpdateUser, CallShape, NoCall
  <2>4. account'[on].email = e
    BY <1>9, Updated DEF EmailInv
  <2>5. e \notin doubled' => account[on].email = e
    BY <1>9 DEF UpdateUser
  <2>6. EmailApart'
    BY <2>1, <2>2, <2>4, <2>5 DEF EmailApart, EmailInv
  <2>7. EmailFree'
    BY <2>1, <2>2, <2>3, <2>4, <2>5 DEF EmailFree, EmailInv
  <2> QED BY <2>6, <2>7
<1>10. CASE UNCHANGED accountVars
  BY <1>10, EmailKept DEF accountVars
<1> QED BY <1>1, <1>2, <1>3, <1>4, <1>5, <1>6, <1>7, <1>8, <1>9, <1>10 DEF AccountsNext

(***************************************************************************)
(* Two accounts have the same e-mail only if an admin gave it to one of    *)
(* them or two registrations overlapped.                                   *)
(***************************************************************************)
THEOREM OneAccountPerEmail ==
    ASSUME "none" \notin Emails
    PROVE  AccountsSpec => []EmailOnce
<1>1. AccountsInit => EmailInv
  BY InitAccounts DEF EmailInv, AccountsInit, EmailFree, EmailApart, NoCall, NoAccount
<1>2. EmailInv /\ [AccountsNext]_accountVars => EmailInv'
  BY EmailStep
<1>3. EmailInv => EmailOnce
  BY DEF EmailInv, EmailApart, EmailOnce, AccountShape
<1> QED BY <1>1, <1>2, <1>3, PTL DEF AccountsSpec

-----------------------------------------------------------------------------
(***************************************************************************)
(* Accounts in use and requests belong to an organization, and what is to  *)
(* be written was found inside it.                                         *)
(***************************************************************************)
Inside ==
    /\ \A a \in Accounts : account[a].active => account[a].org # "none"
    /\ \A r \in Callers :
          /\ call[r].op = "register" => /\ call[r].at \in {"org", "user"}
                                        /\ call[r].org = "none" <=> call[r].at = "org"
          /\ call[r].op \in {"create", "update", "remove"} => call[r].org # "none"
          /\ call[r].op \in {"update", "remove"} /\ call[r].at = "write" =>
                account[call[r].on].org = call[r].org

(***************************************************************************)
(* Whoever removes a user leaves an admin behind: an active one besides    *)
(* the user to be removed, from the guard's check to the write.            *)
(***************************************************************************)
RemoverStays ==
    \A r \in Callers :
        call[r].op = "remove" /\ call[r].org \notin excused =>
            \E a \in Accounts \ {call[r].on} : account[a].org = call[r].org /\ Admin(a)

AdminInv == AccountShape /\ Inside /\ RemoverStays /\ AdminRemains

(***************************************************************************)
(* A step that changes no account and adds no removal keeps them, if an    *)
(* organization stays in registration or is excused.                       *)
(***************************************************************************)
LEMMA AdminKept ==
    ASSUME AdminInv, account' = account, excused \subseteq excused',
           \A r \in Callers : call'[r].op = "remove" =>
               call[r].op = "remove" /\ call'[r].org = call[r].org /\ call'[r].on = call[r].on,
           \A o \in org' \ excused' : Registering(o)' \/ (o \in org /\ ~Registering(o))
    PROVE  (RemoverStays /\ AdminRemains)'
<1>1. RemoverStays'
  BY DEF AdminInv, RemoverStays, Admin
<1>2. AdminRemains'
  BY DEF AdminInv, AdminRemains, Members, Admin
<1> QED BY <1>1, <1>2

LEMMA AdminStep ==
    ASSUME "none" \notin Orgs
    PROVE  AdminInv /\ [AccountsNext]_accountVars => AdminInv'
<1> SUFFICES ASSUME AdminInv, [AccountsNext]_accountVars
             PROVE  (Inside /\ RemoverStays /\ AdminRemains)'
  BY ShapeKept DEF AdminInv
<1>c. CallShape
  BY DEF AdminInv, AccountShape, CallShape
<1>i. AccountShape /\ Inside /\ RemoverStays /\ AdminRemains
  BY DEF AdminInv
<1>1. ASSUME NEW r \in Callers, NEW e \in Emails, Register(r, e)
      PROVE  (Inside /\ RemoverStays /\ AdminRemains)'
  <2>1. call[r] = NoCall /\ \A s \in Callers \ {r} : call'[s] = call[s]
    BY <1>1, <1>c DEF Register, CallShape
  <2>2. call'[r] = NoCall \/ (call'[r].op = "register" /\ call'[r].org = "none"
                              /\ call'[r].at = "org")
    BY <1>1, <1>c DEF Register, CallShape, NoCall
  <2>3. Inside'
    BY <1>1, <1>i, <2>1, <2>2 DEF Register, Inside, NoCall
  <2>4. \A o \in org : Registering(o)' <=> Registering(o)
    BY <1>i, <2>1, <2>2 DEF Registering, AccountShape, NoCall
  <2> QED BY <1>1, <2>1, <2>2, <2>3, <2>4, AdminKept DEF Register, NoCall
<1>2. ASSUME NEW r \in Callers, NEW o \in Orgs, RegisterOrg(r, o)
      PROVE  (Inside /\ RemoverStays /\ AdminRemains)'
  <2>1. \A s \in Callers \ {r} : call'[s] = call[s]
    BY <1>2, <1>c DEF RegisterOrg, CallShape
  <2>2. call'[r].op = "register" /\ call'[r].org = o /\ call'[r].at = "user"
    BY <1>2, <1>c DEF RegisterOrg, CallShape, CallRow
  <2>3. Inside'
    <3>1. account' = account
      BY <1>2 DEF RegisterOrg
    <3>2. ASSUME NEW s \in Callers
          PROVE  /\ call'[s].op = "register" => /\ call'[s].at \in {"org", "user"}
                                                /\ call'[s].org = "none" <=> call'[s].at = "org"
                 /\ call'[s].op \in {"create", "update", "remove"} => call'[s].org # "none"
                 /\ call'[s].op \in {"update", "remove"} /\ call'[s].at = "write" =>
                       account[call'[s].on].org = call'[s].org
      BY <1>i, <2>1, <2>2 DEF Inside
    <3> QED BY <1>i, <3>1, <3>2 DEF Inside
  <2>4. call[r].org = "none" /\ org' = org \union {o}
    BY <1>2, <1>i DEF RegisterOrg, Inside
  <2>5. \A p \in org : Registering(p) => Registering(p)'
    BY <1>i, <2>1, <2>4 DEF Registering, AccountShape
  <2>6. Registering(o)'
    BY <2>2 DEF Registering
  <2> QED BY <1>2, <2>1, <2>2, <2>3, <2>4, <2>5, <2>6, AdminKept DEF RegisterOrg
<1>3. ASSUME NEW r \in Callers, NEW a \in Accounts, RegisterUser(r, a)
      PROVE  (Inside /\ RemoverStays /\ AdminRemains)'
  <2> DEFINE o == call[r].org
  <2>1. (\A s \in Callers \ {r} : call'[s] = call[s]) /\ call'[r] = NoCall
    BY <1>3, <1>c DEF RegisterUser, CallShape
  <2>2. /\ account'[a].org = o /\ Admin(a)' /\ account[a].org = "none" /\ ~Admin(a)
        /\ \A b \in Accounts \ {a} : account'[b] = account[b]
    BY <1>3, <1>i DEF RegisterUser, AccountShape, NoAccount, Admin
  <2>3. o # "none" /\ org' = org /\ excused' = excused
    BY <1>3, <1>i DEF RegisterUser, Inside
  <2>4. Inside'
    BY <1>i, <2>1, <2>2, <2>3 DEF Inside, NoCall, AccountShape
  <2>5. RemoverStays'
    BY <1>i, <2>1, <2>2, <2>3 DEF RemoverStays, NoCall, Admin
  <2>6. \A p \in org \ {o} : Registering(p) => Registering(p)'
    BY <2>1 DEF Registering
  <2>7. AdminRemains'
    BY <1>i, <2>2, <2>3, <2>6 DEF AdminRemains, Members, Admin
  <2> QED BY <2>4, <2>5, <2>7
<1>4. ASSUME NEW r \in Callers, NEW a \in Accounts, CreateUser(r, a)
      PROVE  (Inside /\ RemoverStays /\ AdminRemains)'
  <2>1. (\A s \in Callers \ {r} : call'[s] = call[s]) /\ call'[r] = NoCall
    BY <1>4, <1>c DEF CreateUser, CallShape
  <2>2. /\ account'[a].org = call[r].org /\ account[a].org = "none" /\ ~Admin(a)
        /\ \A b \in Accounts \ {a} : account'[b] = account[b]
    BY <1>4, <1>i DEF CreateUser, AccountShape, NoAccount, Admin
  <2>3. call[r].org # "none" /\ org' = org /\ excused' = excused /\ call[r].op = "create"
    BY <1>4, <1>i DEF CreateUser, Inside
  <2>4. Inside'
    BY <1>i, <2>1, <2>2, <2>3 DEF Inside, NoCall, AccountShape
  <2>5. RemoverStays'
    BY <1>i, <2>1, <2>2, <2>3 DEF RemoverStays, NoCall, Admin
  <2>6. \A p \in org : Registering(p) => Registering(p)'
    BY <2>1, <2>3 DEF Registering
  <2>7. AdminRemains'
    BY <1>i, <2>2, <2>3, <2>6 DEF AdminRemains, Members, Admin
  <2> QED BY <2>4, <2>5, <2>7
<1>5. ASSUME NEW r \in Callers, NEW a \in Accounts, NEW op \in {"create", "update", "remove"},
             NEW on \in IF op = "create" THEN Emails ELSE Accounts, Enter(r, a, op, on)
      PROVE  (Inside /\ RemoverStays /\ AdminRemains)'
  <2>1. \A s \in Callers \ {r} : call'[s] = call[s]
    BY <1>5, <1>c DEF Enter, CallShape
  <2>2. /\ call'[r].op = op /\ call'[r].org = account[a].org /\ call'[r].on = on
        /\ call'[r].at = "find" /\ call[r].op = "none"
    BY <1>5, <1>c DEF Enter, CallShape, NoCall
  <2>3. account[a].active /\ (op = "remove" => account[a].admin /\ a # on)
    BY <1>5 DEF Enter, Valid, Allowed, Removable
  <2>4. Inside'
    BY <1>5, <1>i, <2>1, <2>2, <2>3 DEF Enter, Inside
  <2>5. RemoverStays'
    BY <1>5, <1>i, <2>1, <2>2, <2>3 DEF Enter, RemoverStays, Admin
  <2>6. \A p \in org : Registering(p) => Registering(p)'
    BY <2>1, <2>2 DEF Registering
  <2>7. AdminRemains'
    BY <1>5, <1>i, <2>6 DEF Enter, AdminRemains, Members, Admin
  <2> QED BY <2>4, <2>5, <2>7
<1>6. ASSUME NEW r \in Callers, FindUser(r)
      PROVE  (Inside /\ RemoverStays /\ AdminRemains)'
  <2>1. \A s \in Callers \ {r} : call'[s] = call[s]
    BY <1>6, <1>c DEF FindUser, CallShape
  <2>2. \/ call'[r] = NoCall
        \/ /\ call'[r].op = call[r].op /\ call'[r].org = call[r].org
           /\ call'[r].on = call[r].on /\ call'[r].at = "write" /\ Found(call[r])
    BY <1>6, <1>c DEF FindUser, CallShape, CallRow
  <2>3. call[r].op \in {"update", "remove"} /\ Found(call[r]) =>
            account[call[r].on].org = call[r].org
    BY DEF Found, Members
  <2>4. call[r].at = "find"
    BY <1>6 DEF FindUser
  <2>5. Inside'
    BY <1>6, <1>i, <2>1, <2>2, <2>3, <2>4 DEF FindUser, Inside, NoCall
  <2>6. \A p \in org : Registering(p) => Registering(p)'
    <3>1. call[r].op # "register"
      BY <1>i, <2>4 DEF Inside, AccountShape
    <3> QED BY <2>1, <3>1 DEF Registering
  <2>7. RemoverStays'
    BY <1>6, <1>i, <2>1, <2>2 DEF FindUser, RemoverStays, Admin, NoCall
  <2>8. AdminRemains'
    BY <1>6, <1>i, <2>6 DEF FindUser, AdminRemains, Members, Admin
  <2> QED BY <2>5, <2>7, <2>8
<1>7. ASSUME NEW r \in Callers, RemoveUser(r)
      PROVE  (Inside /\ RemoverStays /\ AdminRemains)'
  <2> DEFINE on == call[r].on
             o == call[r].org
  <2>1. (\A s \in Callers \ {r} : call'[s] = call[s]) /\ call'[r] = NoCall
    BY <1>7, <1>c DEF RemoveUser, CallShape
  <2>2. /\ \A b \in Accounts \ {on} : account'[b] = account[b]
        /\ on \in Accounts /\ account'[on].org = account[on].org /\ ~account'[on].active
    BY <1>7, <1>i, Removed
  <2>3. account[on].org = o /\ org' = org /\ call[r].op = "remove"
    BY <1>7, <1>i DEF RemoveUser, Inside
  <2>4. Inside'
    BY <1>i, <2>1, <2>2 DEF Inside, NoCall, AccountShape
  <2>5. excused \subseteq excused'
    BY <1>7 DEF RemoveUser
  <2>6. o \notin excused' => \A s \in Callers \ {r} : ~(call[s].op = "remove" /\ call[s].org = o)
    BY <1>7 DEF RemoveUser, RemovesInside
  <2>7. RemoverStays'
    BY <1>i, <2>1, <2>2, <2>3, <2>5, <2>6 DEF RemoverStays, Admin, NoCall
  <2>8. ASSUME NEW p \in org \ excused', ~Registering(p)'
        PROVE  \E b \in Members(p)' : Admin(b)'
    <3>1. ~Registering(p)
      BY <2>1, <2>3, <2>8 DEF Registering
    <3>2. CASE p = o
      BY <1>i, <2>2, <2>3, <2>5, <2>8, <3>2 DEF RemoverStays, Members, Admin
    <3>3. CASE p # o
      <4>1. PICK b \in Accounts : account[b].org = p /\ Admin(b)
        BY <1>i, <2>3, <2>5, <2>8, <3>1 DEF AdminRemains, Members, Admin
      <4>2. b # on
        BY <2>3, <3>3, <4>1
      <4> QED BY <2>2, <4>1, <4>2 DEF Members, Admin
    <3> QED BY <3>2, <3>3
  <2>9. AdminRemains'
    BY <2>3, <2>8 DEF AdminRemains, Admin
  <2> QED BY <2>4, <2>7, <2>9
<1>8. ASSUME NEW r \in Callers, FailCall(r)
      PROVE  (Inside /\ RemoverStays /\ AdminRemains)'
  <2>1. (\A s \in Callers \ {r} : call'[s] = call[s]) /\ call'[r] = NoCall
    BY <1>8, <1>c DEF FailCall, CallShape
  <2>2. account' = account /\ org' = org /\ excused \subseteq excused'
    BY <1>8 DEF FailCall
  <2>3. Inside'
    BY <1>i, <2>1, <2>2 DEF Inside, NoCall, AccountShape
  <2>4. RemoverStays'
    BY <1>i, <2>1, <2>2 DEF RemoverStays, NoCall, Admin
  <2>5. ASSUME NEW p \in org \ excused', Registering(p) PROVE Registering(p)'
    <3>1. PICK s \in Callers : call[s].op = "register" /\ call[s].org = p
      BY <2>5 DEF Registering
    <3>2. p # "none"
      BY <1>i DEF AccountShape
    <3>3. s # r
      BY <1>8, <2>5, <3>1, <3>2 DEF FailCall
    <3> QED BY <2>1, <3>1, <3>3 DEF Registering
  <2>6. AdminRemains'
    BY <1>i, <2>2, <2>5 DEF AdminRemains, Members, Admin
  <2> QED BY <2>3, <2>4, <2>6
<1>9. ASSUME NEW r \in Callers, NEW admin \in BOOLEAN, NEW active \in BOOLEAN,
             NEW e \in Emails, UpdateUser(r, admin, active, e)
      PROVE  (Inside /\ RemoverStays /\ AdminRemains)'
  <2> DEFINE on == call[r].on
             o == call[r].org
  <2>1. (\A s \in Callers \ {r} : call'[s] = call[s]) /\ call'[r] = NoCall
    BY <1>9, <1>c DEF UpdateUser, CallShape
  <2>2. /\ \A b \in Accounts \ {on} : account'[b] = account[b]
        /\ on \in Accounts /\ account'[on].org = account[on].org
        /\ account'[on].admin = admin /\ account'[on].active = active
    BY <1>9, <1>i, Updated
  <2>3. account[on].org = o /\ o # "none" /\ org' = org /\ call[r].op = "update"
    BY <1>9, <1>i DEF UpdateUser, Inside
  <2>4. Inside'
    BY <1>i, <2>1, <2>2, <2>3 DEF Inside, NoCall, AccountShape
  <2>5. excused \subseteq excused' /\ (Admin(on) /\ o \notin excused' => admin /\ active)
    BY <1>9 DEF UpdateUser
  <2>6. \A b \in Accounts : Admin(b) /\ account[b].org \notin excused' => Admin(b)'
    BY <2>2, <2>3, <2>5 DEF Admin
  <2>7. \A b \in Accounts : account'[b].org = account[b].org
    BY <2>2
  <2>8. RemoverStays'
    BY <1>i, <2>1, <2>5, <2>6, <2>7 DEF RemoverStays, NoCall
  <2>9. \A p \in org : Registering(p) => Registering(p)'
    BY <2>1, <2>3 DEF Registering
  <2>10. AdminRemains'
    BY <1>i, <2>3, <2>5, <2>6, <2>7, <2>9 DEF AdminRemains, Members, Admin
  <2> QED BY <2>4, <2>8, <2>10
<1>10. CASE UNCHANGED accountVars
  BY <1>10, <1>i DEF accountVars, Inside, RemoverStays, AdminRemains, Admin, Members, Registering
<1> QED BY <1>1, <1>2, <1>3, <1>4, <1>5, <1>6, <1>7, <1>8, <1>9, <1>10 DEF AccountsNext

(***************************************************************************)
(* However many requests add, edit and remove users, and wherever they     *)
(* fail, an organization keeps an active admin, unless its registration    *)
(* failed halfway, two of its admins were removed side by side, or an edit *)
(* took an admin's role or access away.                                    *)
(***************************************************************************)
THEOREM AdminStays ==
    ASSUME "none" \notin Orgs
    PROVE  AccountsSpec => []AdminRemains
<1>1. AccountsInit => AdminInv
  BY InitAccounts DEF AdminInv, AccountsInit, Inside, RemoverStays, AdminRemains, NoCall, NoAccount
<1>2. AdminInv /\ [AccountsNext]_accountVars => AdminInv'
  BY AdminStep
<1>3. AdminInv => AdminRemains
  BY DEF AdminInv
<1> QED BY <1>1, <1>2, <1>3, PTL DEF AccountsSpec

(***************************************************************************)
(* Types of the rows and the requests.  What is gone has left nothing      *)
(* behind, so a row that is found has a state of its kind; an update says  *)
(* which state it writes.                                                  *)
(***************************************************************************)
DeskTypes ==
    /\ DeskTypeOK
    /\ \A i \in Ids : row[i].state = "gone" => row[i].resolvedAt = "none"
    /\ \A r \in Requests : req[r].op = "update" => req[r].arg \in StateOf(req[r].id)

LEMMA StatesOf ==
    ASSUME Rules \intersect Boards = {}
    PROVE  /\ \A i \in Boards : StateOf(i) = BoardState
           /\ \A i \in Rules : StateOf(i) = RuleState
           /\ \A i \in Ids : "gone" \notin StateOf(i) /\ Initial(i) \in StateOf(i)
BY DEF StateOf, Initial, BoardState, RuleState, IncidentState, Ids

LEMMA RowWritten ==
    ASSUME DeskTypes, Shape, NEW i \in Ids, NEW state, NEW at \in Stamp,
           state \in StateOf(i) \/ (state = "gone" /\ at = "none"),
           "gone" \notin StateOf(i),
           row' = [row EXCEPT ![i] = [state |-> state, resolvedAt |-> at]]
    PROVE  \A j \in Ids : /\ row'[j].state \in StateOf(j) \union {"gone"}
                          /\ row'[j].resolvedAt \in Stamp
                          /\ row'[j].state = "gone" => row'[j].resolvedAt = "none"
<1> DEFINE y == [state |-> state, resolvedAt |-> at]
<1>1. row'[i] = y /\ y.state = state /\ y.resolvedAt = at
  BY DEF Shape
<1>2. \A j \in Ids \ {i} : row'[j] = row[j]
  BY DEF Shape
<1> HIDE DEF y
<1> QED BY <1>1, <1>2 DEF DeskTypes, DeskTypeOK

LEMMA DeskTypesInit == Init => DeskTypes
<1> SUFFICES ASSUME Init PROVE DeskTypes
  OBVIOUS
<1>1. \A i \in Ids : row[i] = [state |-> "gone", resolvedAt |-> "none"]
  BY DEF Init, Gone, Row
<1>2. \A r \in Requests : req[r] = Idle /\ req[r].op = "none"
  BY DEF Init, Idle
<1>3. \A i \in Ids : row[i].state = "gone" /\ row[i].resolvedAt = "none"
  BY <1>1
<1> QED BY <1>2, <1>3 DEF Init, DeskTypes, DeskTypeOK, Stamp

LEMMA DeskTypesStep ==
    ASSUME Rules \intersect Boards = {}
    PROVE  Shape /\ DeskTypes /\ [Next]_vars => DeskTypes'
<1> SUFFICES ASSUME Shape, DeskTypes, [Next]_vars PROVE DeskTypes'
  OBVIOUS
<1> DEFINE Rows1 == \A j \in Ids : /\ row'[j].state \in StateOf(j) \union {"gone"}
                                   /\ row'[j].resolvedAt \in Stamp
                                   /\ row'[j].state = "gone" => row'[j].resolvedAt = "none"
           OK(q) == /\ \/ q = Idle
                       \/ /\ q.op \in {"create", "update", "toggle", "remove"}
                          /\ q.id \in Ids
                          /\ q.arg \in StateOf(q.id) \union {"none"}
                          /\ q.saw \in StateOf(q.id) \union {"none"}
                    /\ q.op = "update" => q.arg \in StateOf(q.id)
           Requests1 == \A r \in Requests : OK(req'[r])
<1>a. ASSUME Rows1, Requests1, clash' \in BOOLEAN, raced' \subseteq Rules PROVE DeskTypes'
  BY <1>a DEF DeskTypes, DeskTypeOK, Ids, StateOf, Stamp, Idle, BoardState, RuleState,
              IncidentState
<1>b. row' = row => Rows1
  BY DEF DeskTypes, DeskTypeOK
<1>c. req' = req => Requests1
  BY DEF DeskTypes, DeskTypeOK
<1>e. ASSUME NEW r \in Requests, NEW q, OK(q), req' = [req EXCEPT ![r] = q] PROVE Requests1
  <2> HIDE DEF OK
  <2>1. \A s \in Requests : OK(req[s])
    BY DEF OK, DeskTypes, DeskTypeOK
  <2> QED BY <1>e, <2>1 DEF Shape
<1>d. ASSUME NEW r \in Requests, Reply(r) PROVE Requests1
  <2>1. OK(Idle)
    BY DEF Idle
  <2> HIDE DEF OK
  <2> QED BY <1>d, <1>e, <2>1 DEF Reply
<1>f. clash \in BOOLEAN /\ raced \subseteq Rules
  BY DEF DeskTypes, DeskTypeOK
<1>g. "none" \in Stamp /\ "fresh" \in Stamp /\ "old" \in Stamp
  BY DEF Stamp
<1> HIDE DEF Rows1, Requests1
<1>1. ASSUME NEW r \in Requests, NEW i \in Ids, ClearDefault(r, i) PROVE DeskTypes'
  <2>1. i \in Boards /\ row' = Cleared
        /\ req' = [req EXCEPT ![r] = [op |-> "create", id |-> i, arg |-> "default",
                                      saw |-> "none"]]
        /\ clash' \in BOOLEAN /\ raced' = raced
    BY <1>1 DEF ClearDefault
  <2>2. \A j \in Ids : row'[j] = row[j] \/ (j \in Boards /\ row'[j] = Row("plain"))
    BY <2>1 DEF Cleared
  <2>3. Rows1
    BY <2>2, StatesOf DEF Rows1, Row, DeskTypes, DeskTypeOK, BoardState, Stamp
  <2>4. OK([op |-> "create", id |-> i, arg |-> "default", saw |-> "none"])
    BY <2>1, StatesOf DEF BoardState
  <2> HIDE DEF OK
  <2>5. Requests1
    BY <2>1, <2>4, <1>e
  <2> QED BY <2>1, <2>3, <2>5, <1>a, <1>f
<1>2. ASSUME NEW r \in Requests, InsertDefault(r) PROVE DeskTypes'
  <2>1. req[r].id \in Boards /\ Reply(r) /\ clash' = clash /\ raced' = raced
        /\ row' = [row EXCEPT ![req[r].id] = [state |-> "default", resolvedAt |-> "none"]]
    BY <1>2 DEF InsertDefault, Shape, RequestOK, Row
  <2>2. req[r].id \in Ids /\ "default" \in StateOf(req[r].id)
    BY <2>1, StatesOf DEF Ids, BoardState
  <2>3. Rows1
    BY <2>1, <2>2, <1>g, RowWritten, StatesOf DEF Rows1
  <2> QED BY <2>1, <2>3, <1>a, <1>d, <1>f
<1>3. ASSUME NEW i \in Ids, Create(i) PROVE DeskTypes'
  <2>1. req' = req /\ clash' = clash /\ raced' \subseteq raced
        /\ row' = [row EXCEPT ![i] = [state |-> Initial(i), resolvedAt |-> "none"]]
    BY <1>3 DEF Create, Row
  <2>2. Rows1
    BY <2>1, <1>g, RowWritten, StatesOf DEF Rows1
  <2> QED BY <2>1, <2>2, <1>a, <1>c, <1>f
<1>4. ASSUME NEW r \in Requests, NEW i \in Ids, NEW op \in {"update", "toggle", "remove"},
             NEW arg \in StateOf(i) \union {"none"}, Find(r, op, i, arg)
      PROVE  DeskTypes'
  <2>1. /\ row[i] # Gone /\ row' = row /\ clash' = clash /\ raced' = raced
        /\ req' = [req EXCEPT ![r] = [op |-> op, id |-> i, arg |-> arg,
                                      saw |-> row[i].state]]
    BY <1>4 DEF Find
  <2>2. row[i].state \in StateOf(i)
    <3>1. row[i] = [state |-> row[i].state, resolvedAt |-> row[i].resolvedAt]
      BY DEF Shape
    <3>2. row[i].state # "gone"
      BY <2>1, <3>1 DEF DeskTypes, Gone, Row
    <3> QED BY <3>2 DEF DeskTypes, DeskTypeOK
  <2>3. OK([op |-> op, id |-> i, arg |-> arg, saw |-> row[i].state])
    <3>1. op = "update" => arg \in StateOf(i)
      BY <1>4 DEF Find
    <3> QED BY <2>2, <3>1
  <2> HIDE DEF OK
  <2> QED BY <2>1, <2>3, <1>a, <1>b, <1>e, <1>f
<1>5. ASSUME NEW r \in Requests, Write(r) PROVE DeskTypes'
  <2> DEFINE q == req[r]
  <2>1. /\ q.op \in {"update", "toggle", "remove"}
        /\ row' = [row EXCEPT ![q.id] = Written(q)] /\ Reply(r)
        /\ clash' \in BOOLEAN /\ raced' = raced \union Overtaken(r)
    BY <1>5, <1>f DEF Write
  <2>2. q.id \in Ids
    BY <2>1 DEF Shape, RequestOK, Ids
  <2>3. \E state : \E at \in Stamp :
           /\ Written(q) = [state |-> state, resolvedAt |-> at]
           /\ state \in StateOf(q.id) \/ (state = "gone" /\ at = "none")
    <3>1. CASE q.op = "remove"
      BY <3>1, <1>g DEF Written, Gone, Row
    <3>2. CASE q.op = "toggle"
      <4>1. q.id \in Rules
        BY <3>2 DEF Shape, RequestOK
      <4>2. Toggled(q) \in StateOf(q.id)
        BY <4>1, StatesOf DEF Toggled, Flip, RuleState
      <4> QED BY <3>2, <4>2, <1>g DEF Written, Row
    <3>3. CASE q.op = "update"
      <4>1. q.arg \in StateOf(q.id)
        BY <3>3 DEF DeskTypes
      <4>2. ResolvedAt(q) \in Stamp
        BY <2>2, <1>g DEF ResolvedAt, DeskTypes, DeskTypeOK
      <4> QED BY <3>3, <4>1, <4>2 DEF Written
    <3> QED BY <2>1, <3>1, <3>2, <3>3
  <2>4. Rows1
    BY <2>1, <2>2, <2>3, RowWritten, StatesOf DEF Rows1
  <2>5. Overtaken(r) \subseteq Rules
    BY DEF Overtaken
  <2> QED BY <2>1, <2>4, <2>5, <1>a, <1>d, <1>f
<1>6. ASSUME NEW r \in Requests, Fail(r) PROVE DeskTypes'
  BY <1>6, <1>a, <1>b, <1>d, <1>f DEF Fail
<1>7. ASSUME NEW i \in Incidents, Day(i) PROVE DeskTypes'
  <2> DEFINE at == IF row[i].resolvedAt = "fresh" THEN "old" ELSE row[i].resolvedAt
  <2>1. /\ i \in Ids /\ req' = req /\ clash' = clash /\ raced' = raced
        /\ row' = [row EXCEPT ![i].resolvedAt = at]
    BY <1>7 DEF Day, Ids
  <2>2. row' = [row EXCEPT ![i] = [state |-> row[i].state, resolvedAt |-> at]]
    <3>1. PICK s, t : row[i] = [state |-> s, resolvedAt |-> t]
      BY <2>1 DEF Shape
    <3>2. [row[i] EXCEPT !.resolvedAt = at] = [state |-> s, resolvedAt |-> at]
          /\ row[i].state = s
      BY <3>1
    <3> HIDE DEF at
    <3> QED BY <2>1, <3>2
  <2>3. /\ at \in Stamp
        /\ row[i].state \in StateOf(i) \/ (row[i].state = "gone" /\ at = "none")
    BY <2>1, <1>g DEF DeskTypes, DeskTypeOK
  <2> HIDE DEF at
  <2>4. Rows1
    BY <2>1, <2>2, <2>3, RowWritten, StatesOf DEF Rows1
  <2> QED BY <2>1, <2>4, <1>a, <1>c, <1>f
<1>8. CASE UNCHANGED vars
  BY <1>8, <1>a, <1>b, <1>c, <1>f DEF vars
<1> QED BY <1>1, <1>2, <1>3, <1>4, <1>5, <1>6, <1>7, <1>8 DEF Next

(***************************************************************************)
(* Types of the accounts and of what is asked for: every account, and      *)
(* every request that has got so far, has an organization that is there.   *)
(***************************************************************************)
CallTyped(c) ==
    \/ c = NoCall
    \/ c.op = "register" /\ c.on \in Emails /\ c.at \in {"org", "user"}
    \/ c.op = "create" /\ c.on \in Emails /\ c.at \in {"find", "write"}
    \/ c.op \in {"update", "remove"} /\ c.on \in Accounts /\ c.at \in {"find", "write"}

AccountTyped(x) ==
    \/ x = NoAccount
    \/ /\ x.org \in org /\ x.email \in Emails
       /\ x.admin \in BOOLEAN /\ x.active \in BOOLEAN

AccountTypes ==
    /\ org \subseteq Orgs /\ excused \subseteq Orgs /\ doubled \subseteq Emails
    /\ \A a \in Accounts : AccountTyped(account[a])
    /\ \A r \in Callers : CallTyped(call[r]) /\ call[r].org \in org \union {"none"}

LEMMA AccountTypesAre == AccountTypes => AccountsTypeOK
BY DEF AccountTypes, AccountsTypeOK, AccountTyped, CallTyped

LEMMA AccountTypesInit == AccountsInit => AccountTypes
BY DEF AccountsInit, AccountTypes, AccountTyped, CallTyped, NoCall, NoAccount

LEMMA CallForms ==
    ASSUME NEW c \in CallRow, NEW o, NEW at
    PROVE  /\ [c EXCEPT !.at = at] = [op |-> c.op, org |-> c.org, on |-> c.on, at |-> at]
           /\ [[c EXCEPT !.org = o] EXCEPT !.at = at]
                = [op |-> c.op, org |-> o, on |-> c.on, at |-> at]
<1> DEFINE d == [op |-> c.op, org |-> o, on |-> c.on, at |-> c.at]
<1>1. c = [op |-> c.op, org |-> c.org, on |-> c.on, at |-> c.at]
  BY DEF CallRow
<1>2. [c EXCEPT !.at = at] = [op |-> c.op, org |-> c.org, on |-> c.on, at |-> at]
  BY <1>1
<1>3. [c EXCEPT !.org = o] = d
  BY <1>1
<1>4. [d EXCEPT !.at = at] = [op |-> c.op, org |-> o, on |-> c.on, at |-> at]
  OBVIOUS
<1> HIDE DEF d
<1> QED BY <1>2, <1>3, <1>4

LEMMA AccountTypesStep ==
    ASSUME "none" \notin Orgs
    PROVE  AdminInv /\ AccountTypes /\ [AccountsNext]_accountVars => AccountTypes'
<1> SUFFICES ASSUME AdminInv, AccountTypes, [AccountsNext]_accountVars PROVE AccountTypes'
  OBVIOUS
<1>c. CallShape /\ AccountShape /\ Inside
  BY DEF AdminInv, AccountShape, CallShape
<1>0. /\ \A r \in Callers : CallTyped(call[r]) /\ call[r].org \in org \union {"none"}
      /\ \A a \in Accounts : AccountTyped(account[a])
      /\ org \subseteq Orgs /\ excused \subseteq Orgs /\ doubled \subseteq Emails
      /\ DOMAIN call = Callers /\ DOMAIN account = Accounts
  BY <1>c DEF AccountTypes, AccountShape, CallShape
<1>a. ASSUME account' = account, org \subseteq org'
      PROVE  \A a \in Accounts : AccountTyped(account[a])'
  BY <1>a, <1>0 DEF AccountTyped
<1>b. ASSUME NEW r \in Callers, NEW c, CallTyped(c), c.org \in org \union {"none"},
             call' = [call EXCEPT ![r] = c], org \subseteq org'
      PROVE  \A s \in Callers : CallTyped(call'[s]) /\ call'[s].org \in org' \union {"none"}
  BY <1>b, <1>0
<1>n. CallTyped(NoCall) /\ NoCall.org \in org \union {"none"}
  BY DEF CallTyped, NoCall
<1>e. ASSUME NEW r \in Callers, NEW a \in Accounts, NEW x, call' = [call EXCEPT ![r] = NoCall],
             account' = [account EXCEPT ![a] = x], AccountTyped(x), org' = org,
             excused' \subseteq Orgs, doubled' \subseteq Emails
      PROVE  AccountTypes'
  <2>1. \A b \in Accounts : AccountTyped(account[b])'
    BY <1>e, <1>0 DEF AccountTyped
  <2> QED BY <1>e, <2>1, <1>b, <1>n, <1>0 DEF AccountTypes, AccountTyped, CallTyped
<1>1. ASSUME NEW r \in Callers, NEW e \in Emails, Register(r, e) PROVE AccountTypes'
  <2> DEFINE c == [NoCall EXCEPT !.op = "register", !.on = e, !.at = "org"]
  <2>1. CallTyped(c) /\ c.org = "none"
    BY DEF CallTyped, NoCall
  <2>2. call' = [call EXCEPT ![r] = IF EmailTaken(e) THEN NoCall ELSE c]
        /\ UNCHANGED <<org, account, excused, doubled>>
    BY <1>1 DEF Register
  <2> HIDE DEF c
  <2> QED BY <2>1, <2>2, <1>a, <1>b, <1>n, <1>0 DEF AccountTypes, AccountTyped, CallTyped
<1>2. ASSUME NEW r \in Callers, NEW o \in Orgs, RegisterOrg(r, o) PROVE AccountTypes'
  <2>1. /\ call[r].op = "register" /\ call[r].at = "org" /\ org' = org \union {o}
        /\ UNCHANGED <<account, excused, doubled>>
        /\ call' = [call EXCEPT ![r] = [[call[r] EXCEPT !.org = o] EXCEPT !.at = "user"]]
    BY <1>2, <1>0 DEF RegisterOrg
  <2>2. call[r] \in CallRow /\ call[r].on \in Emails
    BY <1>c, <2>1 DEF CallShape
  <2>3. PICK c : c = [[call[r] EXCEPT !.org = o] EXCEPT !.at = "user"]
    OBVIOUS
  <2>5. c = [op |-> "register", org |-> o, on |-> call[r].on, at |-> "user"]
    BY <2>1, <2>2, <2>3, CallForms
  <2>4. \A s \in Callers : CallTyped(call'[s]) /\ call'[s].org \in org' \union {"none"}
    BY <2>1, <2>2, <2>3, <2>5, <1>0 DEF CallTyped
  <2> QED BY <2>1, <2>4, <1>a, <1>0 DEF AccountTypes, AccountTyped, CallTyped
<1>3. ASSUME NEW r \in Callers, NEW a \in Accounts, RegisterUser(r, a) PROVE AccountTypes'
  <2>1. call[r].op = "register" /\ call[r].at = "user"
    BY <1>3 DEF RegisterUser
  <2>2. call[r].on \in Emails /\ call[r].org \in org
    BY <1>0, <1>c, <2>1 DEF Inside, CallShape
  <2>3. AccountTyped([org |-> call[r].org, email |-> call[r].on, admin |-> TRUE, active |-> TRUE])
    BY <2>2 DEF AccountTyped
  <2>4. doubled' \subseteq Emails
    BY <1>3, <1>0, <2>2 DEF RegisterUser
  <2> QED BY <1>3, <1>e, <1>0, <2>3, <2>4 DEF RegisterUser
<1>4. ASSUME NEW r \in Callers, NEW a \in Accounts, CreateUser(r, a) PROVE AccountTypes'
  <2>1. call[r].op = "create" /\ call[r].at = "write"
    BY <1>4 DEF CreateUser
  <2>2. call[r].on \in Emails /\ call[r].org \in org
    BY <1>0, <1>c, <2>1 DEF Inside, CallShape
  <2>3. AccountTyped([org |-> call[r].org, email |-> call[r].on, admin |-> FALSE, active |-> TRUE])
    BY <2>2 DEF AccountTyped
  <2>4. doubled' \subseteq Emails
    BY <1>4, <1>0, <2>2 DEF CreateUser
  <2> QED BY <1>4, <1>e, <1>0, <2>3, <2>4 DEF CreateUser
<1>5. ASSUME NEW r \in Callers, NEW a \in Accounts, NEW op \in {"create", "update", "remove"},
             NEW on \in IF op = "create" THEN Emails ELSE Accounts, Enter(r, a, op, on)
      PROVE  AccountTypes'
  <2> DEFINE c == [op |-> op, org |-> account[a].org, on |-> on, at |-> "find"]
  <2>1. call' = [call EXCEPT ![r] = c] /\ UNCHANGED <<org, account, excused, doubled>>
    BY <1>5 DEF Enter
  <2>2. account[a].org \in org \union {"none"}
    BY <1>0 DEF AccountTyped, NoAccount
  <2>3. CallTyped(c) /\ c.org \in org \union {"none"}
    BY <2>2 DEF CallTyped
  <2> HIDE DEF c
  <2> QED BY <2>1, <2>3, <1>a, <1>b, <1>0 DEF AccountTypes, AccountTyped, CallTyped
<1>6. ASSUME NEW r \in Callers, FindUser(r) PROVE AccountTypes'
  <2>1. /\ call[r].at = "find" /\ UNCHANGED <<org, account, excused, doubled>>
        /\ call' = [call EXCEPT ![r] = IF Found(call[r]) THEN [call[r] EXCEPT !.at = "write"]
                                       ELSE NoCall]
    BY <1>6 DEF FindUser
  <2>2. call[r] \in CallRow /\ CallTyped(call[r]) /\ call[r].org \in org \union {"none"}
    BY <1>c, <1>0 DEF CallShape
  <2>3. PICK c : c = [call[r] EXCEPT !.at = "write"]
    OBVIOUS
  <2>4. c = [op |-> call[r].op, org |-> call[r].org, on |-> call[r].on, at |-> "write"]
    BY <2>2, <2>3, CallForms
  <2>5. CallTyped(c) /\ c.org \in org \union {"none"}
    BY <2>1, <2>2, <2>4 DEF CallTyped, NoCall
  <2> QED BY <2>1, <2>3, <2>5, <1>a, <1>b, <1>n, <1>0 DEF AccountTypes, AccountTyped, CallTyped
<1>7. ASSUME NEW r \in Callers, RemoveUser(r) PROVE AccountTypes'
  <2>1. /\ call[r].op = "remove" /\ call[r].at = "write"
        /\ account' = [account EXCEPT ![call[r].on] = [account[call[r].on] EXCEPT !.active = FALSE]]
        /\ call' = [call EXCEPT ![r] = NoCall] /\ UNCHANGED <<org, doubled>>
        /\ excused' \subseteq excused \union {call[r].org}
    BY <1>7 DEF RemoveUser
  <2>2. call[r].on \in Accounts /\ call[r].org \in org
    BY <1>0, <1>c, <2>1 DEF Inside, CallShape
  <2>3. PICK x : x = [account[call[r].on] EXCEPT !.active = FALSE]
    OBVIOUS
  <2>4. x \in AccountRow /\ AccountTyped(account[call[r].on]) /\ account[call[r].on] \in AccountRow
        /\ (account[call[r].on] = NoAccount => x = NoAccount)
        /\ x.org = account[call[r].on].org /\ x.email = account[call[r].on].email
    BY <2>2, <2>3, <1>0, <1>c, RowRemoved DEF AccountShape
  <2>5. AccountTyped(x)
    BY <2>4 DEF AccountTyped, AccountRow
  <2> QED BY <2>1, <2>2, <2>3, <2>5, <1>e, <1>0
<1>8. ASSUME NEW r \in Callers, FailCall(r) PROVE AccountTypes'
  <2>1. excused' \subseteq Orgs
    BY <1>8, <1>0 DEF FailCall
  <2> QED BY <1>8, <2>1, <1>a, <1>b, <1>n, <1>0 DEF FailCall, AccountTypes, AccountTyped, CallTyped
<1>9. ASSUME NEW r \in Callers, NEW admin \in BOOLEAN, NEW active \in BOOLEAN,
             NEW e \in Emails, UpdateUser(r, admin, active, e)
      PROVE  AccountTypes'
  <2> DEFINE x == [org |-> account[call[r].on].org, email |-> e, admin |-> admin,
                   active |-> active]
  <2>1. /\ call[r].op = "update" /\ call[r].at = "write"
        /\ account' = [account EXCEPT ![call[r].on] = x]
        /\ call' = [call EXCEPT ![r] = NoCall] /\ UNCHANGED org
        /\ excused' \subseteq excused \union {call[r].org}
        /\ doubled' \subseteq doubled \union {e}
    BY <1>9 DEF UpdateUser
  <2>2. call[r].on \in Accounts /\ call[r].org \in org /\ account[call[r].on].org = call[r].org
    BY <1>0, <1>c, <2>1 DEF Inside, CallShape
  <2>3. AccountTyped(x)
    BY <2>2 DEF AccountTyped
  <2> HIDE DEF x
  <2> QED BY <2>1, <2>2, <2>3, <1>e, <1>0
<1>10. CASE UNCHANGED accountVars
  BY <1>10, <1>0 DEF accountVars, AccountTypes, AccountTyped, CallTyped
<1> QED BY <1>1, <1>2, <1>3, <1>4, <1>5, <1>6, <1>7, <1>8, <1>9, <1>10 DEF AccountsNext

-----------------------------------------------------------------------------
(***************************************************************************)
(* Imports.                                                                *)
(***************************************************************************)
\* An import that has found an address missing has found it missing since
\* before any other import created it.
MissingSince ==
    \A a \in Assets, r \in Imports :
        asset[a].by = "import" /\ import[r].missing = asset[a].ip
          => asset[a].ip \in overlapped

\* Rows and imports are records, whatever an address is.
ImportShape ==
    /\ asset = [a \in Assets |-> [ip |-> asset[a].ip, active |-> asset[a].active,
                                  by |-> asset[a].by]]
    /\ import = [r \in Imports |-> [todo |-> import[r].todo, missing |-> import[r].missing]]
    /\ \A a \in Assets : asset[a].by = "import" => asset[a].ip # ImportsPart!None

ImportInv == ImportShape /\ MissingSince /\ ImportsPart!ImportedOnce

LEMMA AssetForms ==
    ASSUME NEW y, y = [ip |-> y.ip, active |-> y.active, by |-> y.by], NEW ip, NEW on
    PROVE  /\ [[y EXCEPT !.ip = ip] EXCEPT !.by = "user"]
                = [ip |-> ip, active |-> y.active, by |-> "user"]
           /\ [y EXCEPT !.active = on] = [ip |-> y.ip, active |-> on, by |-> y.by]
<1> DEFINE z == [y EXCEPT !.ip = ip]
<1>1. z = [ip |-> ip, active |-> y.active, by |-> y.by]
  OBVIOUS
<1>2. [z EXCEPT !.by = "user"] = [ip |-> ip, active |-> y.active, by |-> "user"]
  <2> HIDE DEF z
  <2> QED
    BY <1>1
<1>3. [y EXCEPT !.active = on] = [ip |-> y.ip, active |-> on, by |-> y.by]
  OBVIOUS
<1> QED
  BY <1>2, <1>3

LEMMA ImportForms ==
    ASSUME NEW x, x = [todo |-> x.todo, missing |-> x.missing], NEW v
    PROVE  /\ [x EXCEPT !.missing = v] = [todo |-> x.todo, missing |-> v]
           /\ [x EXCEPT !.todo = v] = [todo |-> v, missing |-> x.missing]
OBVIOUS

LEMMA InitImport ==
    ASSUME ImportsPart!Init
    PROVE  ImportInv
BY DEF ImportsPart!Init, ImportInv, ImportShape, MissingSince, ImportsPart!ImportedOnce,
       ImportsPart!NoAsset, ImportsPart!NoImport, ImportsPart!None

LEMMA CreateHostKeeps ==
    ASSUME ImportInv, NEW r \in Imports, NEW a \in Assets, ImportsPart!CreateHost(r, a)
    PROVE  ImportInv'
<1> PICK ip : ip = import[r].missing
  OBVIOUS
<1>1. /\ ip # ImportsPart!None /\ asset[a] = ImportsPart!NoAsset
      /\ asset'[a] = [ip |-> ip, active |-> TRUE, by |-> "import"]
      /\ \A b \in Assets \ {a} : asset'[b] = asset[b]
      /\ import'[r].missing = ImportsPart!None
      /\ \A q \in Imports \ {r} : import'[q] = import[q]
      /\ overlapped \subseteq overlapped'
      /\ (\E q \in Imports \ {r} : import[q].missing = ip) => ip \in overlapped'
  BY DEF ImportsPart!CreateHost, ImportInv, ImportShape
<1>2. ImportShape'
  BY <1>1 DEF ImportsPart!CreateHost, ImportInv, ImportShape
<1>3. MissingSince'
  <2>1. ASSUME NEW b \in Assets, NEW q \in Imports,
               asset'[b].by = "import", import'[q].missing = asset'[b].ip
        PROVE  asset'[b].ip \in overlapped'
    <3>1. q # r
      BY <1>1, <1>2, <2>1 DEF ImportShape
    <3>2. CASE b = a
      BY <1>1, <2>1, <3>1, <3>2
    <3>3. CASE b # a
      BY <1>1, <2>1, <3>1, <3>3 DEF ImportInv, MissingSince
    <3> QED
      BY <3>2, <3>3
  <2> QED
    BY <2>1 DEF MissingSince
<1>4. ImportsPart!ImportedOnce'
  <2>1. ASSUME NEW b \in Assets \ {a}, asset[b].by = "import", asset[b].ip = ip
        PROVE  ip \in overlapped'
    BY <1>1, <2>1 DEF ImportInv, MissingSince
  <2>2. ASSUME NEW b \in Assets, NEW c \in Assets, b # c,
               asset'[b].by = "import", asset'[c].by = "import",
               asset'[b].ip = asset'[c].ip
        PROVE  asset'[b].ip \in overlapped'
    <3>1. CASE b = a \/ c = a
      BY <1>1, <2>1, <2>2, <3>1
    <3>2. CASE b # a /\ c # a
      BY <1>1, <2>2, <3>2 DEF ImportInv, ImportsPart!ImportedOnce
    <3> QED
      BY <3>1, <3>2
  <2> QED
    BY <2>2 DEF ImportsPart!ImportedOnce
<1> QED
  BY <1>2, <1>3, <1>4 DEF ImportInv

\* A host is found missing while nobody has it.
LEMMA FindHostKeeps ==
    ASSUME ImportInv, NEW r \in Imports, ImportsPart!FindHost(r)
    PROVE  ImportInv'
<1>s. ImportShape
  BY DEF ImportInv
<1>x. import[r] = [todo |-> import[r].todo, missing |-> import[r].missing]
  BY <1>s DEF ImportShape
<1> PICK ip : ip = Head(import[r].todo)
  OBVIOUS
<1>f. PICK y : /\ import' = [import EXCEPT ![r] = y]
               /\ \/ y = [todo |-> Tail(import[r].todo), missing |-> import[r].missing]
                  \/ y = [todo |-> import[r].todo, missing |-> ip] /\ ~ImportsPart!HasAsset(ip)
  <2> DEFINE x == import[r]
             y1 == [x EXCEPT !.todo = Tail(@)]
             y2 == [x EXCEPT !.missing = ip]
  <2>1. /\ ImportsPart!HasAsset(ip) => import' = [import EXCEPT ![r] = y1]
        /\ ~ImportsPart!HasAsset(ip) => import' = [import EXCEPT ![r] = y2]
    BY DEF ImportsPart!FindHost
  <2>2. /\ y1 = [todo |-> Tail(import[r].todo), missing |-> import[r].missing]
        /\ y2 = [todo |-> import[r].todo, missing |-> ip]
    BY <1>x, ImportForms
  <2> HIDE DEF y1, y2
  <2> QED
    BY <2>1, <2>2
<1>1. /\ asset' = asset /\ overlapped' = overlapped /\ import'[r] = y
      /\ \A q \in Imports \ {r} : import'[q] = import[q]
      /\ \/ import'[r].missing = import[r].missing
         \/ \A a \in Assets : asset[a].ip # import'[r].missing
  BY <1>s, <1>f DEF ImportsPart!FindHost, ImportsPart!HasAsset, ImportShape
<1>2. ImportShape'
  BY <1>s, <1>1, <1>f DEF ImportShape
<1> QED
  BY <1>1, <1>2 DEF ImportInv, MissingSince, ImportsPart!ImportedOnce

\* Nothing is found missing, and no row becomes an imported one.
LEMMA NothingImported ==
    ASSUME ImportInv, ImportShape', overlapped' = overlapped,
           \A r \in Imports : import'[r].missing \in {import[r].missing, ImportsPart!None},
           \A a \in Assets : asset'[a].by = "import" =>
              asset[a].by = "import" /\ asset'[a].ip = asset[a].ip
    PROVE  ImportInv'
BY DEF ImportInv, ImportShape, MissingSince, ImportsPart!ImportedOnce

LEMMA ImportStep == ImportInv /\ [ImportsPart!Next]_(ImportsPart!vars) => ImportInv'
<1> SUFFICES ASSUME ImportInv, [ImportsPart!Next]_(ImportsPart!vars) PROVE ImportInv'
  OBVIOUS
<1>s. ImportShape
  BY DEF ImportInv
<1>1. CASE UNCHANGED <<asset, import, overlapped>>
  BY <1>1 DEF ImportInv, ImportShape, MissingSince, ImportsPart!ImportedOnce
<1>2. ASSUME NEW r \in Imports, ImportsPart!StartImport(r) \/ ImportsPart!SkipHost(r)
      PROVE  ImportInv'
  <2>1. /\ asset' = asset /\ overlapped' = overlapped /\ ImportShape'
        /\ \A q \in Imports : import'[q].missing \in {import[q].missing, ImportsPart!None}
    BY <1>2, <1>s DEF ImportsPart!StartImport, ImportsPart!SkipHost, ImportShape
  <2> QED
    BY <2>1, NothingImported
<1>3. ASSUME NEW a \in Assets, NEW ip \in UserAddresses,
             ImportsPart!CreateAsset(a, ip) \/ ImportsPart!EditAsset(a, ip)
      PROVE  ImportInv'
  <2>0. asset[a] = [ip |-> asset[a].ip, active |-> asset[a].active, by |-> asset[a].by]
    BY <1>s DEF ImportShape
  <2>f. \E x : asset' = [asset EXCEPT ![a] = [ip |-> ip, active |-> x, by |-> "user"]]
    <3>1. CASE ImportsPart!EditAsset(a, ip)
      <4>1. asset' = [asset EXCEPT ![a] = [[asset[a] EXCEPT !.ip = ip] EXCEPT !.by = "user"]]
        BY <1>s, <3>1 DEF ImportsPart!EditAsset, ImportShape
      <4> QED
        BY <2>0, <4>1, AssetForms
    <3> QED
      BY <1>3, <3>1 DEF ImportsPart!CreateAsset
  <2>1. /\ \A b \in Assets \ {a} : asset'[b] = asset[b]
        /\ asset'[a].by = "user" /\ import' = import /\ overlapped' = overlapped
    BY <1>3, <1>s, <2>f DEF ImportsPart!CreateAsset, ImportsPart!EditAsset, ImportShape
  <2>2. ImportShape'
    BY <1>s, <2>1, <2>f DEF ImportShape
  <2> QED
    BY <2>1, <2>2, NothingImported
<1>4. ASSUME NEW a \in Assets, ImportsPart!RemoveAsset(a) PROVE ImportInv'
  <2>0. asset[a] = [ip |-> asset[a].ip, active |-> asset[a].active, by |-> asset[a].by]
    BY <1>s DEF ImportShape
  <2>f. asset' = [asset EXCEPT ![a] = [ip |-> asset[a].ip, active |-> FALSE, by |-> asset[a].by]]
    <3>1. asset' = [asset EXCEPT ![a] = [asset[a] EXCEPT !.active = FALSE]]
      BY <1>4 DEF ImportsPart!RemoveAsset
    <3> QED
      BY <2>0, <3>1, AssetForms
  <2>1. /\ \A b \in Assets : asset'[b].by = asset[b].by /\ asset'[b].ip = asset[b].ip
        /\ import' = import /\ overlapped' = overlapped
    BY <1>4, <1>s, <2>f DEF ImportsPart!RemoveAsset, ImportShape
  <2>2. ImportShape'
    BY <1>s, <2>1, <2>f DEF ImportShape
  <2> QED
    BY <2>1, <2>2, NothingImported
<1>5. \/ UNCHANGED <<asset, import, overlapped>>
      \/ \E r \in Imports : \/ ImportsPart!StartImport(r) \/ ImportsPart!FindHost(r)
                             \/ ImportsPart!SkipHost(r)
      \/ \E r \in Imports, a \in Assets : ImportsPart!CreateHost(r, a)
      \/ \E a \in Assets : ImportsPart!RemoveAsset(a)
      \/ \E a \in Assets, ip \in UserAddresses :
            ImportsPart!CreateAsset(a, ip) \/ ImportsPart!EditAsset(a, ip)
  BY DEF ImportsPart!Next, ImportsPart!vars, ImportsPart!Ask, ImportsPart!ScanBatch, ImportsPart!Discard
<1> QED
  BY <1>1, <1>2, <1>3, <1>4, <1>5, FindHostKeeps, CreateHostKeeps

(***************************************************************************)
(* An address that is found again and again gets one imported asset, also  *)
(* after its asset was removed, however many imports, users and failing    *)
(* statements there are; two assets come of it only when two imports had   *)
(* both found the address missing before either created it.                *)
(***************************************************************************)
THEOREM ImportsOnce == ImportsPart!Spec => []ImportedOnce
<1>1. ImportInv => ImportedOnce
  BY DEF ImportInv, ImportedOnce
<1> QED
  BY <1>1, InitImport, ImportStep, PTL DEF ImportsPart!Spec

-----------------------------------------------------------------------------
(***************************************************************************)
(* Scans.                                                                  *)
(***************************************************************************)
\* What a scan has found are the hosts of its batches so far that answer.
ScanInv ==
    /\ scan = [range |-> scan.range, ips |-> scan.ips, next |-> scan.next,
               step |-> scan.step, alive |-> scan.alive, found |-> scan.found]
    /\ scan.range # <<>> =>
         /\ scan.range \in ScansPart!Ranges
         /\ scan.ips = ScansPart!ParseRange(scan.range)
         /\ scan.ips \in Seq(Int)
         /\ scan.next \in Nat \ {0} /\ scan.step \in Nat \ {0}
         /\ scan.found = {scan.ips[i] : i \in {j \in DOMAIN scan.ips : j < scan.next}}
                           \intersect scan.alive

LEMMA ModuloRange ==
    ASSUME NEW M \in Nat, M > 0, NEW a \in Int
    PROVE  a % M \in 0 .. M - 1
BY SMT

LEMMA ModuloShift ==
    ASSUME NEW M \in Nat, M > 0, NEW a \in Int, 0 <= a, a < M
    PROVE  (a - M) % M = a /\ a % M = a
BY SMT

LEMMA Quotient ==
    ASSUME NEW M \in Nat, M > 0, NEW a \in Int
    PROVE  \E q \in Int : a = (q * M) + (a % M)
<1>1. a = ((a \div M) * M) + (a % M)
  BY SMTT(30)
<1>2. a \div M \in Int
  BY SMTT(30)
<1> QED
  BY <1>1, <1>2

\* Of numbers closer than M no two are the same modulo M.
LEMMA ModuloApart ==
    ASSUME NEW M \in Nat, M > 0, NEW c \in Int, NEW i \in Int, NEW k \in Int,
           0 <= i, i < k, k < M
    PROVE  (c + i) % M # (c + k) % M
<1> SUFFICES ASSUME (c + i) % M = (c + k) % M PROVE FALSE
  OBVIOUS
<1>1. PICK p \in Int : c + i = (p * M) + ((c + i) % M)
  <2>1. c + i \in Int
    OBVIOUS
  <2> QED
    BY <2>1, Quotient
<1>2. PICK q \in Int : c + k = (q * M) + ((c + k) % M)
  <2>1. c + k \in Int
    OBVIOUS
  <2> QED
    BY <2>1, Quotient
<1>3. k - i = q * M - p * M
  <2>1. (c + i) % M \in Int
    BY ModuloRange
  <2>2. PICK x \in Int, y \in Int, z \in Int : x = p * M /\ y = q * M /\ z = (c + i) % M
    BY <2>1
  <2>3. c + i = x + z /\ c + k = y + z
    BY <1>1, <1>2, <2>2
  <2> QED
    BY <2>2, <2>3
<1>4. q * M - p * M = (q - p) * M
  BY SMTT(30)
<1>5. q - p >= 1 \/ q - p <= 0
  OBVIOUS
<1>6. \A d \in Int : (d >= 1 => d * M >= M) /\ (d <= 0 => d * M <= 0)
  BY SMTT(30)
<1> QED
  BY <1>3, <1>4, <1>5, <1>6

\* A network at a multiple of its size ends within the address space.
LEMMA NetworkFits ==
    ASSUME NEW P \in Nat, P > 0, NEW Q \in Nat, NEW a \in Nat, a < Q * P, a % P = 0
    PROVE  a + P <= Q * P
<1>1. PICK k \in Nat : a = k * P
  BY SMTT(30)
<1>2. k < Q
  BY <1>1, SMTT(30)
<1>3. (k + 1) * P <= Q * P
  BY <1>2, SMTT(30)
<1> QED
  BY <1>1, <1>3, SMTT(30)

LEMMA RangeForms ==
    ASSUME NEW r \in ScansPart!Ranges
    PROVE  \/ r[1] = "cidr" /\ r[2] \in Bases /\ r[3] \in 0 .. Bits
           \/ r[1] = "run" /\ r[2] \in Bases /\ r[3] \in ScansPart!Octet /\ r[4] \in ScansPart!Octet
           \/ r[1] = "single" /\ r[2] \in Bases
BY DEF ScansPart!Ranges

\* A network, wherever its base is in it, is a sequence of different addresses.
LEMMA CidrApart ==
    ASSUME NEW base \in Bases, NEW bits \in 0 .. Bits
    PROVE  LET s == ScansPart!Cidr(base, bits)
           IN  /\ s \in Seq(Int)
               /\ \A i, k \in DOMAIN s : s[i] = s[k] => i = k
<1> DEFINE M == 2 ^ Bits
           P == 2 ^ (Bits - bits)
           c == ScansPart!ToSigned(base)
           s == ScansPart!Cidr(base, bits)
<1>1. M \in Nat /\ M > 0 /\ P \in Nat /\ P > 0 /\ P <= M /\ base \in 0 .. M - 1
  <2>1. Bits - bits \in 0 .. Bits /\ Bits \in 0 .. Bits
    BY ScansAssumption
  <2>2. M = P * 2 ^ (Bits - (Bits - bits)) /\ 2 ^ (Bits - (Bits - bits)) \in Nat \ {0}
    <3>1. Bits - (Bits - bits) \in 0 .. Bits
      BY ScansAssumption
    <3> QED
      BY <2>1, <3>1, ScansAssumption
  <2>3. M \in Nat \ {0} /\ P \in Nat \ {0}
    BY <2>1, ScansAssumption
  <2> HIDE DEF M, P
  <2>4. ASSUME NEW q \in Nat \ {0}, M = P * q
        PROVE  P <= M
    BY <2>3, <2>4, SMTT(30)
  <2>5. base \in 0 .. M - 1
    BY ScansAssumption DEF M
  <2> QED
    BY <2>2, <2>3, <2>4, <2>5
<1>2. c \in Int
  BY <1>1, ScansAssumption DEF ScansPart!ToSigned
<1>3. s = [i \in 1 .. P - 2 |-> (c + i) % M]
  BY DEF ScansPart!Cidr, ScansPart!Hosts, ScansPart!Format, ScansPart!Wrap
<1> HIDE DEF M, P, c, s
<1>4. \A i \in 1 .. P - 2 : (c + i) % M \in Int
  BY <1>1, <1>2, ModuloRange
<1>5. s \in Seq(Int)
  <2>1. CASE P - 2 >= 0
    BY <1>1, <1>3, <1>4, <2>1
  <2>2. CASE P - 2 < 0
    <3>1. 1 .. P - 2 = 1 .. 0
      BY <1>1, <2>2
    <3>2. s = [i \in 1 .. 0 |-> (c + i) % M]
      BY <1>3, <3>1
    <3> QED
      BY <3>2
  <2> QED
    BY <1>1, <2>1, <2>2
<1>6. ASSUME NEW i \in DOMAIN s, NEW k \in DOMAIN s, i < k
      PROVE  s[i] # s[k]
  <2>1. i \in 1 .. P - 2 /\ k \in 1 .. P - 2
    BY <1>3, <1>6
  <2>2. i \in Int /\ k \in Int /\ 0 <= i /\ k < M
    BY <1>1, <2>1
  <2>3. (c + i) % M # (c + k) % M
    BY <1>1, <1>2, <1>6, <2>2, ModuloApart
  <2> QED
    BY <1>3, <2>1, <2>3
<1>7. \A i, k \in DOMAIN s : i \in Int /\ k \in Int
  BY <1>1, <1>3
<1> QED
  BY <1>5, <1>6, <1>7 DEF s

\* A network given by its first address is what is between its ends.
LEMMA CidrExact ==
    ASSUME NEW base \in Bases, NEW bits \in 0 .. Bits,
           base % 2 ^ (Bits - bits) = 0
    PROVE  ScansPart!ToSet(ScansPart!Cidr(base, bits))
             = {n \in ScansPart!Address : n > base /\ n < base + 2 ^ (Bits - bits) - 1}
<1> DEFINE M == 2 ^ Bits
           P == 2 ^ (Bits - bits)
           Q == 2 ^ bits
           c == ScansPart!ToSigned(base)
           s == ScansPart!Cidr(base, bits)
<1>1. /\ M \in Nat /\ M > 0 /\ P \in Nat /\ P > 0 /\ Q \in Nat /\ M = Q * P
      /\ base \in 0 .. M - 1
  <2>1. Bits - bits \in 0 .. Bits /\ Bits \in 0 .. Bits
    BY ScansAssumption
  <2> QED
    BY <2>1, ScansAssumption
<1>2. c = base \/ c = base - M
  BY DEF ScansPart!ToSigned
<1>3. s = [i \in 1 .. P - 2 |-> (c + i) % M]
  BY DEF ScansPart!Cidr, ScansPart!Hosts, ScansPart!Format, ScansPart!Wrap
<1>4. base % P = 0
  OBVIOUS
<1> HIDE DEF M, P, Q, c, s
<1>5. base + P <= M
  <2>1. base \in Nat /\ base < Q * P
    BY <1>1
  <2>2. base + P <= Q * P
    BY <1>1, <1>4, <2>1, NetworkFits
  <2> QED
    BY <1>1, <2>2
<1>6. ASSUME NEW i \in 1 .. P - 2
      PROVE  (c + i) % M = base + i
  <2>1. base + i \in Int /\ 0 <= base + i /\ base + i < M
    BY <1>1, <1>5
  <2>2. ((base + i) - M) % M = base + i /\ (base + i) % M = base + i
    BY <1>1, <2>1, ModuloShift
  <2>3. c + i = base + i \/ c + i = (base + i) - M
    BY <1>1, <1>2
  <2> QED
    BY <2>2, <2>3
<1>7. ScansPart!ToSet(s) = {base + i : i \in 1 .. P - 2}
  BY <1>3, <1>6 DEF ScansPart!ToSet
<1>8. {base + i : i \in 1 .. P - 2} = {n \in 0 .. M - 1 : n > base /\ n < base + P - 1}
  <2>1. ASSUME NEW n \in 0 .. M - 1, n > base, n < base + P - 1
        PROVE  \E i \in 1 .. P - 2 : n = base + i
    <3>1. n - base \in 1 .. P - 2 /\ n = base + (n - base)
      BY <1>1, <2>1
    <3> QED
      BY <3>1
  <2>2. ASSUME NEW i \in 1 .. P - 2
        PROVE  base + i \in 0 .. M - 1 /\ base + i > base /\ base + i < base + P - 1
    BY <1>1, <1>5
  <2> QED
    BY <2>1, <2>2
<1> QED
  BY <1>7, <1>8 DEF ScansPart!Address, M, P, s

LEMMA RunApart ==
    ASSUME NEW base \in Bases, NEW first \in ScansPart!Octet, NEW last \in ScansPart!Octet
    PROVE  LET s == ScansPart!LastOctets(base, first, last)
           IN  /\ s \in Seq(Int)
               /\ \A i, k \in DOMAIN s : s[i] = s[k] => i = k
<1> DEFINE net == (base \div 2 ^ OctetBits) * 2 ^ OctetBits
           n == last - first + 1
           s == ScansPart!LastOctets(base, first, last)
<1>1. net \in Int /\ n \in Int /\ first \in Int
  <2>1. 2 ^ OctetBits \in Nat \ {0} /\ base \in Int
    <3>1. 2 ^ Bits \in Nat /\ Bits \in 0 .. Bits
      BY ScansAssumption
    <3> QED
      BY <3>1, ScansAssumption
  <2> QED
    BY <2>1 DEF ScansPart!Octet
<1>2. s = [i \in 1 .. n |-> net + first + i - 1]
  BY DEF ScansPart!LastOctets
<1> HIDE DEF net, n, s
<1>3. s \in Seq(Int)
  <2>1. CASE n >= 0
    BY <1>1, <1>2, <2>1
  <2>2. CASE n < 0
    <3>1. 1 .. n = 1 .. 0
      BY <1>1, <2>2
    <3>2. s = [i \in 1 .. 0 |-> net + first + i - 1]
      BY <1>2, <3>1
    <3> QED
      BY <3>2
  <2> QED
    BY <1>1, <2>1, <2>2
<1>4. \A i, k \in DOMAIN s : s[i] = s[k] => i = k
  BY <1>1, <1>2
<1> QED
  BY <1>3, <1>4 DEF s

LEMMA RangesApart ==
    ASSUME NEW r \in ScansPart!Ranges
    PROVE  /\ ScansPart!ParseRange(r) \in Seq(Int)
           /\ \A i, k \in DOMAIN ScansPart!ParseRange(r) :
                 ScansPart!ParseRange(r)[i] = ScansPart!ParseRange(r)[k] => i = k
<1>1. CASE r[1] = "cidr" /\ r[2] \in Bases /\ r[3] \in 0 .. Bits
  BY <1>1, CidrApart DEF ScansPart!ParseRange
<1>2. CASE r[1] = "run" /\ r[2] \in Bases /\ r[3] \in ScansPart!Octet /\ r[4] \in ScansPart!Octet
  BY <1>2, RunApart DEF ScansPart!ParseRange
<1>3. CASE r[1] = "single" /\ r[2] \in Bases
  <2>1. ScansPart!ParseRange(r) = <<r[2]>>
    BY <1>3 DEF ScansPart!ParseRange
  <2>2. r[2] \in Int
    <3>1. 2 ^ Bits \in Nat
      <4>1. Bits \in 0 .. Bits
        BY ScansAssumption
      <4> QED
        BY <4>1, ScansAssumption
    <3>2. r[2] \in 0 .. 2 ^ Bits - 1
      BY <1>3, ScansAssumption
    <3> QED
      BY <3>1, <3>2
  <2> QED
    BY <2>1, <2>2
<1> QED
  BY <1>1, <1>2, <1>3, RangeForms

LEMMA ScanInit == ScansPart!Init => ScanInv
BY DEF ScansPart!Init, ScanInv, ScansPart!NoScan

\* A batch is what lies between the hosts done and the next.
LEMMA BatchIs ==
    ASSUME NEW ips \in Seq(Int), NEW next \in Nat \ {0}, NEW step \in Nat \ {0},
           next <= Len(ips)
    PROVE  ScansPart!ToSet(SubSeq(ips, next, ScansPart!Min({next + step - 1, Len(ips)})))
             = {ips[i] : i \in {j \in DOMAIN ips : next <= j /\ j < next + step}}
<1> DEFINE a == next + step - 1
           b == Len(ips)
           m == IF a <= b THEN a ELSE b
<1>1. a \in Nat /\ b \in Nat /\ DOMAIN ips = 1 .. b
  OBVIOUS
<1>2. ScansPart!Min({a, b}) = m
  <2> HIDE DEF a, b
  <2>1. m \in {a, b} /\ \A y \in {a, b} : m <= y
    BY <1>1
  <2>2. \A x \in {a, b} : (\A y \in {a, b} : x <= y) => x = m
    BY <1>1, <2>1
  <2> QED
    BY <2>1, <2>2 DEF ScansPart!Min
<1>3. m \in next .. b /\ m \in Nat /\ m < next + step
  BY <1>1
<1>m. \A j \in 1 .. b : j <= m <=> j < next + step
  BY <1>1
<1> HIDE DEF m
<1>4. ScansPart!ToSet(SubSeq(ips, next, m)) = {ips[next + i - 1] : i \in 1 .. m - next + 1}
  <2>1. /\ DOMAIN SubSeq(ips, next, m) = 1 .. m - next + 1
        /\ \A i \in 1 .. m - next + 1 : SubSeq(ips, next, m)[i] = ips[next + i - 1]
    BY <1>1, <1>3
  <2> QED
    BY <2>1 DEF ScansPart!ToSet
<1>5. {ips[next + i - 1] : i \in 1 .. m - next + 1}
        = {ips[i] : i \in {j \in DOMAIN ips : next <= j /\ j < next + step}}
  <2>1. ASSUME NEW j \in DOMAIN ips, next <= j, j < next + step
        PROVE  \E i \in 1 .. m - next + 1 : ips[j] = ips[next + i - 1]
    <3>1. j - next + 1 \in 1 .. m - next + 1 /\ next + (j - next + 1) - 1 = j
      BY <1>1, <1>3, <1>m, <2>1
    <3> QED
      BY <3>1
  <2>2. ASSUME NEW i \in 1 .. m - next + 1
        PROVE  /\ next + i - 1 \in DOMAIN ips /\ next <= next + i - 1
               /\ next + i - 1 < next + step
    BY <1>1, <1>3
  <2> QED
    BY <2>1, <2>2
<1> QED
  BY <1>2, <1>4, <1>5

LEMMA ScanBatchKeeps ==
    ASSUME ScanInv, ScansPart!ScanBatch
    PROVE  ScanInv'
<1> DEFINE ips == scan.ips
           batch == {ips[i] : i \in {j \in DOMAIN ips : scan.next <= j
                                                        /\ j < scan.next + scan.step}}
<1>0. CASE scan.range = <<>>
  BY <1>0 DEF ScanInv, ScansPart!ScanBatch
<1>1. CASE scan.range # <<>>
  <2>1. /\ ips \in Seq(Int) /\ scan.next \in Nat \ {0} /\ scan.step \in Nat \ {0}
        /\ scan.next <= Len(ips)
    BY <1>1 DEF ScanInv, ScansPart!ScanBatch, ScansPart!Scanning
  <2>2. ScansPart!Answering(ScansPart!Batch) = batch \intersect scan.alive
    <3>1. ScansPart!ToSet(SubSeq(ips, scan.next,
            ScansPart!Min({scan.next + scan.step - 1, Len(ips)}))) = batch
      BY <2>1, BatchIs
    <3> QED
      BY <3>1 DEF ScansPart!Answering, ScansPart!Batch
  <2>3. scan' = [scan EXCEPT !.found = scan.found \union (batch \intersect scan.alive),
                             !.next = scan.next + scan.step]
    BY <2>2 DEF ScansPart!ScanBatch, ScansPart!Advance
  <2>4. scan' = [range |-> scan.range, ips |-> scan.ips, next |-> scan.next + scan.step,
                 step |-> scan.step, alive |-> scan.alive,
                 found |-> scan.found \union (batch \intersect scan.alive)]
    BY <2>3 DEF ScanInv
  <2>5. scan'.found = {ips[i] : i \in {j \in DOMAIN ips : j < scan'.next}}
                         \intersect scan.alive
    <3>1. {ips[i] : i \in {j \in DOMAIN ips : j < scan.next + scan.step}}
            = {ips[i] : i \in {j \in DOMAIN ips : j < scan.next}} \union batch
      BY <2>1
    <3>2. scan.found = {ips[i] : i \in {j \in DOMAIN ips : j < scan.next}}
                         \intersect scan.alive
      BY <1>1 DEF ScanInv
    <3> QED
      BY <2>4, <3>1, <3>2
  <2> HIDE DEF batch
  <2> QED
    BY <1>1, <2>1, <2>4, <2>5 DEF ScanInv
<1> QED
  BY <1>0, <1>1

LEMMA AskKeeps ==
    ASSUME NEW range \in ScansPart!Ranges, NEW step \in Concurrency, NEW alive,
           ScansPart!Ask(range, step, alive)
    PROVE  ScanInv'
<1>1. scan' = [range |-> range, ips |-> ScansPart!ParseRange(range), next |-> 1,
               step |-> step, alive |-> alive, found |-> {}]
  BY DEF ScansPart!Ask, ScansPart!NoScan
<1>2. ScansPart!ParseRange(range) \in Seq(Int)
  BY RangesApart
<1>3. {j \in DOMAIN ScansPart!ParseRange(range) : j < 1} = {}
  BY <1>2
<1>4. step \in Nat \ {0}
  BY ScansAssumption
<1> QED
  BY <1>1, <1>2, <1>3, <1>4 DEF ScanInv

LEMMA ScanStep == ScanInv /\ [ScansPart!Next]_(ScansPart!vars) => ScanInv'
<1> SUFFICES ASSUME ScanInv, [ScansPart!Next]_(ScansPart!vars) PROVE ScanInv'
  OBVIOUS
<1>1. CASE scan' = scan
  BY <1>1 DEF ScanInv
<1>2. CASE ScansPart!Discard
  BY <1>2 DEF ScansPart!Discard, ScanInv, ScansPart!NoScan
<1>3. \/ scan' = scan \/ ScansPart!ScanBatch \/ ScansPart!Discard
      \/ \E range \in ScansPart!Ranges, step \in Concurrency :
            \E alive \in ScansPart!Alive(range) : ScansPart!Ask(range, step, alive)
  BY DEF ScansPart!Next, ScansPart!vars
<1> QED
  BY <1>1, <1>2, <1>3, ScanBatchKeeps, AskKeeps

\* A scan that has ended has found whom it should.
LEMMA ScanTells == ScanInv => ScanExact
<1> SUFFICES ASSUME ScanInv, scan.range # <<>>, ~ScansPart!Scanning
             PROVE  ScansPart!ScanExact
  BY DEF ScanExact, ScansPart!ScanExact
<1>1. /\ scan.range \in ScansPart!Ranges /\ scan.ips = ScansPart!ParseRange(scan.range)
      /\ scan.ips \in Seq(Int) /\ scan.next \in Nat /\ scan.next > Len(scan.ips)
  BY DEF ScanInv, ScansPart!Scanning
<1>2. scan.found = ScansPart!ToSet(scan.ips) \intersect scan.alive
  <2>1. PICK ips \in Seq(Int), next \in Nat : ips = scan.ips /\ next = scan.next
    BY <1>1
  <2>2. DOMAIN ips = 1 .. Len(ips) /\ Len(ips) \in Nat /\ Len(ips) < next
    BY <1>1, <2>1
  <2>3. {j \in DOMAIN ips : j < next} = DOMAIN ips
    BY <2>2
  <2> QED
    BY <2>1, <2>3 DEF ScanInv, ScansPart!ToSet
<1>3. \A i, k \in DOMAIN scan.ips : scan.ips[i] = scan.ips[k] => i = k
  BY <1>1, RangesApart
<1>4. ASSUME scan.range[1] = "cidr", scan.range[2] % 2 ^ (Bits - scan.range[3]) = 0
      PROVE  ScansPart!ToSet(scan.ips) = {n \in ScansPart!Address :
                                  /\ n > scan.range[2]
                                  /\ n < scan.range[2] + 2 ^ (Bits - scan.range[3]) - 1}
  <2>1. /\ scan.range[2] \in Bases /\ scan.range[3] \in 0 .. Bits
        /\ scan.ips = ScansPart!Cidr(scan.range[2], scan.range[3])
    BY <1>1, <1>4, RangeForms DEF ScansPart!ParseRange
  <2> QED
    BY <1>4, <2>1, CidrExact
<1>5. PICK r : r = scan.range
  OBVIOUS
<1> QED
  BY <1>2, <1>3, <1>4, <1>5 DEF ScansPart!ScanExact

\* A scan that has ended has found exactly who answers of its range; a network
\* given by its first address and mask is scanned from end to end without its
\* first and last address, below and above 2^31; for addresses of any width.
THEOREM ScansExactly == ScansPart!Spec => []ScanExact
<1>1. ScanInv => ScanExact
  BY ScanTells
<1> QED
  BY ScanInit, ScanStep, <1>1, PTL DEF ScansPart!Spec

-----------------------------------------------------------------------------
(***************************************************************************)
(* The sockets of the SNMP probes.                                         *)
(***************************************************************************)
FreeSlot == ProbesPart!Unused

ProbeRow == [kind : ProbesPart!ProbeKinds \union {"none"},
             lookup : {"none", "pending", "found", "failed"},
             open : BOOLEAN, timer : BOOLEAN,
             answer : {"none", "up", "down", "timeout"}]

\* A timer is armed as long as its socket is open; a socket that is closed has
\* answered; a tester's answers when it closes, and with down if that is
\* before its host was found.
ProbeOK(p) ==
    /\ p \in ProbeRow
    /\ p.open <=> p.timer
    /\ p.kind = "none" => p = FreeSlot
    /\ p.kind # "none" /\ ~p.open => p.answer # "none"
    /\ p.kind = "tester" /\ p.open => p.answer = "none"
    /\ p.kind = "tester" /\ ~p.open /\ p.lookup \in {"pending", "failed"} =>
         p.answer = "down"

ProbesInv ==
    /\ probe = [s \in Slots |-> probe[s]]
    /\ \A s \in Slots : ProbeOK(probe[s])
    /\ device \subseteq Slots /\ process \in {"up", "down"}
    /\ culprit # FreeSlot => /\ culprit.kind = "tester" /\ culprit.lookup = "failed"
                           /\ culprit.answer = "down"

LEMMA NewProbes ==
    /\ ProbeOK(FreeSlot)
    /\ \A kind \in ProbesPart!ProbeKinds : ProbeOK(ProbesPart!Asked(kind))
BY DEF ProbeOK, FreeSlot, ProbesPart!Unused, ProbesPart!Asked, ProbesPart!ProbeKinds, ProbeRow

LEMMA OneProbe ==
    ASSUME ProbesInv, NEW s \in Slots, NEW p, ProbeOK(p),
           probe' = [probe EXCEPT ![s] = p], UNCHANGED <<device, process, culprit>>
    PROVE  ProbesInv'
BY DEF ProbesInv

\* A probe that is settled when it is still open, or catches what close throws.
LEMMA SettleKeeps ==
    ASSUME ProbesInv, NEW s \in Slots, NEW p, ProbeOK(p), p.kind # "none",
           NEW answer \in {"up", "down", "timeout"}, p.open \/ p.lookup = "failed",
           p.kind = "tester" /\ p.lookup \in {"pending", "failed"} => answer = "down",
           ProbesPart!Settle(s, p, answer)
    PROVE  ProbesInv'
<1>1. p \in ProbeRow
  BY DEF ProbeOK
<1>2. CASE p.open \/ ProbesPart!Catches(p.kind)
  <2> DEFINE q == ProbesPart!Settled(p, answer)
  <2>1. ProbeOK(q)
    BY <1>1 DEF ProbesPart!Settled, ProbeOK, ProbeRow, FreeSlot, ProbesPart!Unused
  <2>2. probe' = [probe EXCEPT ![s] = q] /\ UNCHANGED <<device, process, culprit>>
    BY <1>2 DEF ProbesPart!Settle
  <2> QED
    BY <2>1, <2>2, OneProbe
<1>3. CASE ~(p.open \/ ProbesPart!Catches(p.kind))
  <2>1. p.kind = "tester" /\ p.lookup = "failed" /\ p.answer = "down"
    BY <1>1, <1>3 DEF ProbesPart!Catches, ProbeRow, ProbesPart!ProbeKinds, ProbeOK
  <2>2. /\ probe' = [q \in Slots |-> FreeSlot] /\ device' = {}
        /\ process' = "down" /\ culprit' = p
    BY <1>3 DEF ProbesPart!Settle, FreeSlot
  <2> QED
    BY <2>1, <2>2, NewProbes DEF ProbesInv
<1> QED
  BY <1>2, <1>3

LEMMA ProbesInit == ProbesPart!Init => ProbesInv
BY NewProbes DEF ProbesPart!Init, ProbesInv, FreeSlot

LEMMA ProbesStep == ProbesInv /\ [ProbesPart!Next]_(ProbesPart!vars) => ProbesInv'
<1> SUFFICES ASSUME ProbesInv, [ProbesPart!Next]_(ProbesPart!vars) PROVE ProbesInv'
  OBVIOUS
<1>1. CASE UNCHANGED ProbesPart!vars \/ ProbesPart!Restart \/ ProbesPart!DeviceAnswered
  BY <1>1 DEF ProbesPart!vars, ProbesPart!Restart, ProbesPart!DeviceAnswered, ProbesInv
<1>2. ASSUME NEW s \in Slots, NEW kind \in ProbesPart!ProbeKinds,
             probe' = [probe EXCEPT ![s] = ProbesPart!Asked(kind)],
             UNCHANGED <<device, process, culprit>>
      PROVE  ProbesInv'
  BY <1>2, NewProbes, OneProbe
<1>3. ASSUME NEW s \in Slots, ProbesPart!SendThrows(s)
      PROVE  ProbesInv'
  <2> DEFINE p == [ProbesPart!Asked("monitor") EXCEPT !.lookup = "none"]
             q == [p EXCEPT !.answer = "down"]
             r == ProbesPart!Settled([p EXCEPT !.kind = "v3"], "down")
  <2>1. ProbeOK(q) /\ ProbeOK(r)
    BY DEF ProbeOK, ProbeRow, ProbesPart!Asked, ProbesPart!Settled, ProbesPart!ProbeKinds
  <2>2. /\ probe' = [probe EXCEPT ![s] = q] \/ probe' = [probe EXCEPT ![s] = r]
        /\ UNCHANGED <<device, process, culprit>>
    BY <1>3 DEF ProbesPart!SendThrows
  <2> HIDE DEF q, r
  <2> QED
    BY <2>1, <2>2, OneProbe
<1>4. ASSUME NEW S \in SUBSET Slots, ProbesPart!deviceInfo(S)
      PROVE  ProbesInv'
  <2>1. ProbeOK(ProbesPart!Asked("tester"))
    BY NewProbes DEF ProbesPart!ProbeKinds
  <2> QED
    BY <1>4, <2>1 DEF ProbesPart!deviceInfo, ProbesInv
<1>5. ASSUME NEW s \in Slots, ProbesPart!Found(s)
      PROVE  ProbesInv'
  <2> DEFINE p == [probe[s] EXCEPT !.lookup = "found"]
  <2>1. ProbeOK(probe[s]) /\ probe[s].lookup = "pending"
    BY <1>5 DEF ProbesInv, ProbesPart!Found
  <2>2. ProbeOK(p)
    BY <2>1 DEF ProbeOK, ProbeRow, FreeSlot, ProbesPart!Unused
  <2>3. probe' = [probe EXCEPT ![s] = p] /\ UNCHANGED <<device, process, culprit>>
    BY <1>5 DEF ProbesPart!Found
  <2> HIDE DEF p
  <2> QED
    BY <2>2, <2>3, OneProbe
<1>6. ASSUME NEW s \in Slots, ProbesPart!LookupFails(s)
      PROVE  ProbesInv'
  <2> DEFINE p == [probe[s] EXCEPT !.lookup = "failed"]
  <2>1. ProbeOK(probe[s]) /\ probe[s].lookup = "pending"
    BY <1>6 DEF ProbesInv, ProbesPart!LookupFails
  <2>2. ProbeOK(p) /\ p.kind # "none" /\ p.lookup = "failed"
    BY <2>1 DEF ProbeOK, ProbeRow, FreeSlot, ProbesPart!Unused
  <2>3. \/ probe' = [probe EXCEPT ![s] = p] /\ UNCHANGED <<device, process, culprit>>
        \/ ProbesPart!Settle(s, p, "down")
    BY <1>6 DEF ProbesPart!LookupFails
  <2> HIDE DEF p
  <2> QED
    BY <2>2, <2>3, OneProbe, SettleKeeps
<1>7. ASSUME NEW s \in Slots,
             ProbesPart!OnMessage(s) \/ ProbesPart!OnError(s) \/ ProbesPart!OnTimeout(s)
      PROVE  ProbesInv'
  <2>1. PICK p : p = probe[s] /\ ProbeOK(p)
    BY DEF ProbesInv
  <2>2. p.open
    BY <1>7, <2>1 DEF ProbesPart!OnMessage, ProbesPart!OnError, ProbesPart!OnTimeout, ProbeOK
  <2>3. p.kind # "none"
    BY <2>1, <2>2 DEF ProbeOK, FreeSlot, ProbesPart!Unused
  <2>4. \/ p.lookup = "found" /\ ProbesPart!Settle(s, p, "up")
        \/ p.lookup = "found" /\ ProbesPart!Settle(s, p, "down")
        \/ p.kind \in {"monitor", "v3"} /\ ProbesPart!Settle(s, p, "timeout")
        \/ ProbesPart!Settle(s, p, "down")
    BY <1>7, <2>1 DEF ProbesPart!OnMessage, ProbesPart!OnError, ProbesPart!OnTimeout
  <2> QED
    BY <2>1, <2>2, <2>3, <2>4, SettleKeeps
<1>8. ASSUME NEW s \in Slots, ProbesPart!Over(s)
      PROVE  ProbesInv'
  BY <1>8, NewProbes, OneProbe DEF ProbesPart!Over, FreeSlot
<1> QED
  BY <1>1, <1>2, <1>3, <1>4, <1>5, <1>6, <1>7, <1>8
     DEF ProbesPart!Next, ProbesPart!runUdpSnmpCheck, ProbesPart!runSnmpV3Check,
         ProbesPart!checkSnmpUdp, ProbesPart!checkSnmpTcp, ProbesPart!ProbeKinds

\* However lookups, answers and timers of any number of probes fall together,
\* no socket outlives its timer, every closed one has answered, and only a
\* tester's probe whose lookup fails after its timer stops the process.
THEOREM NoProbeLeaks == ProbesPart!Spec => []ProbesContained
<1>1. ProbesInv => ProbesContained
  BY DEF ProbesInv, ProbesContained, ProbesPart!ProbesContained, ProbeOK, FreeSlot
<1> QED
  BY ProbesInit, ProbesStep, <1>1, PTL DEF ProbesPart!Spec

-----------------------------------------------------------------------------
(***************************************************************************)
(* The demo data.                                                          *)
(***************************************************************************)
Names == {SeedingPart!SeedOrder[i] : i \in DOMAIN SeedingPart!SeedOrder}
           \union {SeedingPart!ResetOrder[i] : i \in DOMAIN SeedingPart!ResetOrder}

ToDo(p) == {script[p].left[i] : i \in DOMAIN script[p].left}

\* Who has rows has the organization, and one seed at most has it.  What its
\* rows lack is still to be done by it, or was deleted, unless broken; a seed
\* that still has the organization to write has all else to write, and nothing
\* written.
SeedInv ==
    /\ db = [t \in SeedingPart!Tables |-> db[t]]
    /\ script = [p \in SeedingPart!Seeders |->
                    [job |-> script[p].job, then |-> script[p].then, left |-> script[p].left]]
    /\ \A p \in SeedingPart!Seeders : script[p].left \in Seq(Names)
                                      /\ script[p].then \in {"none", "look"}
    /\ boot # "seeding" => script["entrypoint"].job = "none"
    /\ \A p \in SeedingPart!Seeders, t \in SeedingPart!Tables :
         p \in db[t] => p \in db["organization"]
    /\ \A p, q \in SeedingPart!Seeders :
         p \in db["organization"] /\ q \in db["organization"] => p = q
    /\ \A p \in SeedingPart!Seeders :
         script[p].job = "seed" /\ "organization" \in ToDo(p) =>
            /\ SeedingPart!Tables \subseteq ToDo(p)
            /\ p \notin db["organization"]
            /\ \A i \in DOMAIN script[p].left : script[p].left[i] = "organization" => i = 1
    /\ ~broken =>
         \A p \in SeedingPart!Seeders : p \in db["organization"] =>
           \A t \in SeedingPart!Tables :
             p \in db[t] \/ (script[p].job = "seed" /\ t \in ToDo(p)) \/ t \in deleted

LEMMA Orders ==
    /\ "organization" \in SeedingPart!Tables /\ "incident" \in SeedingPart!Tables
    /\ "user" \in SeedingPart!Tables
    /\ SeedingPart!SeedOrder \in Seq(Names) /\ SeedingPart!ResetOrder \in Seq(Names)
    /\ \A i \in DOMAIN SeedingPart!SeedOrder :
         SeedingPart!SeedOrder[i] = "organization" => i = 1
<1>1. SeedingPart!SeedOrder \in Seq(Names) /\ SeedingPart!ResetOrder \in Seq(Names)
  <2> DEFINE s == SeedingPart!SeedOrder
             r == SeedingPart!ResetOrder
  <2>1. s = [i \in 1 .. 14 |-> s[i]] /\ r = [i \in 1 .. 14 |-> r[i]]
    BY DEF SeedingPart!SeedOrder, SeedingPart!ResetOrder
  <2>2. \A i \in 1 .. 14 : s[i] \in Names /\ r[i] \in Names
    BY <2>1 DEF Names
  <2> HIDE DEF s, r
  <2>3. [i \in 1 .. 14 |-> s[i]] \in Seq(Names) /\ [i \in 1 .. 14 |-> r[i]] \in Seq(Names)
    BY <2>2
  <2> QED
    BY <2>1, <2>3 DEF s, r
<1>2. DOMAIN SeedingPart!SeedOrder = 1 .. 14
  BY DEF SeedingPart!SeedOrder
<1>3. /\ SeedingPart!SeedOrder[1] = "organization" /\ SeedingPart!SeedOrder[2] = "user"
      /\ SeedingPart!SeedOrder[10] = "incident"
  BY DEF SeedingPart!SeedOrder
<1>4. \A i \in 1 .. 14 : SeedingPart!SeedOrder[i] = "organization" => i = 1
  BY DEF SeedingPart!SeedOrder
<1> QED
  BY <1>1, <1>2, <1>3, <1>4 DEF SeedingPart!Tables

LEMMA NamesAreTables == Names = SeedingPart!Tables
<1>1. \A i \in DOMAIN SeedingPart!ResetOrder :
        \E j \in DOMAIN SeedingPart!SeedOrder :
          SeedingPart!SeedOrder[j] = SeedingPart!ResetOrder[i]
  <2> DEFINE s == SeedingPart!SeedOrder
             r == SeedingPart!ResetOrder
  <2>1. /\ DOMAIN s = 1 .. 14 /\ DOMAIN r = 1 .. 14
        /\ r[1] = s[14] /\ r[2] = s[13] /\ r[3] = s[12] /\ r[4] = s[7] /\ r[5] = s[11]
        /\ r[6] = s[10] /\ r[7] = s[9] /\ r[8] = s[8] /\ r[9] = s[6] /\ r[10] = s[5]
        /\ r[11] = s[4] /\ r[12] = s[3] /\ r[13] = s[2] /\ r[14] = s[1]
    BY DEF SeedingPart!SeedOrder, SeedingPart!ResetOrder
  <2> HIDE DEF s, r
  <2>2. \A i \in 1 .. 14 : \E j \in 1 .. 14 : s[j] = r[i]
    BY <2>1
  <2> QED
    BY <2>1, <2>2 DEF s, r
<1> QED
  BY <1>1 DEF Names, SeedingPart!Tables

LEMMA NeedsOrganization ==
    ASSUME NEW t \in SeedingPart!Tables, t # "organization"
    PROVE  "organization" \in SeedingPart!Needs(t) \/ "incident" \in SeedingPart!Needs(t)
BY DEF SeedingPart!Needs

\* What a seed writes after its organization it writes because it has that.
LEMMA WritableHas ==
    ASSUME SeedInv, NEW p \in SeedingPart!Seeders, NEW t \in SeedingPart!Tables,
           t # "organization", SeedingPart!Writable(p, t)
    PROVE  p \in db["organization"]
BY NeedsOrganization, Orders DEF SeedingPart!Writable, SeedInv

LEMMA SeedInit == SeedingPart!Init => SeedInv
<1> SUFFICES ASSUME SeedingPart!Init PROVE SeedInv
  OBVIOUS
<1>1. "entrypoint" \in SeedingPart!Seeders
  BY DEF SeedingPart!Seeders
<1>2. /\ \A p \in SeedingPart!Seeders : script[p] = SeedingPart!NoScript
      /\ SeedingPart!NoScript = [job |-> "none", then |-> "none", left |-> <<>>]
  BY DEF SeedingPart!Init, SeedingPart!NoScript
<1>4. \A t \in SeedingPart!Tables : db[t] = {}
  BY DEF SeedingPart!Init
<1>5. \A p \in SeedingPart!Seeders : script[p].left \in Seq(Names)
  <2>1. <<>> \in Seq(Names)
    OBVIOUS
  <2>2. \A p \in SeedingPart!Seeders : script[p].left = <<>>
    BY <1>2
  <2> QED
    BY <2>1, <2>2
<1>6. /\ db = [t \in SeedingPart!Tables |-> db[t]]
      /\ script = [p \in SeedingPart!Seeders |->
                     [job |-> script[p].job, then |-> script[p].then, left |-> script[p].left]]
  BY <1>2 DEF SeedingPart!Init
<1>7. script["entrypoint"].job = "none"
  BY <1>1, <1>2
<1>8. \A p \in SeedingPart!Seeders : script[p].job # "seed" /\ script[p].then = "none"
  BY <1>2
<1> QED
  BY <1>4, <1>5, <1>6, <1>7, <1>8, Orders DEF SeedInv

\* A script that begins or ends: where it has nothing left to write, or what
\* it leaves is known to be broken.  It may have written rows on its way out.
LEMMA ScriptTurns ==
    ASSUME SeedInv, NEW p \in SeedingPart!Seeders,
           NEW job, NEW then \in {"none", "look"}, NEW left \in Seq(Names),
           script' = [script EXCEPT ![p] = [job |-> job, then |-> then, left |-> left]],
           \/ db' = db
           \/ /\ broken' /\ job # "seed" /\ p \in db["organization"]
              /\ \E t \in SeedingPart!Tables \ {"organization"} :
                   db' = [db EXCEPT ![t] = @ \union {p}],
           broken' \/ (script[p].job = "seed" =>
                          script[p].left = <<>> \/ p \notin db["organization"]),
           broken => broken', deleted' = deleted,
           job = "seed" => ~SeedingPart!Seeded /\ left = SeedingPart!SeedOrder,
           boot' # "seeding" => (p = "entrypoint" => job = "none")
                                /\ (p # "entrypoint" => boot # "seeding")
    PROVE  SeedInv'
<1>1. /\ script'[p] = [job |-> job, then |-> then, left |-> left]
      /\ \A q \in SeedingPart!Seeders \ {p} : script'[q] = script[q]
  BY DEF SeedInv
<1>2. /\ script' = [q \in SeedingPart!Seeders |->
                       [job |-> script'[q].job, then |-> script'[q].then, left |-> script'[q].left]]
      /\ \A q \in SeedingPart!Seeders : script'[q].left \in Seq(Names)
                                         /\ script'[q].then \in {"none", "look"}
  BY <1>1 DEF SeedInv
<1>3. boot' # "seeding" => script'["entrypoint"].job = "none"
  BY <1>1 DEF SeedInv, SeedingPart!Seeders
<1>4. /\ db' = [t \in SeedingPart!Tables |-> db'[t]]
      /\ db'["organization"] = db["organization"]
      /\ \A q \in SeedingPart!Seeders, t \in SeedingPart!Tables :
           q \in db'[t] => q \in db["organization"]
  <2>1. CASE db' = db
    BY <2>1 DEF SeedInv
  <2>2. ASSUME NEW t \in SeedingPart!Tables, t # "organization", p \in db["organization"],
               db' = [db EXCEPT ![t] = @ \union {p}]
        PROVE  /\ db' = [u \in SeedingPart!Tables |-> db'[u]]
               /\ db'["organization"] = db["organization"]
               /\ \A q \in SeedingPart!Seeders, u \in SeedingPart!Tables :
                    q \in db'[u] => q \in db["organization"]
    <3>1. db' = [u \in SeedingPart!Tables |-> IF u = t THEN db[u] \union {p} ELSE db[u]]
      BY <2>2 DEF SeedInv
    <3>2. db'["organization"] = db["organization"]
      BY <2>2, <3>1, Orders
    <3>3. ASSUME NEW q \in SeedingPart!Seeders, NEW u \in SeedingPart!Tables, q \in db'[u]
          PROVE  q \in db["organization"]
      BY <2>2, <3>1, <3>3 DEF SeedInv
    <3>4. db' = [u \in SeedingPart!Tables |-> db'[u]]
      BY <3>1
    <3> QED
      BY <3>2, <3>3, <3>4
  <2> QED
    BY <2>1, <2>2
<1>5. ASSUME NEW q \in SeedingPart!Seeders, script'[q].job = "seed", "organization" \in ToDo(q)'
      PROVE  /\ SeedingPart!Tables \subseteq ToDo(q)'
             /\ q \notin db["organization"]
             /\ \A i \in DOMAIN script'[q].left : script'[q].left[i] = "organization" => i = 1
  <2>1. CASE q = p
    <3>1. ~SeedingPart!Seeded /\ script'[q].left = SeedingPart!SeedOrder
      BY <1>1, <1>5, <2>1
    <3>2. ToDo(q)' = SeedingPart!Tables
      BY <3>1 DEF ToDo, SeedingPart!Tables
    <3>3. q \notin db["organization"]
      BY <3>1 DEF SeedingPart!Seeded
    <3> QED
      BY <3>1, <3>2, <3>3, Orders
  <2>2. CASE q # p
    <3>1. script'[q] = script[q] /\ ToDo(q)' = ToDo(q)
      BY <1>1, <2>2 DEF ToDo
    <3>2. script[q].job = "seed" /\ "organization" \in ToDo(q)
      BY <1>5, <3>1
    <3>3. /\ SeedingPart!Tables \subseteq ToDo(q)
          /\ q \notin db["organization"]
          /\ \A i \in DOMAIN script[q].left : script[q].left[i] = "organization" => i = 1
      BY <3>2 DEF SeedInv
    <3> QED
      BY <3>1, <3>3
  <2> QED
    BY <2>1, <2>2
<1>6. ASSUME ~broken', NEW q \in SeedingPart!Seeders, q \in db'["organization"],
             NEW t \in SeedingPart!Tables
      PROVE  q \in db'[t] \/ (script'[q].job = "seed" /\ t \in ToDo(q)') \/ t \in deleted'
  <2>1. CASE q \in db'[t] \/ t \in deleted'
    BY <2>1
  <2>2. CASE q \notin db'[t] /\ t \notin deleted'
    <3>a. ~broken /\ db' = db /\ t \notin deleted
      BY <1>6, <2>2
    <3>1. q \in db["organization"] /\ q \notin db[t]
      BY <1>6, <2>2, <3>a
    <3>2. script[q].job = "seed" /\ t \in ToDo(q)
      BY <3>a, <3>1 DEF SeedInv
    <3>3. q # p
      <4> SUFFICES ASSUME q = p PROVE FALSE
        OBVIOUS
      <4>1. script[p].left = <<>>
        BY <1>6, <3>1, <3>2
      <4>2. ToDo(p) = {}
        BY <4>1 DEF ToDo
      <4> QED
        BY <3>2, <4>2
    <3>4. script'[q] = script[q] /\ ToDo(q)' = ToDo(q)
      BY <1>1, <3>3 DEF ToDo
    <3>5. script'[q].job = "seed" /\ t \in ToDo(q)'
      BY <3>2, <3>4
    <3> QED
      BY <3>5
  <2> QED
    BY <2>1, <2>2
<1>7. \A q \in SeedingPart!Seeders : script'[q].job = "seed" /\ "organization" \in ToDo(q)' =>
            /\ SeedingPart!Tables \subseteq ToDo(q)'
            /\ q \notin db'["organization"]
            /\ \A i \in DOMAIN script'[q].left : script'[q].left[i] = "organization" => i = 1
  BY <1>4, <1>5
<1>8. ~broken' =>
         \A q \in SeedingPart!Seeders : q \in db'["organization"] =>
           \A t \in SeedingPart!Tables :
             q \in db'[t] \/ (script'[q].job = "seed" /\ t \in ToDo(q)') \/ t \in deleted'
  BY <1>6
<1>9. \A q, r \in SeedingPart!Seeders :
         q \in db'["organization"] /\ r \in db'["organization"] => q = r
  BY <1>4 DEF SeedInv
<1>10. \A q \in SeedingPart!Seeders, t \in SeedingPart!Tables :
         q \in db'[t] => q \in db'["organization"]
  BY <1>4
<1> QED
  BY <1>2, <1>3, <1>4, <1>7, <1>8, <1>9, <1>10 DEF SeedInv


LEMMA LeftChanges ==
    ASSUME NEW r, NEW job, NEW then, NEW left, NEW l,
           r = [job |-> job, then |-> then, left |-> left]
    PROVE  [r EXCEPT !.left = l] = [job |-> job, then |-> then, left |-> l]
OBVIOUS

\* A statement of a running script that went well: rows written.
LEMMA SeedStatementKeeps ==
    ASSUME SeedInv, NEW p \in SeedingPart!Seeders, SeedingPart!SeedStatement(p)
    PROVE  SeedInv'
<1> DEFINE s == script[p].left
           t == Head(s)
<1>1. /\ script[p].job = "seed" /\ s # <<>> /\ SeedingPart!Writable(p, t)
      /\ db' = [db EXCEPT ![t] = @ \union {p}]
      /\ script' = [script EXCEPT ![p].left = Tail(s)]
      /\ broken' = (broken /\ t # "organization") /\ boot' = boot
      /\ deleted' = IF t = "organization" THEN {} ELSE deleted
  BY DEF SeedingPart!SeedStatement
<1>2. s \in Seq(Names) /\ t \in Names /\ Tail(s) \in Seq(Names)
  BY <1>1 DEF SeedInv
<1>3. t \in SeedingPart!Tables
  BY <1>2, NamesAreTables
<1>4. /\ script'[p] = [job |-> "seed", then |-> script[p].then, left |-> Tail(s)]
      /\ \A q \in SeedingPart!Seeders \ {p} : script'[q] = script[q]
  <2>1. p \in DOMAIN script
    BY DEF SeedInv
  <2>2. script[p] = [job |-> script[p].job, then |-> script[p].then, left |-> script[p].left]
    BY DEF SeedInv
  <2>3. script'[p] = [script[p] EXCEPT !.left = Tail(s)]
    BY <1>1, <2>1
  <2>4. \A q \in SeedingPart!Seeders \ {p} : script'[q] = script[q]
    BY <1>1 DEF SeedInv
  <2>5. script[p].left = s
    OBVIOUS
  <2> HIDE DEF s, t
  <2>6. script'[p] = [job |-> script[p].job, then |-> script[p].then, left |-> Tail(s)]
    BY <2>2, <2>3, LeftChanges
  <2> QED
    BY <1>1, <2>4, <2>6
<1>5. /\ script' = [q \in SeedingPart!Seeders |->
                       [job |-> script'[q].job, then |-> script'[q].then, left |-> script'[q].left]]
      /\ \A q \in SeedingPart!Seeders : script'[q].left \in Seq(Names)
                                         /\ script'[q].then \in {"none", "look"}
  <2>1. script' = [q \in SeedingPart!Seeders |-> script'[q]]
    BY <1>1 DEF SeedInv
  <2>2. \A q \in SeedingPart!Seeders :
          script'[q] = [job |-> script'[q].job, then |-> script'[q].then, left |-> script'[q].left]
    <3> SUFFICES ASSUME NEW q \in SeedingPart!Seeders
                 PROVE  script'[q] = [job |-> script'[q].job, then |-> script'[q].then,
                                      left |-> script'[q].left]
      OBVIOUS
    <3> HIDE DEF s, t
    <3>1. q = p \/ script'[q] = script[q]
      BY <1>4
    <3>2. script[q] = [job |-> script[q].job, then |-> script[q].then, left |-> script[q].left]
      BY DEF SeedInv
    <3> QED
      BY <1>4, <3>1, <3>2
  <2>3. \A q \in SeedingPart!Seeders : script'[q].left \in Seq(Names)
                                       /\ script'[q].then \in {"none", "look"}
    <3> HIDE DEF s, t
    <3>1. script'[p].left = Tail(s) /\ script'[p].then = script[p].then
      BY <1>4
    <3>2. \A q \in SeedingPart!Seeders \ {p} : script'[q] = script[q]
      BY <1>4
    <3> QED
      BY <1>2, <3>1, <3>2 DEF SeedInv
  <2> HIDE DEF s, t
  <2> QED
    BY <2>1, <2>2, <2>3
<1>6. db' = [u \in SeedingPart!Tables |-> IF u = t THEN db[u] \union {p} ELSE db[u]]
  BY <1>1, <1>3 DEF SeedInv
<1>7. /\ s # <<>> /\ DOMAIN s = 1 .. Len(s) /\ Len(s) \in Nat /\ Len(s) > 0
      /\ DOMAIN Tail(s) = 1 .. Len(s) - 1 /\ t = s[1]
      /\ \A i \in DOMAIN Tail(s) : Tail(s)[i] = s[i + 1] /\ i + 1 \in DOMAIN s
  BY <1>1, <1>2
<1>8. /\ \A u \in ToDo(p) : u = t \/ u \in {Tail(s)[i] : i \in DOMAIN Tail(s)}
      /\ {Tail(s)[i] : i \in DOMAIN Tail(s)} \subseteq ToDo(p) /\ t \in ToDo(p)
  <2>1. ASSUME NEW i \in DOMAIN s, s[i] # t PROVE s[i] \in {Tail(s)[j] : j \in DOMAIN Tail(s)}
    <3>1. i # 1 /\ i - 1 \in DOMAIN Tail(s) /\ (i - 1) + 1 = i
      BY <1>7, <2>1
    <3>2. Tail(s)[i - 1] = s[i]
      BY <1>7, <3>1
    <3> QED
      BY <3>1, <3>2
  <2>2. 1 \in DOMAIN s
    BY <1>7
  <2> QED
    BY <1>7, <2>1, <2>2 DEF ToDo
<1>9. ToDo(p)' = {Tail(s)[i] : i \in DOMAIN Tail(s)}
  BY <1>4 DEF ToDo
<1> HIDE DEF s, t
<1>10. \A q \in SeedingPart!Seeders \ {p} : script'[q] = script[q] /\ ToDo(q)' = ToDo(q)
  BY <1>4 DEF ToDo
<1>11. boot' # "seeding" => script'["entrypoint"].job = "none"
  <2>1. boot # "seeding" => script["entrypoint"].job = "none"
    BY DEF SeedInv
  <2>2. p = "entrypoint" => boot = "seeding"
    BY <1>1, <2>1
  <2> QED
    BY <1>1, <1>10, <2>1, <2>2 DEF SeedingPart!Seeders
<1>12. CASE t = "organization"
  <2>1. \A q \in SeedingPart!Seeders, u \in SeedingPart!Tables : q \notin db[u]
    BY <1>1, <1>12 DEF SeedingPart!Writable, SeedingPart!SlugFree, SeedingPart!Seeded, SeedInv
  <2>2. "organization" \in ToDo(p)
    BY <1>8, <1>12
  <2>3. /\ SeedingPart!Tables \subseteq ToDo(p)
        /\ \A i \in DOMAIN s : s[i] = "organization" => i = 1
    BY <1>1, <2>2 DEF SeedInv, s
  <2>4. "organization" \notin ToDo(p)'
    <3> SUFFICES ASSUME NEW i \in DOMAIN Tail(s), Tail(s)[i] = "organization" PROVE FALSE
      BY <1>9
    <3>1. i + 1 \in DOMAIN s /\ s[i + 1] = "organization" /\ i + 1 # 1
      BY <1>7
    <3> QED
      BY <2>3, <3>1
  <2>5. \A q \in SeedingPart!Seeders, u \in SeedingPart!Tables : q \in db'[u] => q = p /\ u = t
    BY <1>6, <2>1
  <2>6. p \in db'["organization"]
    BY <1>6, <1>12, Orders
  <2>7. ASSUME NEW u \in SeedingPart!Tables, u # t PROVE u \in ToDo(p)'
    BY <1>8, <1>9, <2>3, <2>7
  <2>8. ASSUME NEW q \in SeedingPart!Seeders, script'[q].job = "seed", "organization" \in ToDo(q)'
        PROVE  /\ SeedingPart!Tables \subseteq ToDo(q)'
               /\ q \notin db'["organization"]
               /\ \A i \in DOMAIN script'[q].left : script'[q].left[i] = "organization" => i = 1
    <3>1. q # p
      BY <2>4, <2>8
    <3>2. script'[q] = script[q] /\ ToDo(q)' = ToDo(q)
      BY <1>10, <3>1
    <3>3. script[q].job = "seed" /\ "organization" \in ToDo(q)
      BY <2>8, <3>2
    <3>4. /\ SeedingPart!Tables \subseteq ToDo(q)
          /\ \A i \in DOMAIN script[q].left : script[q].left[i] = "organization" => i = 1
      BY <3>3 DEF SeedInv
    <3>5. q \notin db'["organization"]
      BY <2>5, <3>1, Orders
    <3> QED
      BY <3>2, <3>4, <3>5
  <2>9. ASSUME NEW q \in SeedingPart!Seeders, q \in db'["organization"],
               NEW u \in SeedingPart!Tables
        PROVE  q \in db'[u] \/ (script'[q].job = "seed" /\ u \in ToDo(q)')
    <3>1. q = p /\ script'[q].job = "seed"
      BY <1>4, <2>5, <2>9, Orders
    <3>2. u # t => u \in ToDo(q)'
      BY <2>7, <3>1
    <3>3. u = t => q \in db'[u]
      BY <2>6, <1>12, <3>1
    <3>4. CASE u = t
      BY <3>3, <3>4
    <3>5. CASE u # t
      <4>1. script'[q].job = "seed" /\ u \in ToDo(q)'
        BY <3>1, <3>2, <3>5
      <4> QED
        BY <4>1
    <3> QED
      BY <3>4, <3>5
  <2> QED
    BY <1>5, <1>6, <1>11, <2>5, <2>6, <2>8, <2>9, <1>12, Orders DEF SeedInv
<1>13. CASE t # "organization"
  <2>1. p \in db["organization"]
    BY <1>1, <1>3, <1>13, WritableHas
  <2>2. /\ db'["organization"] = db["organization"]
        /\ \A q \in SeedingPart!Seeders, u \in SeedingPart!Tables :
             /\ q \in db'[u] => q \in db["organization"]
             /\ q \in db[u] => q \in db'[u]
    BY <1>6, <1>13, <2>1, Orders DEF SeedInv
  <2>3. ASSUME NEW q \in SeedingPart!Seeders, script'[q].job = "seed", "organization" \in ToDo(q)'
        PROVE  /\ SeedingPart!Tables \subseteq ToDo(q)'
               /\ q \notin db'["organization"]
               /\ \A i \in DOMAIN script'[q].left : script'[q].left[i] = "organization" => i = 1
    <3>1. q # p
      <4> SUFFICES ASSUME q = p PROVE FALSE
        OBVIOUS
      <4>1. "organization" \in ToDo(p)
        BY <1>8, <1>9, <2>3
      <4> QED
        BY <1>1, <2>1, <4>1 DEF SeedInv
    <3>2. script'[q] = script[q] /\ ToDo(q)' = ToDo(q)
      BY <1>10, <3>1
    <3>3. script[q].job = "seed" /\ "organization" \in ToDo(q)
      BY <2>3, <3>2
    <3>4. /\ SeedingPart!Tables \subseteq ToDo(q)
          /\ q \notin db["organization"]
          /\ \A i \in DOMAIN script[q].left : script[q].left[i] = "organization" => i = 1
      BY <3>3 DEF SeedInv
    <3> QED
      BY <2>2, <3>2, <3>4
  <2>4. ASSUME ~broken', NEW q \in SeedingPart!Seeders, q \in db'["organization"],
               NEW u \in SeedingPart!Tables, u \notin deleted'
        PROVE  q \in db'[u] \/ (script'[q].job = "seed" /\ u \in ToDo(q)')
    <3>1. ~broken /\ u \notin deleted
      BY <1>1, <1>13, <2>4
    <3>2. q \in db["organization"]
      BY <2>2, <2>4
    <3>3. q \in db[u] \/ (script[q].job = "seed" /\ u \in ToDo(q))
      BY <3>1, <3>2 DEF SeedInv
    <3>4. CASE q = p
      <4>1. u = t => q \in db'[u]
        BY <1>6, <3>4
      <4>2. u \in ToDo(p) => u = t \/ u \in ToDo(p)'
        BY <1>8, <1>9
      <4>3. script'[p].job = "seed"
        BY <1>4
      <4>4. q \in db[u] => q \in db'[u]
        BY <2>2
      <4>5. CASE q \in db'[u]
        BY <4>5
      <4>6. CASE q \notin db'[u]
        <5>1. u # t /\ u \in ToDo(p)
          BY <3>3, <3>4, <4>1, <4>4, <4>6
        <5>2. script'[q].job = "seed" /\ u \in ToDo(q)'
          BY <3>4, <4>2, <4>3, <5>1
        <5> QED
          BY <5>2
      <4> QED
        BY <4>5, <4>6
    <3>5. CASE q # p
      BY <1>10, <2>2, <3>3, <3>5
    <3> QED
      BY <3>4, <3>5
  <2>5. \A q, r \in SeedingPart!Seeders :
          q \in db'["organization"] /\ r \in db'["organization"] => q = r
    BY <2>2 DEF SeedInv
  <2> QED
    BY <1>5, <1>6, <1>11, <2>2, <2>3, <2>4, <2>5 DEF SeedInv
<1> QED
  BY <1>12, <1>13


\* A table is emptied by a reset, with what goes with it: the organization
\* goes with all else, or was nobody's.
LEMMA ResetStatementKeeps ==
    ASSUME SeedInv, NEW p \in SeedingPart!Seeders, SeedingPart!ResetStatement(p)
    PROVE  SeedInv'
<1> DEFINE s == script[p].left
           t == Head(s)
<1>1. /\ script[p].job = "reset" /\ s # <<>> /\ broken' /\ boot' = boot
      /\ db' = [u \in SeedingPart!Tables |->
                  IF u \in {t} \union (IF db[t] = {} THEN {} ELSE SeedingPart!Cascade(t))
                  THEN {} ELSE db[u]]
      /\ script' = [script EXCEPT ![p].left = Tail(s)]
  BY DEF SeedingPart!ResetStatement
<1>2. s \in Seq(Names) /\ t \in Names /\ Tail(s) \in Seq(Names)
  BY <1>1 DEF SeedInv
<1>3. t \in SeedingPart!Tables
  BY <1>2, NamesAreTables
<1>4. script'[p] = [job |-> "reset", then |-> script[p].then, left |-> Tail(s)]
  <2>1. p \in DOMAIN script
    BY DEF SeedInv
  <2>2. script[p] = [job |-> script[p].job, then |-> script[p].then, left |-> script[p].left]
    BY DEF SeedInv
  <2>3. script'[p] = [script[p] EXCEPT !.left = Tail(s)]
    BY <1>1, <2>1
  <2> HIDE DEF s, t
  <2>4. script'[p] = [job |-> script[p].job, then |-> script[p].then, left |-> Tail(s)]
    BY <2>2, <2>3, LeftChanges
  <2> QED
    BY <1>1, <2>4
<1>5. /\ script' = [q \in SeedingPart!Seeders |-> script'[q]]
      /\ \A q \in SeedingPart!Seeders \ {p} : script'[q] = script[q]
  BY <1>1 DEF SeedInv
<1> HIDE DEF s, t
<1>6. ASSUME NEW q \in SeedingPart!Seeders
      PROVE  /\ script'[q] = [job |-> script'[q].job, then |-> script'[q].then,
                              left |-> script'[q].left]
             /\ script'[q].left \in Seq(Names) /\ script'[q].then \in {"none", "look"}
  <2>1. script'[p].left = Tail(s) /\ script'[p].then = script[p].then
    BY <1>4
  <2>2. q = p \/ script'[q] = script[q]
    BY <1>5
  <2>3. script[q] = [job |-> script[q].job, then |-> script[q].then, left |-> script[q].left]
    BY DEF SeedInv
  <2>4. script'[q].left \in Seq(Names) /\ script'[q].then \in {"none", "look"}
    BY <1>2, <2>1, <2>2 DEF SeedInv
  <2> QED
    BY <1>4, <2>2, <2>3, <2>4
<1>7. script' = [q \in SeedingPart!Seeders |->
                   [job |-> script'[q].job, then |-> script'[q].then, left |-> script'[q].left]]
  BY <1>5, <1>6
<1>8. boot' # "seeding" => script'["entrypoint"].job = "none"
  <2>1. boot # "seeding" => script["entrypoint"].job = "none"
    BY DEF SeedInv
  <2>2. p = "entrypoint" => boot = "seeding"
    BY <1>1, <2>1
  <2> QED
    BY <1>1, <1>5, <2>1, <2>2 DEF SeedingPart!Seeders
<1>9. /\ db' = [u \in SeedingPart!Tables |-> db'[u]]
      /\ \A q \in SeedingPart!Seeders, u \in SeedingPart!Tables : q \in db'[u] => q \in db[u]
  BY <1>1
<1>10. ASSUME NEW q \in SeedingPart!Seeders, NEW u \in SeedingPart!Tables, q \in db'[u]
       PROVE  q \in db'["organization"]
  <2>1. q \in db[u] /\ q \in db["organization"]
    BY <1>9, <1>10 DEF SeedInv
  <2>2. CASE t = "organization"
    <3>1. SeedingPart!Cascade(t) = SeedingPart!Tables /\ db[t] # {}
      BY <2>1, <2>2 DEF SeedingPart!Cascade
    <3> QED
      BY <1>1, <1>10, <3>1
  <2>3. CASE t # "organization"
    <3>1. "organization" \notin SeedingPart!Cascade(t)
      BY <2>3 DEF SeedingPart!Cascade
    <3> QED
      BY <1>1, <2>1, <2>3, <3>1, Orders
  <2> QED
    BY <2>2, <2>3
<1>11. ASSUME NEW q \in SeedingPart!Seeders, script'[q].job = "seed", "organization" \in ToDo(q)'
       PROVE  /\ SeedingPart!Tables \subseteq ToDo(q)'
              /\ q \notin db'["organization"]
              /\ \A i \in DOMAIN script'[q].left : script'[q].left[i] = "organization" => i = 1
  <2>1. q # p
    BY <1>4, <1>11
  <2>2. script'[q] = script[q] /\ ToDo(q)' = ToDo(q)
    BY <1>5, <2>1 DEF ToDo
  <2>3. script[q].job = "seed" /\ "organization" \in ToDo(q)
    BY <1>11, <2>2
  <2>4. /\ SeedingPart!Tables \subseteq ToDo(q)
        /\ q \notin db["organization"]
        /\ \A i \in DOMAIN script[q].left : script[q].left[i] = "organization" => i = 1
    BY <2>3 DEF SeedInv
  <2>5. q \notin db'["organization"]
    BY <1>9, <2>4, Orders
  <2> QED
    BY <2>2, <2>4, <2>5
<1>12. \A q, r \in SeedingPart!Seeders :
         q \in db'["organization"] /\ r \in db'["organization"] => q = r
  BY <1>9, Orders DEF SeedInv
<1> QED
  BY <1>1, <1>6, <1>7, <1>8, <1>9, <1>10, <1>11, <1>12 DEF SeedInv

\* Users' rows are nobody's demo data.
LEMMA WorkKeeps ==
    ASSUME SeedInv, NEW t \in SeedingPart!Tables, SeedingPart!Work(t)
    PROVE  SeedInv'
<1>1. UNCHANGED <<boot, script, broken, deleted>>
  BY DEF SeedingPart!Work
<1>2. "users" \notin SeedingPart!Seeders
  BY DEF SeedingPart!Seeders
<1>3. /\ db' = [u \in SeedingPart!Tables |-> db'[u]]
      /\ \A u \in SeedingPart!Tables : db'[u] = db[u] \/ db'[u] = db[u] \union {"users"}
  BY Orders DEF SeedInv, SeedingPart!Work
<1>4. \A u \in SeedingPart!Tables, q \in SeedingPart!Seeders : q \in db'[u] <=> q \in db[u]
  BY <1>2, <1>3
<1>5. \A q \in SeedingPart!Seeders : ToDo(q)' = ToDo(q)
  BY <1>1 DEF ToDo
<1> QED
  BY <1>1, <1>3, <1>4, <1>5, Orders DEF SeedInv

\* What is deleted is noted, unless it is the users' own; no organization is.
LEMMA DeleteKeeps ==
    ASSUME SeedInv, NEW t \in SeedingPart!Tables,
           NEW w \in SeedingPart!Seeders \union {"users"}, SeedingPart!Delete(t, w)
    PROVE  SeedInv'
<1> DEFINE with == {u \in {t} \union SeedingPart!Cascade(t) : w \in db[u]}
<1>1. /\ UNCHANGED <<boot, script, broken>>
      /\ t \in SeedingPart!Deletable \union SeedingPart!Dropped
  BY DEF SeedingPart!Delete
<1>2. PICK gone \in {with, with \ {t}} :
        /\ db' = [u \in SeedingPart!Tables |-> IF u \in gone THEN db[u] \ {w} ELSE db[u]]
        /\ deleted' = IF w \in SeedingPart!Seeders THEN deleted \union gone ELSE deleted
  BY DEF SeedingPart!Delete
<1>3. "organization" \notin gone
  <2>1. t # "organization"
    BY <1>1 DEF SeedingPart!Deletable, SeedingPart!Dropped
  <2>2. "organization" \notin SeedingPart!Cascade(t)
    BY <2>1 DEF SeedingPart!Cascade
  <2> QED BY <2>1, <2>2
<1> HIDE DEF with
<1>4. \A u \in SeedingPart!Tables, q \in SeedingPart!Seeders :
        /\ q \in db'[u] => q \in db[u]
        /\ q \in db[u] => q \in db'[u] \/ u \in deleted'
  <2> SUFFICES ASSUME NEW u \in SeedingPart!Tables, NEW q \in SeedingPart!Seeders
               PROVE  /\ q \in db'[u] => q \in db[u]
                      /\ q \in db[u] => q \in db'[u] \/ u \in deleted'
    OBVIOUS
  <2>1. db'[u] = IF u \in gone THEN db[u] \ {w} ELSE db[u]
    BY <1>2
  <2>2. u \in gone /\ q = w => u \in deleted'
    BY <1>2
  <2> QED BY <2>1, <2>2
<1>5. db'["organization"] = db["organization"]
  BY <1>2, <1>3, Orders
<1>6. db' = [u \in SeedingPart!Tables |-> db'[u]] /\ deleted \subseteq deleted'
  BY <1>2
<1>7. \A q \in SeedingPart!Seeders : ToDo(q)' = ToDo(q)
  BY <1>1 DEF ToDo
<1>8. \A q \in SeedingPart!Seeders, u \in SeedingPart!Tables :
        q \in db'[u] => q \in db'["organization"]
  BY <1>4, <1>5 DEF SeedInv
<1>9. ASSUME ~broken', NEW q \in SeedingPart!Seeders, q \in db'["organization"],
             NEW u \in SeedingPart!Tables
      PROVE  q \in db'[u] \/ (script'[q].job = "seed" /\ u \in ToDo(q)') \/ u \in deleted'
  <2>1. q \in db[u] \/ (script[q].job = "seed" /\ u \in ToDo(q)) \/ u \in deleted
    BY <1>1, <1>5, <1>9 DEF SeedInv
  <2> QED BY <1>1, <1>4, <1>6, <1>7, <2>1
<1>10. ASSUME NEW q \in SeedingPart!Seeders, script'[q].job = "seed", "organization" \in ToDo(q)'
       PROVE  /\ SeedingPart!Tables \subseteq ToDo(q)'
              /\ q \notin db'["organization"]
              /\ \A i \in DOMAIN script'[q].left : script'[q].left[i] = "organization" => i = 1
  <2>1. script' = script /\ ToDo(q)' = ToDo(q)
    BY <1>1, <1>7
  <2>2. script[q].job = "seed" /\ "organization" \in ToDo(q)
    BY <1>10, <2>1
  <2>3. /\ SeedingPart!Tables \subseteq ToDo(q)
        /\ q \notin db["organization"]
        /\ \A i \in DOMAIN script[q].left : script[q].left[i] = "organization" => i = 1
    BY <2>2 DEF SeedInv
  <2> QED BY <1>5, <2>1, <2>3
<1>11. \A q, r \in SeedingPart!Seeders :
         q \in db'["organization"] /\ r \in db'["organization"] => q = r
  BY <1>5 DEF SeedInv
<1>12. /\ script' = script /\ boot' = boot
       /\ script = [q \in SeedingPart!Seeders |->
                       [job |-> script[q].job, then |-> script[q].then, left |-> script[q].left]]
       /\ \A q \in SeedingPart!Seeders : script[q].left \in Seq(Names)
                                          /\ script[q].then \in {"none", "look"}
       /\ boot # "seeding" => script["entrypoint"].job = "none"
  BY <1>1 DEF SeedInv
<1> QED BY <1>6, <1>8, <1>9, <1>10, <1>11, <1>12 DEF SeedInv

\* A restart ends what runs; nobody's demo data that lacked something is whole.
LEMMA RestartKeeps ==
    ASSUME SeedInv, SeedingPart!Restart
    PROVE  SeedInv'
<1>1. /\ script' = [p \in SeedingPart!Seeders |-> [job |-> "none", left |-> <<>>, then |-> "none"]]
      /\ db' = db /\ deleted' = deleted
      /\ broken' = (broken \/ \E p \in SeedingPart!Seeders : SeedingPart!Halfway(p))
  BY DEF SeedingPart!Restart, SeedingPart!NoScript
<1>2. \A p \in SeedingPart!Seeders : script'[p] = [job |-> "none", left |-> <<>>, then |-> "none"]
  BY <1>1
<1>3. script' = [p \in SeedingPart!Seeders |->
                   [job |-> script'[p].job, then |-> script'[p].then, left |-> script'[p].left]]
  BY <1>1, <1>2
<1>4. \A p \in SeedingPart!Seeders :
        /\ script'[p].job = "none" /\ script'[p].then = "none" /\ script'[p].left = <<>>
  BY <1>2
<1>5. \A p \in SeedingPart!Seeders : script'[p].left \in Seq(Names)
  <2>1. <<>> \in Seq(Names)
    OBVIOUS
  <2> QED
    BY <1>4, <2>1
<1>6. ASSUME ~broken', NEW p \in SeedingPart!Seeders, p \in db["organization"],
             NEW t \in SeedingPart!Tables, t \notin deleted
      PROVE  p \in db[t]
  <2> SUFFICES ASSUME p \notin db[t] PROVE FALSE
    OBVIOUS
  <2>1. script[p].job = "seed" /\ t \in ToDo(p)
    BY <1>1, <1>6 DEF SeedInv
  <2>2. script[p].left # <<>>
    BY <2>1 DEF ToDo
  <2>3. SeedingPart!Halfway(p)
    BY <1>6, <2>1, <2>2 DEF SeedingPart!Halfway
  <2> QED
    BY <1>1, <1>6, <2>3
<1>7. "entrypoint" \in SeedingPart!Seeders
  BY DEF SeedingPart!Seeders
<1>8. \A p \in SeedingPart!Seeders : script'[p].job # "seed"
  BY <1>4
<1>9. ~broken' =>
        \A p \in SeedingPart!Seeders : p \in db'["organization"] =>
          \A t \in SeedingPart!Tables : p \in db'[t] \/ t \in deleted'
  BY <1>1, <1>6
<1> QED
  BY <1>1, <1>3, <1>4, <1>5, <1>7, <1>8, <1>9 DEF SeedInv

\* What ends a script, or begins one.
LEMMA Ends ==
    ASSUME SeedInv, NEW p \in SeedingPart!Seeders, SeedingPart!End(p),
           UNCHANGED <<db, broken, deleted>>,
           script[p].job = "seed" => script[p].left = <<>> \/ p \notin db["organization"],
           boot' # "seeding" => boot # "seeding" /\ p # "entrypoint"
    PROVE  SeedInv'
<1> SUFFICES ASSUME NEW j, j = "none" PROVE SeedInv'
  OBVIOUS
<1>1. <<>> \in Seq(Names)
  OBVIOUS
<1>2. /\ script' = [script EXCEPT ![p] = [job |-> j, then |-> "none", left |-> <<>>]]
      /\ "none" \in {"none", "look"} /\ j # "seed"
  BY DEF SeedingPart!End, SeedingPart!NoScript
<1> QED
  BY <1>1, <1>2, ScriptTurns

LEMMA Turns ==
    ASSUME SeedInv, NEW p \in SeedingPart!Seeders, NEW then \in {"none", "look"}, NEW job,
           SeedingPart!Start(p, job, then),
           UNCHANGED <<db, broken, deleted>>,
           script[p].job = "seed" => script[p].left = <<>> \/ p \notin db["organization"],
           job = "seed" => ~SeedingPart!Seeded,
           boot' # "seeding" => boot # "seeding" /\ p # "entrypoint"
    PROVE  SeedInv'
<1> DEFINE left == IF job = "reset" THEN SeedingPart!ResetOrder ELSE SeedingPart!SeedOrder
<1>1. script' = [script EXCEPT ![p] = [job |-> job, then |-> then, left |-> left]]
  BY DEF SeedingPart!Start
<1>2. left \in Seq(Names) /\ (job = "seed" => left = SeedingPart!SeedOrder)
  BY Orders
<1> HIDE DEF left
<1> QED
  BY <1>1, <1>2, ScriptTurns

\* A statement fails, of a group that is then there in part, or not at all.
LEMMA FailsKeeps ==
    ASSUME SeedInv, NEW p \in SeedingPart!Seeders, SeedingPart!ScriptFails(p)
    PROVE  SeedInv'
<1> DEFINE s == script[p].left
           t == Head(s)
<1>1. /\ script[p].job # "none" /\ boot' = boot /\ deleted' = deleted
      /\ broken' = (broken \/ SeedingPart!Halfway(p))
      /\ \/ db' = db
         \/ /\ script[p].job = "seed" /\ s # <<>> /\ t # "organization"
            /\ SeedingPart!Writable(p, t)
            /\ db' = [db EXCEPT ![t] = @ \union {p}]
  BY DEF SeedingPart!ScriptFails
<1>2. boot' # "seeding" => boot # "seeding" /\ p # "entrypoint"
  BY <1>1 DEF SeedInv
<1>3. PICK job \in {"none", "look"}, left \in Seq(Names) :
        script' = [script EXCEPT ![p] = [job |-> job, then |-> "none", left |-> left]]
  <2>1. <<>> \in Seq(Names)
    OBVIOUS
  <2>2. CASE script[p].then = "none"
    <3>1. script' = [script EXCEPT ![p] = [job |-> "none", then |-> "none", left |-> <<>>]]
      BY <2>2 DEF SeedingPart!ScriptFails, SeedingPart!End, SeedingPart!NoScript
    <3> QED
      BY <2>1, <3>1
  <2>3. CASE script[p].then = "look"
    <3>1. script' = [script EXCEPT ![p] = [job |-> "look", then |-> "none",
                                           left |-> SeedingPart!SeedOrder]]
      BY <2>3 DEF SeedingPart!ScriptFails, SeedingPart!Start
    <3> QED
      BY <3>1, Orders
  <2> QED
    BY <2>2, <2>3 DEF SeedInv
<1>4. (broken => broken') /\ (SeedingPart!Halfway(p) => broken')
  BY <1>1
<1>5. broken' \/ (script[p].job = "seed" => s = <<>> \/ p \notin db["organization"])
  BY <1>4 DEF SeedingPart!Halfway
<1>6. \/ db' = db
      \/ /\ broken' /\ job # "seed" /\ p \in db["organization"]
         /\ \E u \in SeedingPart!Tables \ {"organization"} : db' = [db EXCEPT ![u] = @ \union {p}]
  <2> SUFFICES ASSUME db' # db
               PROVE  /\ broken' /\ job # "seed" /\ p \in db["organization"]
                      /\ \E u \in SeedingPart!Tables \ {"organization"} :
                           db' = [db EXCEPT ![u] = @ \union {p}]
    OBVIOUS
  <2>1. /\ script[p].job = "seed" /\ s # <<>> /\ t # "organization"
        /\ SeedingPart!Writable(p, t)
        /\ db' = [db EXCEPT ![t] = @ \union {p}]
    BY <1>1
  <2>2. t \in SeedingPart!Tables
    BY <2>1, NamesAreTables DEF SeedInv
  <2>3. p \in db["organization"]
    BY <2>1, <2>2, WritableHas
  <2>4. broken'
    BY <1>4, <2>1, <2>3 DEF SeedingPart!Halfway
  <2>5. job # "seed"
    BY <1>3
  <2> QED
    BY <2>1, <2>2, <2>3, <2>4, <2>5
<1> QED
  BY <1>1, <1>2, <1>3, <1>4, <1>5, <1>6, ScriptTurns

LEMMA SeedKept ==
    ASSUME SeedInv, UNCHANGED <<db, script, broken, deleted>>,
           boot' # "seeding" => script["entrypoint"].job = "none"
    PROVE  SeedInv'
<1>1. \A q \in SeedingPart!Seeders : ToDo(q)' = ToDo(q)
  BY DEF ToDo
<1>2. ASSUME ~broken', NEW q \in SeedingPart!Seeders, q \in db'["organization"],
             NEW t \in SeedingPart!Tables
      PROVE  q \in db'[t] \/ (script'[q].job = "seed" /\ t \in ToDo(q)') \/ t \in deleted'
  BY <1>1, <1>2 DEF SeedInv
<1>3. \A q \in SeedingPart!Seeders : script'[q].job = "seed" /\ "organization" \in ToDo(q)' =>
        /\ SeedingPart!Tables \subseteq ToDo(q)'
        /\ q \notin db'["organization"]
        /\ \A i \in DOMAIN script'[q].left : script'[q].left[i] = "organization" => i = 1
  <2> SUFFICES ASSUME NEW q \in SeedingPart!Seeders,
                      script'[q].job = "seed", "organization" \in ToDo(q)'
               PROVE  /\ SeedingPart!Tables \subseteq ToDo(q)'
                      /\ q \notin db'["organization"]
                      /\ \A i \in DOMAIN script'[q].left :
                           script'[q].left[i] = "organization" => i = 1
    OBVIOUS
  <2>1. ToDo(q)' = ToDo(q) /\ script[q].job = "seed" /\ "organization" \in ToDo(q)
    BY <1>1
  <2>2. /\ SeedingPart!Tables \subseteq ToDo(q)
        /\ q \notin db["organization"]
        /\ \A i \in DOMAIN script[q].left : script[q].left[i] = "organization" => i = 1
    BY <2>1 DEF SeedInv
  <2> QED
    BY <2>1, <2>2
<1>4. /\ db' = [t \in SeedingPart!Tables |-> db'[t]]
      /\ script' = [p \in SeedingPart!Seeders |->
                      [job |-> script'[p].job, then |-> script'[p].then, left |-> script'[p].left]]
  BY DEF SeedInv
<1> QED
  BY <1>2, <1>3, <1>4 DEF SeedInv

LEMMA SeedStep ==
    ASSUME SeedInv, [SeedingPart!Next]_(SeedingPart!vars)
    PROVE  SeedInv'
<1>1. CASE UNCHANGED SeedingPart!vars
  <2>1. UNCHANGED <<db, boot, script, broken, deleted>>
    BY <1>1 DEF SeedingPart!vars
  <2> QED
    BY <2>1, SeedKept DEF SeedInv
<1>2. CASE SeedingPart!Ready \/ SeedingPart!Migrate \/ SeedingPart!RunApp
  <2>1. UNCHANGED <<db, script, broken, deleted>>
    BY <1>2 DEF SeedingPart!Ready, SeedingPart!Migrate, SeedingPart!RunApp
  <2>2. script["entrypoint"].job = "none"
    BY <1>2 DEF SeedingPart!Ready, SeedingPart!Migrate, SeedingPart!RunApp, SeedInv
  <2> QED
    BY <2>1, <2>2, SeedKept
<1>3. ASSUME NEW answered \in BOOLEAN, SeedingPart!Counts(answered)
      PROVE  SeedInv'
  <2>1. UNCHANGED <<db, broken, deleted>> /\ boot # "seeding" /\ script["entrypoint"].job = "none"
    BY <1>3 DEF SeedingPart!Counts, SeedInv
  <2>2. CASE UNCHANGED script
    BY <2>1, <2>2, SeedKept
  <2>3. CASE boot' = "seeding" /\ SeedingPart!Start("entrypoint", "look", "none")
    <3>1. "entrypoint" \in SeedingPart!Seeders
      BY DEF SeedingPart!Seeders
    <3> QED
      BY <2>1, <2>3, <3>1, Turns
  <2> QED
    BY <1>3, <2>2, <2>3 DEF SeedingPart!Counts
<1>4. ASSUME SeedingPart!Restart PROVE SeedInv'
  BY <1>4, RestartKeeps
<1>5. ASSUME NEW p \in SeedingPart!Seeders, SeedingPart!Look(p)
      PROVE  SeedInv'
  <2>1. script[p].job = "look" /\ UNCHANGED <<db, boot, broken, deleted>>
    BY <1>5 DEF SeedingPart!Look
  <2>2. boot' # "seeding" => boot # "seeding" /\ p # "entrypoint"
    BY <2>1 DEF SeedInv
  <2>3. CASE SeedingPart!Seeded
    <3>1. SeedingPart!End(p)
      BY <1>5, <2>3 DEF SeedingPart!Look
    <3> QED
      BY <2>1, <2>2, <3>1, Ends
  <2>4. CASE ~SeedingPart!Seeded
    <3>1. SeedingPart!Start(p, "seed", "none")
      BY <1>5, <2>4 DEF SeedingPart!Look
    <3> QED
      BY <2>1, <2>2, <2>4, <3>1, Turns
  <2> QED
    BY <2>3, <2>4
<1>6. ASSUME NEW p \in SeedingPart!Seeders,
             SeedingPart!SeedStatement(p) \/ SeedingPart!ResetStatement(p)
      PROVE  SeedInv'
  BY <1>6, SeedStatementKeeps, ResetStatementKeeps
<1>7. ASSUME NEW p \in SeedingPart!Seeders, SeedingPart!Finish(p)
      PROVE  SeedInv'
  <2>1. /\ script[p].job \in {"seed", "reset"} /\ script[p].left = <<>>
        /\ UNCHANGED <<db, boot, broken, deleted>> /\ script[p].then \in {"none", "look"}
    BY <1>7 DEF SeedingPart!Finish, SeedInv
  <2>2. boot' # "seeding" => boot # "seeding" /\ p # "entrypoint"
    BY <2>1 DEF SeedInv
  <2>3. CASE script[p].then = "none"
    <3>1. SeedingPart!End(p)
      BY <1>7, <2>3 DEF SeedingPart!Finish
    <3> QED
      BY <2>1, <2>2, <3>1, Ends
  <2>4. CASE script[p].then = "look"
    <3>1. SeedingPart!Start(p, "look", "none")
      BY <1>7, <2>4 DEF SeedingPart!Finish
    <3> QED
      BY <2>1, <2>2, <3>1, Turns
  <2> QED
    BY <2>1, <2>3, <2>4
<1>8. ASSUME NEW p \in SeedingPart!Seeders, SeedingPart!ScriptFails(p)
      PROVE  SeedInv'
  BY <1>8, FailsKeeps
<1>9. ASSUME NEW job \in {"look", "reset"}, NEW then \in {"none", "look"},
             SeedingPart!Operate(job, then)
      PROVE  SeedInv'
  <2>1. /\ "operator" \in SeedingPart!Seeders /\ "operator" # "entrypoint"
        /\ script["operator"].job = "none" /\ UNCHANGED <<db, boot, broken, deleted>>
        /\ SeedingPart!Start("operator", job, then)
    BY <1>9 DEF SeedingPart!Operate, SeedingPart!Seeders, SeedingPart!NoScript
  <2> QED
    BY <2>1, Turns
<1>10. ASSUME NEW t \in SeedingPart!Tables, SeedingPart!Work(t) PROVE SeedInv'
  BY <1>10, WorkKeeps
<1>11. ASSUME NEW t \in SeedingPart!Tables, NEW w \in SeedingPart!Seeders \union {"users"},
              SeedingPart!Delete(t, w)
       PROVE  SeedInv'
  BY <1>11, DeleteKeeps
<1> QED
  BY <1>1, <1>2, <1>3, <1>4, <1>5, <1>6, <1>7, <1>8, <1>9, <1>10, <1>11
     DEF SeedingPart!Next, SeedingPart!Boot

\* Where no script runs, nothing is left to write.
LEMMA SeedAnswer == SeedInv => SeedWhole
<1> SUFFICES ASSUME SeedInv, SeedingPart!Quiet, SeedingPart!Seeded, ~broken
             PROVE  \E p \in SeedingPart!Seeders : \A t \in SeedingPart!Tables :
                      \/ db[t] \intersect SeedingPart!Seeders = {p}
                      \/ t \in deleted /\ db[t] \intersect SeedingPart!Seeders = {}
  BY DEF SeedWhole, SeedingPart!SeedWhole
<1>1. PICK p \in SeedingPart!Seeders : p \in db["organization"]
  BY DEF SeedingPart!Seeded
<1>2. \A t \in SeedingPart!Tables : p \in db[t] \/ t \in deleted
  BY <1>1 DEF SeedInv, SeedingPart!Quiet
<1>3. \A q \in SeedingPart!Seeders, t \in SeedingPart!Tables : q \in db[t] => q = p
  BY <1>1 DEF SeedInv
<1> QED
  BY <1>2, <1>3

(***************************************************************************)
(* The demo data is whole, and from one run of the seed: however often the *)
(* container is stopped and started, and whatever seeds and resets an      *)
(* operator runs beside the entrypoint's own, and whichever statements     *)
(* fail (docker-entrypoint.sh, prisma/seed.ts, prisma/seed-reset.ts); but  *)
(* for what was deleted from it by users, or for its age.                  *)
(***************************************************************************)
THEOREM DemoWhole == SeedingPart!Spec => []SeedWhole
<1>1. SeedingPart!Init => SeedInv
  BY SeedInit
<1>2. SeedInv /\ [SeedingPart!Next]_(SeedingPart!vars) => SeedInv'
  BY SeedStep
<1>3. SeedInv => SeedWhole
  BY SeedAnswer
<1> QED
  BY <1>1, <1>2, <1>3, PTL DEF SeedingPart!Spec

-----------------------------------------------------------------------------
(***************************************************************************)
(* The reports.                                                            *)
(***************************************************************************)
Kind == DOMAIN ReportsPart!Reports

\* The rows of a class now, and what a count is, or would be if taken now.
Cur(tab, S) == Cardinality({i \in Rows : tab[i] \in S})

Val(f) == IF f \in DOMAIN counted THEN counted[f] ELSE Cur(table, ReportsPart!Reports[report][f])

In(x, S) == IF x \in S THEN 1 ELSE 0

Moves(x, y, S, from, to) == y = x \/ y = x + In(to, S) - In(from, S)

Working == {c \in ReportsPart!Incident : c[1] \in {"open", "acknowledged", "in_progress"}}

OpenIncidents == Val("open") + Val("acknowledged") + Val("inProgress")

\* What a report has counted, with the rest as of now, is coherent already.  An
\* incident may turn critical and leave its status at once: all that are not
\* resolved, critical or not, are bounded too.
ReportInv ==
    /\ DOMAIN table = Rows
    /\ changes \in Nat
    /\ \A f \in DOMAIN counted : counted[f] \in Nat
    /\ report = "none" => DOMAIN counted = {} /\ changes = 0
    /\ report # "none" => report \in Kind
    /\ report = "stats" => Val("down") + Val("degraded") <= Val("total") + changes
    /\ report = "page" => Val("page") <= Val("total") + changes
    /\ report = "day" => Val("up") <= Val("total") + changes
    /\ report = "incidents" => /\ Cur(table, Working) <= OpenIncidents + changes
                               /\ Val("critical") <= OpenIncidents + changes
    /\ report = "monitors" =>
         Val("monitorsUp") + Val("monitorsDown") <= Val("activeMonitors") + changes
    /\ report = "assets" => Val("onlineAssets") <= Val("totalAssets") + changes

LEMMA PairMoves ==
    ASSUME NEW P, NEW Q, NEW W, P \intersect Q = {}, P \subseteq W, Q \subseteq W,
           NEW from, NEW to, NEW n \in Nat,
           NEW a \in Int, NEW b \in Int, NEW w \in Int,
           NEW a1, NEW b1, NEW w1,
           Moves(a, a1, P, from, to), Moves(b, b1, Q, from, to), Moves(w, w1, W, from, to),
           a + b <= w + n
    PROVE  a1 + b1 <= w1 + n + 1
BY DEF Moves, In

\* The classes of the reports: parts of a whole, that share no row.
LEMMA Classes ==
    /\ \A r \in {"stats", "page", "day", "incidents", "monitors", "assets"} :
         r \in Kind
    /\ LET R == ReportsPart!Reports["stats"] IN
       /\ DOMAIN R = {"total", "down", "degraded"}
       /\ R["down"] \intersect R["degraded"] = {}
       /\ R["down"] \subseteq R["total"] /\ R["degraded"] \subseteq R["total"]
    /\ LET R == ReportsPart!Reports["page"] IN
       DOMAIN R = {"page", "total"} /\ R["page"] \subseteq R["total"]
    /\ LET R == ReportsPart!Reports["day"] IN
       DOMAIN R = {"up", "total"} /\ R["up"] \subseteq R["total"]
    /\ LET R == ReportsPart!Reports["assets"] IN
       DOMAIN R = {"onlineAssets", "totalAssets"} /\ R["onlineAssets"] \subseteq R["totalAssets"]
    /\ LET R == ReportsPart!Reports["monitors"] IN
       /\ DOMAIN R = {"activeMonitors", "monitorsUp", "monitorsDown"}
       /\ R["monitorsUp"] \intersect R["monitorsDown"] = {}
       /\ R["monitorsUp"] \subseteq R["activeMonitors"]
       /\ R["monitorsDown"] \subseteq R["activeMonitors"]
    /\ LET R == ReportsPart!Reports["incidents"] IN
       /\ DOMAIN R = {"open", "acknowledged", "inProgress", "critical"}
       /\ Working = R["open"] \union R["acknowledged"] \union R["inProgress"]
       /\ R["open"] \intersect R["acknowledged"] = {}
       /\ R["open"] \intersect R["inProgress"] = {}
       /\ R["acknowledged"] \intersect R["inProgress"] = {}
       /\ R["critical"] \subseteq Working
<1> DEFINE E == ReportsPart!EventStats
           D == ReportsPart!UptimeDay
           I == ReportsPart!IncidentStats
           M == ReportsPart!OrgMonitors
           A == ReportsPart!OrgAssets
           P == ReportsPart!EventPage(ReportsPart!Result)
<1>1. /\ ReportsPart!Reports["stats"] = E /\ ReportsPart!Reports["page"] = P
      /\ ReportsPart!Reports["day"] = D /\ ReportsPart!Reports["incidents"] = I
      /\ ReportsPart!Reports["monitors"] = M /\ ReportsPart!Reports["assets"] = A
      /\ Kind = {"stats", "page", "day", "incidents", "monitors", "assets"}
  BY DEF ReportsPart!Reports, Kind
<1>2. /\ DOMAIN E = {"total", "down", "degraded"}
      /\ E["down"] = {<<"down">>} /\ E["degraded"] = {<<"degraded">>}
      /\ E["total"] = {<<"up">>, <<"down">>, <<"degraded">>, <<"unknown">>}
      /\ <<"down">> # <<"degraded">>
  BY DEF ReportsPart!EventStats, ReportsPart!Result
<1>3. /\ DOMAIN P = {"page", "total"} /\ P["page"] = P["total"]
      /\ DOMAIN D = {"up", "total"} /\ D["up"] = {<<"up">>}
      /\ D["total"] = {<<"up">>, <<"down">>, <<"degraded">>, <<"unknown">>}
  BY DEF ReportsPart!EventPage, ReportsPart!UptimeDay, ReportsPart!Result
<1>4. /\ DOMAIN A = {"onlineAssets", "totalAssets"}
      /\ A["onlineAssets"] \subseteq A["totalAssets"]
  BY DEF ReportsPart!OrgAssets, ReportsPart!Asset
<1>5. /\ DOMAIN M = {"activeMonitors", "monitorsUp", "monitorsDown"}
      /\ M["monitorsUp"] \intersect M["monitorsDown"] = {}
      /\ M["monitorsUp"] \subseteq M["activeMonitors"]
      /\ M["monitorsDown"] \subseteq M["activeMonitors"]
  BY DEF ReportsPart!OrgMonitors, ReportsPart!Monitor
<1>6. /\ DOMAIN I = {"open", "acknowledged", "inProgress", "critical"}
      /\ I["open"] = {c \in ReportsPart!Incident : c[1] = "open"}
      /\ I["acknowledged"] = {c \in ReportsPart!Incident : c[1] = "acknowledged"}
      /\ I["inProgress"] = {c \in ReportsPart!Incident : c[1] = "in_progress"}
      /\ I["critical"] = {c \in ReportsPart!Incident : c[2] = "critical"
                                                /\ c[1] \notin {"resolved", "closed"}}
  BY DEF ReportsPart!IncidentStats
<1>7. \A c \in ReportsPart!Incident :
        c[1] \in {"open", "acknowledged", "in_progress", "resolved", "closed"}
  BY DEF ReportsPart!Incident
<1> HIDE DEF E, D, I, M, A, P
<1>8. I["critical"] \subseteq Working
  BY <1>6, <1>7 DEF Working
<1>9. Working = I["open"] \union I["acknowledged"] \union I["inProgress"]
  BY <1>6 DEF Working
<1>10. /\ I["open"] \intersect I["acknowledged"] = {}
       /\ I["open"] \intersect I["inProgress"] = {}
       /\ I["acknowledged"] \intersect I["inProgress"] = {}
  BY <1>6
<1> QED
  BY <1>1, <1>2, <1>3, <1>4, <1>5, <1>6, <1>8, <1>9, <1>10

LEMMA CurNat == \A tab, S : Cur(tab, S) \in Nat
<1> TAKE tab, S
<1>1. IsFiniteSet({i \in Rows : tab[i] \in S})
  BY ReportsAssumption, FS_Subset
<1> QED
  BY <1>1, FS_CardinalityType DEF Cur

LEMMA CurGrows ==
    ASSUME NEW tab, NEW S, NEW T, S \subseteq T
    PROVE  Cur(tab, S) <= Cur(tab, T)
<1>1. /\ {i \in Rows : tab[i] \in S} \in SUBSET {i \in Rows : tab[i] \in T}
      /\ IsFiniteSet({i \in Rows : tab[i] \in T})
  BY ReportsAssumption, FS_Subset
<1> QED
  BY <1>1, FS_Subset DEF Cur

LEMMA CurUnion ==
    ASSUME NEW tab, NEW S, NEW T, S \intersect T = {}
    PROVE  Cur(tab, S \union T) = Cur(tab, S) + Cur(tab, T)
<1> DEFINE X == {i \in Rows : tab[i] \in S}
           Y == {i \in Rows : tab[i] \in T}
<1>1. IsFiniteSet(X) /\ IsFiniteSet(Y)
  BY ReportsAssumption, FS_Subset
<1>2. X \intersect Y = {} /\ {i \in Rows : tab[i] \in S \union T} = X \union Y
  OBVIOUS
<1> HIDE DEF X, Y
<1>3. Cardinality(X \union Y) = Cardinality(X) + Cardinality(Y) - Cardinality(X \intersect Y)
  BY <1>1, FS_Union
<1>4. Cardinality(X) \in Nat /\ Cardinality(Y) \in Nat /\ Cardinality(X \intersect Y) = 0
  BY <1>1, <1>2, FS_CardinalityType, FS_EmptySet
<1>5. Cardinality(X \union Y) = Cardinality(X) + Cardinality(Y)
  BY <1>3, <1>4
<1> QED
  BY <1>2, <1>5 DEF Cur, X, Y

\* A row that changes its class leaves one and enters one.
LEMMA CurMoves ==
    ASSUME NEW tab, NEW i \in Rows, NEW to, NEW tab1,
           tab1[i] = to, \A j \in Rows \ {i} : tab1[j] = tab[j], NEW S
    PROVE  Cur(tab1, S) = Cur(tab, S) + In(to, S) - In(tab[i], S)
<1> DEFINE X == {j \in Rows : tab[j] \in S}
           Y == {j \in Rows : tab1[j] \in S}
           Z == X \ {i}
<1>1. IsFiniteSet(X) /\ IsFiniteSet(Z)
  BY ReportsAssumption, FS_Subset
<1>2. Y = IF to \in S THEN Z \union {i} ELSE Z
  OBVIOUS
<1>3. (i \in X <=> tab[i] \in S) /\ i \notin Z
  OBVIOUS
<1>4. Cur(tab, S) = Cardinality(X) /\ Cur(tab1, S) = Cardinality(Y)
  BY DEF Cur
<1> HIDE DEF X, Y
<1>5. Cardinality(Z) = IF i \in X THEN Cardinality(X) - 1 ELSE Cardinality(X)
  BY <1>1, FS_RemoveElement
<1> HIDE DEF Z
<1>6. Cardinality(Z \union {i}) = Cardinality(Z) + 1
  BY <1>1, <1>3, FS_AddElement
<1>7. Cardinality(X) \in Nat
  BY <1>1, FS_CardinalityType
<1>8. CASE to \in S /\ tab[i] \in S
  BY <1>2, <1>3, <1>4, <1>5, <1>6, <1>7, <1>8 DEF In
<1>9. CASE to \in S /\ tab[i] \notin S
  BY <1>2, <1>3, <1>4, <1>5, <1>6, <1>7, <1>9 DEF In
<1>10. CASE to \notin S /\ tab[i] \in S
  BY <1>2, <1>3, <1>4, <1>5, <1>6, <1>7, <1>10 DEF In
<1>11. CASE to \notin S /\ tab[i] \notin S
  BY <1>2, <1>3, <1>4, <1>5, <1>6, <1>7, <1>11 DEF In
<1> QED
  BY <1>8, <1>9, <1>10, <1>11

LEMMA ValNat == ReportInv => \A f : Val(f) \in Nat
BY CurNat DEF ReportInv, Val

\* Before anything is counted each part is within its whole.
LEMMA AskedKeeps ==
    ASSUME ReportInv, report = "none", report' \in Kind, report' # "none",
           DOMAIN table' = Rows, UNCHANGED <<counted, changes>>
    PROVE  ReportInv'
<1> DEFINE C(f) == Cur(table', ReportsPart!Reports[report'][f])
<1>1. DOMAIN counted' = {} /\ changes' = 0
  BY DEF ReportInv
<1>2. /\ Val("down")' = C("down") /\ Val("degraded")' = C("degraded")
      /\ Val("total")' = C("total") /\ Val("page")' = C("page") /\ Val("up")' = C("up")
      /\ Val("open")' = C("open") /\ Val("acknowledged")' = C("acknowledged")
      /\ Val("inProgress")' = C("inProgress") /\ Val("critical")' = C("critical")
      /\ Val("monitorsUp")' = C("monitorsUp") /\ Val("monitorsDown")' = C("monitorsDown")
      /\ Val("activeMonitors")' = C("activeMonitors")
      /\ Val("onlineAssets")' = C("onlineAssets") /\ Val("totalAssets")' = C("totalAssets")
  BY <1>1 DEF Val
<1>3. /\ \A S, T : S \subseteq T => Cur(table', S) <= Cur(table', T)
      /\ \A S, T : S \intersect T = {} => Cur(table', S \union T) = Cur(table', S) + Cur(table', T)
      /\ \A S : Cur(table', S) \in Nat
  BY CurGrows, CurUnion, CurNat
<1>4. ASSUME NEW P, NEW Q, NEW W, P \intersect Q = {}, P \subseteq W, Q \subseteq W
      PROVE  Cur(table', P) + Cur(table', Q) <= Cur(table', W)
  <2>1. P \union Q \subseteq W
    BY <1>4
  <2>2. Cur(table', P \union Q) <= Cur(table', W)
    BY <1>3, <2>1
  <2> QED
    BY <1>3, <1>4, <2>2
<1>5. report' = "stats" => C("down") + C("degraded") <= C("total")
  BY <1>4, Classes
<1>6. report' = "page" => C("page") <= C("total")
  BY <1>3, Classes
<1>7. report' = "day" => C("up") <= C("total")
  BY <1>3, Classes
<1>8. report' = "monitors" => C("monitorsUp") + C("monitorsDown") <= C("activeMonitors")
  BY <1>4, Classes
<1>9. report' = "assets" => C("onlineAssets") <= C("totalAssets")
  BY <1>3, Classes
<1>10. report' = "incidents" => /\ Cur(table', Working) <= OpenIncidents'
                                /\ C("critical") <= OpenIncidents'
  <2> SUFFICES ASSUME report' = "incidents"
               PROVE  /\ Cur(table', Working) <= OpenIncidents'
                      /\ C("critical") <= OpenIncidents'
    OBVIOUS
  <2> DEFINE R == ReportsPart!Reports["incidents"]
  <2>1. /\ Working = (R["open"] \union R["acknowledged"]) \union R["inProgress"]
        /\ R["open"] \intersect R["acknowledged"] = {}
        /\ (R["open"] \union R["acknowledged"]) \intersect R["inProgress"] = {}
        /\ R["critical"] \subseteq Working
    BY Classes
  <2> HIDE DEF R
  <2>2. Cur(table', Working) = Cur(table', R["open"]) + Cur(table', R["acknowledged"])
                                 + Cur(table', R["inProgress"])
    <3>1. Cur(table', R["open"] \union R["acknowledged"])
            = Cur(table', R["open"]) + Cur(table', R["acknowledged"])
      BY <1>3, <2>1
    <3>2. Cur(table', (R["open"] \union R["acknowledged"]) \union R["inProgress"])
            = Cur(table', R["open"] \union R["acknowledged"]) + Cur(table', R["inProgress"])
      BY <1>3, <2>1
    <3> QED
      BY <2>1, <3>1, <3>2
  <2>3. Cur(table', R["critical"]) <= Cur(table', Working)
    BY <1>3, <2>1
  <2>4. OpenIncidents' = Cur(table', R["open"]) + Cur(table', R["acknowledged"])
                           + Cur(table', R["inProgress"])
    BY <1>2 DEF OpenIncidents, R
  <2> QED
    BY <1>3, <2>2, <2>3, <2>4 DEF R
<1> HIDE DEF C
<1>11. \A f : C(f) \in Nat
  BY <1>3 DEF C
<1>12. OpenIncidents' \in Nat
  BY <1>2, <1>11 DEF OpenIncidents
<1> QED
  BY <1>1, <1>2, <1>3, <1>5, <1>6, <1>7, <1>8, <1>9, <1>10, <1>11, <1>12 DEF ReportInv

LEMMA SameCardinality == \A S : ReportsPart!Cardinality(S) = Cardinality(S)
BY DEF ReportsPart!Cardinality, Cardinality

\* A count changes nothing: what it would be it is.
LEMMA CountKeeps ==
    ASSUME ReportInv, NEW f, ReportsPart!Count(f)
    PROVE  ReportInv'
<1>1. /\ UNCHANGED <<report, table, changes>> /\ report # "none"
      /\ f \notin DOMAIN counted
      /\ counted' = [g \in DOMAIN counted \union {f} |->
                       IF g = f THEN Cur(table, ReportsPart!Reports[report][f]) ELSE counted[g]]
  <2> DEFINE n == Cardinality({i \in Rows : table[i] \in ReportsPart!Reports[report][f]})
  <2>1. Cur(table, ReportsPart!Reports[report][f]) = n
    BY DEF Cur
  <2>2. /\ UNCHANGED <<report, table, changes>> /\ report # "none"
        /\ f \notin DOMAIN counted
        /\ counted' = [g \in DOMAIN counted \union {f} |->
                       IF g = f THEN n ELSE counted[g]]
    BY SameCardinality DEF ReportsPart!Count
  <2> HIDE DEF n
  <2> QED
    BY <2>1, <2>2
<1>2. \A g : Val(g)' = Val(g)
  BY <1>1 DEF Val
<1>3. \A g \in DOMAIN counted' : counted'[g] \in Nat
  BY <1>1, CurNat DEF ReportInv
<1>4. OpenIncidents' = OpenIncidents
  BY <1>2 DEF OpenIncidents
<1> QED
  BY <1>1, <1>2, <1>3, <1>4 DEF ReportInv

\* A change moves a row from a class to another, of the counts yet to come.
LEMMA ChangeKeeps ==
    ASSUME ReportInv, NEW i \in Rows, ReportsPart!Change(i)
    PROVE  ReportInv'
<1>1. PICK to : /\ table' = [table EXCEPT ![i] = to] /\ changes' = changes + 1
                /\ UNCHANGED <<report, counted>> /\ report # "none"
  BY DEF ReportsPart!Change
<1> DEFINE from == table[i]
           K(f) == ReportsPart!Reports[report][f]
<1>2. /\ DOMAIN table = Rows /\ DOMAIN table' = Rows /\ changes \in Nat /\ report \in Kind
      /\ table'[i] = to /\ \A j \in Rows \ {i} : table'[j] = table[j]
  BY <1>1 DEF ReportInv
<1>3. \A S : Cur(table', S) = Cur(table, S) + In(to, S) - In(from, S)
  <2>1. PICK tab1 : tab1 = table'
    OBVIOUS
  <2>2. tab1[i] = to /\ \A j \in Rows \ {i} : tab1[j] = table[j]
    BY <1>2, <2>1
  <2> TAKE S
  <2>3. Cur(tab1, S) = Cur(table, S) + In(to, S) - In(table[i], S)
    BY <2>2, CurMoves
  <2> QED
    BY <2>1, <2>3
<1>4. \A f : Moves(Val(f), Val(f)', K(f), from, to)
  BY <1>1, <1>3 DEF Val, Moves
<1>5. (\A f : Val(f) \in Int) /\ (\A S : Cur(table, S) \in Int)
  BY ValNat, CurNat
<1>6. \A f \in DOMAIN counted' : counted'[f] \in Nat
  BY <1>1 DEF ReportInv
<1> HIDE DEF from
<1>7. ASSUME NEW p, NEW q, NEW w, K(p) \intersect K(q) = {}, K(p) \subseteq K(w),
             K(q) \subseteq K(w), Val(p) + Val(q) <= Val(w) + changes
      PROVE  Val(p)' + Val(q)' <= Val(w)' + changes'
  <2>1. /\ Moves(Val(p), Val(p)', K(p), from, to) /\ Moves(Val(q), Val(q)', K(q), from, to)
        /\ Moves(Val(w), Val(w)', K(w), from, to)
        /\ Val(p) \in Int /\ Val(q) \in Int /\ Val(w) \in Int
    BY <1>4, <1>5
  <2> HIDE DEF K
  <2>2. Val(p)' + Val(q)' <= Val(w)' + changes + 1
    BY <1>2, <1>7, <2>1, PairMoves
  <2>3. Val(w)' \in Int
    BY <2>1 DEF Moves, In
  <2> QED
    BY <1>1, <1>2, <2>2, <2>3
<1>8. ASSUME NEW p, NEW w, K(p) \subseteq K(w), Val(p) <= Val(w) + changes
      PROVE  Val(p)' <= Val(w)' + changes'
  <2>1. /\ Moves(Val(p), Val(p)', K(p), from, to) /\ Moves(Val(w), Val(w)', K(w), from, to)
        /\ Val(p) \in Int /\ Val(w) \in Int
    BY <1>4, <1>5
  <2> HIDE DEF K
  <2> QED
    BY <1>1, <1>2, <1>8, <2>1 DEF Moves, In
<1>9. report = "stats" => Val("down")' + Val("degraded")' <= Val("total")' + changes'
  BY <1>7, Classes DEF ReportInv
<1>10. report = "page" => Val("page")' <= Val("total")' + changes'
  BY <1>8, Classes DEF ReportInv
<1>11. report = "day" => Val("up")' <= Val("total")' + changes'
  BY <1>8, Classes DEF ReportInv
<1>12. report = "monitors" =>
         Val("monitorsUp")' + Val("monitorsDown")' <= Val("activeMonitors")' + changes'
  BY <1>7, Classes DEF ReportInv
<1>13. report = "assets" => Val("onlineAssets")' <= Val("totalAssets")' + changes'
  BY <1>8, Classes DEF ReportInv
<1>14. report = "incidents" => /\ Cur(table', Working) <= OpenIncidents' + changes'
                               /\ Val("critical")' <= OpenIncidents' + changes'
  <2> SUFFICES ASSUME report = "incidents"
               PROVE  /\ Cur(table', Working) <= OpenIncidents' + changes'
                      /\ Val("critical")' <= OpenIncidents' + changes'
    OBVIOUS
  <2>1. /\ Working = K("open") \union K("acknowledged") \union K("inProgress")
        /\ K("open") \intersect K("acknowledged") = {}
        /\ K("open") \intersect K("inProgress") = {}
        /\ K("acknowledged") \intersect K("inProgress") = {}
        /\ K("critical") \subseteq Working
    BY Classes
  <2> HIDE DEF K
  <2>2. /\ Cur(table, Working) <= Val("open") + Val("acknowledged") + Val("inProgress") + changes
        /\ Val("critical") <= Val("open") + Val("acknowledged") + Val("inProgress") + changes
    BY DEF ReportInv, OpenIncidents
  <2>3. Val("critical")' = Val("critical") \/ Val("critical")' <= Cur(table', Working)
    <3>1. Cur(table', K("critical")) <= Cur(table', Working)
      BY <2>1, CurGrows
    <3> QED
      BY <1>1, <3>1 DEF Val, K
  <2>4. Val("critical")' \in Int /\ Cur(table', Working) \in Int
    BY <1>1, <1>6, CurNat DEF Val
  <2> DEFINE a == Val("open")     a1 == Val("open")'
             b == Val("acknowledged")     b1 == Val("acknowledged")'
             c == Val("inProgress")     c1 == Val("inProgress")'
             u == Cur(table, Working)     u1 == Cur(table', Working)
             k == Val("critical")     k1 == Val("critical")'
             A == K("open")     B == K("acknowledged")     C == K("inProgress")
  <2>5. /\ Moves(a, a1, A, from, to) /\ Moves(b, b1, B, from, to) /\ Moves(c, c1, C, from, to)
        /\ u1 = u + In(to, Working) - In(from, Working)
        /\ a \in Int /\ b \in Int /\ c \in Int /\ u \in Int /\ k \in Int
    BY <1>3, <1>4, <1>5
  <2> HIDE DEF a, a1, b, b1, c, c1, u, u1, k, k1, A, B, C
  <2>6. u1 <= a1 + b1 + c1 + (changes + 1) /\ k1 <= a1 + b1 + c1 + (changes + 1)
    <3>1. Working = A \union B \union C /\ A \intersect B = {} /\ A \intersect C = {}
          /\ B \intersect C = {}
      BY <2>1 DEF A, B, C
    <3>2. (k1 = k \/ k1 <= u1) /\ k1 \in Int
          /\ u <= a + b + c + changes /\ k <= a + b + c + changes
      BY <2>2, <2>3, <2>4 DEF a, b, c, u, k, u1, k1
    <3> QED
      BY <1>2, <2>5, <3>1, <3>2 DEF Moves, In
  <2> QED
    BY <1>1, <2>6 DEF OpenIncidents, a1, b1, c1, u1, k1
<1> QED
  BY <1>1, <1>2, <1>6, <1>9, <1>10, <1>11, <1>12, <1>13, <1>14 DEF ReportInv

LEMMA ReportStep ==
    ASSUME ReportInv, [ReportsPart!Next]_(ReportsPart!vars)
    PROVE  ReportInv'
<1>1. "none" \notin Kind
  BY DEF Kind, ReportsPart!Reports
<1>2. CASE UNCHANGED ReportsPart!vars
  <2>1. UNCHANGED <<report, table, counted, changes>>
    BY <1>2 DEF ReportsPart!vars
  <2>2. (\A f : Val(f)' = Val(f)) /\ OpenIncidents' = OpenIncidents
    BY <2>1 DEF Val, OpenIncidents
  <2> QED
    BY <2>1, <2>2 DEF ReportInv
<1>3. ASSUME NEW kind \in Kind,
             NEW rows \in [Rows -> ReportsPart!Table[kind] \union {ReportsPart!Absent}],
             ReportsPart!Ask(kind, rows)
      PROVE  ReportInv'
  BY <1>1, <1>3, AskedKeeps DEF ReportsPart!Ask
<1>4. ASSUME NEW f, ReportsPart!Count(f) PROVE ReportInv'
  BY <1>4, CountKeeps
<1>5. ASSUME NEW i \in Rows, ReportsPart!Change(i) PROVE ReportInv'
  BY <1>5, ChangeKeeps
<1>6. CASE ReportsPart!Reply
  BY <1>1, <1>6 DEF ReportsPart!Reply, ReportInv
<1> QED
  BY <1>2, <1>3, <1>4, <1>5, <1>6 DEF ReportsPart!Next, Kind

\* Counts that have been made agree.
LEMMA CountsTell == ReportInv => Coherent
<1> SUFFICES ASSUME ReportInv, ReportsPart!Answered PROVE ReportsPart!Coherent
  BY DEF Coherent, ReportsPart!Coherent
<1>1. DOMAIN counted = DOMAIN ReportsPart!Reports[report]
  BY DEF ReportsPart!Answered, ReportsPart!Fields
<1>2. \A f \in DOMAIN counted : Val(f) = counted[f]
  BY DEF Val
<1> QED
  BY <1>1, <1>2, Classes DEF ReportInv, OpenIncidents, ReportsPart!Coherent, ReportsPart!Within

(***************************************************************************)
(* A report agrees with itself: what is down, up, critical or online is    *)
(* not more than the whole it is a part of, but for the changes that users *)
(* and the checker made between its counts (EventsService.stats and        *)
(* findAll, get90DayUptime, IncidentsService.getStats and                  *)
(* OrganizationsService.getStats), in tables of any size.                  *)
(***************************************************************************)
THEOREM ReportsAddUp == ReportsPart!Spec => []Coherent
<1>1. ReportsPart!Init => ReportInv
  BY DEF ReportsPart!Init, ReportInv
<1>2. ReportInv /\ [ReportsPart!Next]_(ReportsPart!vars) => ReportInv'
  BY ReportStep
<1>3. ReportInv => Coherent
  BY CountsTell
<1> QED
  BY <1>1, <1>2, <1>3, PTL DEF ReportsPart!Spec

\* What a run of last octets adds to a base stays within the address space.
LEMMA OctetFits ==
    ASSUME NEW O \in Nat, O > 0, NEW Q \in Nat, NEW P \in Nat, P = O * Q,
           NEW base \in 0 .. P - 1, NEW k \in 0 .. O - 1
    PROVE  (base \div O) * O + k \in 0 .. P - 1
<1> DEFINE d == base \div O
<1>1. d \in Nat /\ d * O <= base /\ d * O \in Nat
  BY SMTT(30)
<1> HIDE DEF d
<1>2. d + 1 <= Q
  <2> SUFFICES ASSUME d >= Q PROVE FALSE
    BY <1>1
  <2>1. d * O >= Q * O
    BY <1>1, SMTT(30)
  <2> QED BY <1>1, <2>1, SMTT(30)
<1>3. (d + 1) * O <= Q * O
  BY <1>1, <1>2, SMTT(30)
<1>4. (d + 1) * O = d * O + O
  BY <1>1, SMTT(30)
<1>5. PICK x \in Nat : x = d * O
  BY <1>1
<1>6. x + O <= P
  BY <1>3, <1>4, <1>5, SMTT(30)
<1>7. x + k \in 0 .. P - 1
  BY <1>6
<1> QED BY <1>5, <1>7 DEF d

\* A finite set has a list in the order of any strict total order of it.
OrderOf(R, S) ==
    /\ \A x, y \in S : x # y => <<x, y>> \in R \/ <<y, x>> \in R
    /\ \A x \in S : <<x, x>> \notin R
    /\ \A x, y, z \in S : <<x, y>> \in R /\ <<y, z>> \in R => <<x, z>> \in R

LEMMA SortedList ==
    ASSUME NEW S, IsFiniteSet(S), NEW R, OrderOf(R, S)
    PROVE  \E s \in [1 .. Cardinality(S) -> S] :
               \A i, j \in DOMAIN s : i < j => <<s[i], s[j]>> \in R
<1> USE DEF OrderOf
<1> DEFINE n == Cardinality(S)
           below(x) == {y \in S : <<y, x>> \in R}
           rank == [x \in S |-> Cardinality(below(x)) + 1]
<1>1. n \in Nat
  BY FS_CardinalityType
<1>2. \A x \in S : IsFiniteSet(below(x)) /\ Cardinality(below(x)) \in Nat
  <2> SUFFICES ASSUME NEW x \in S PROVE IsFiniteSet(below(x)) /\ Cardinality(below(x)) \in Nat
    OBVIOUS
  <2>1. below(x) \in SUBSET S
    OBVIOUS
  <2> HIDE DEF below
  <2> QED BY <2>1, FS_Subset, FS_CardinalityType
<1>3. \A x \in S : rank[x] \in 1 .. n
  <2> SUFFICES ASSUME NEW x \in S PROVE rank[x] \in 1 .. n
    OBVIOUS
  <2>1. IsFiniteSet(S \ {x}) /\ Cardinality(S \ {x}) = n - 1
    BY FS_RemoveElement
  <2>2. below(x) \in SUBSET (S \ {x})
    OBVIOUS
  <2>3. Cardinality(below(x)) <= n - 1
    <3> HIDE DEF below, n
    <3> QED BY <2>1, <2>2, FS_Subset
  <2> HIDE DEF n, below
  <2> QED BY <1>1, <1>2, <2>3
<1>4. ASSUME NEW x \in S, NEW y \in S, <<x, y>> \in R PROVE rank[x] < rank[y]
  <2>1. IsFiniteSet(below(x) \union {x}) /\ Cardinality(below(x) \union {x}) = Cardinality(below(x)) + 1
    <3>1. x \notin below(x)
      OBVIOUS
    <3> HIDE DEF below
    <3> QED BY <1>2, <3>1, FS_AddElement
  <2>2. below(x) \union {x} \in SUBSET below(y)
    BY <1>4
  <2>3. Cardinality(below(x) \union {x}) <= Cardinality(below(y))
    <3> HIDE DEF below
    <3> QED BY <1>2, <2>2, FS_Subset
  <2> HIDE DEF below
  <2> QED BY <1>2, <2>1, <2>3
<1>5. rank \in [S -> 1 .. n]
  BY <1>3
<1> HIDE DEF rank, below
<1>6. rank \in Injection(S, 1 .. n)
  <2> SUFFICES ASSUME NEW x \in S, NEW y \in S, rank[x] = rank[y] PROVE x = y
    BY <1>5 DEF Injection, IsInjective
  <2>1. rank[x] \in 1 .. n /\ rank[y] \in 1 .. n
    BY <1>3
  <2>2. ~(rank[x] < rank[y]) /\ ~(rank[y] < rank[x])
    BY <1>1, <2>1
  <2>3. <<x, y>> \notin R /\ <<y, x>> \notin R
    BY <1>4, <2>2
  <2> QED BY <2>3
<1>7. rank \in Surjection(S, 1 .. n)
  <2>1. IsFiniteSet(1 .. n) /\ Cardinality(1 .. n) = n
    BY <1>1, FS_Interval
  <2> QED BY <1>6, <2>1, FS_Injection
<1>8. \A i \in 1 .. n : \E x \in S : rank[x] = i
  BY <1>7 DEF Surjection
<1> DEFINE s == [i \in 1 .. n |-> CHOOSE x \in S : rank[x] = i]
<1>9. s \in [1 .. n -> S] /\ \A i \in 1 .. n : s[i] \in S /\ rank[s[i]] = i
  BY <1>8
<1> HIDE DEF s
<1>10. \A i, j \in DOMAIN s : i < j => <<s[i], s[j]>> \in R
  <2> SUFFICES ASSUME NEW i \in 1 .. n, NEW j \in 1 .. n, i < j PROVE <<s[i], s[j]>> \in R
    BY <1>9
  <2>1. s[i] # s[j] /\ rank[s[i]] = i /\ rank[s[j]] = j /\ s[i] \in S /\ s[j] \in S
    BY <1>9
  <2>2. ~(<<s[j], s[i]>> \in R)
    BY <1>1, <1>4, <2>1
  <2> QED BY <2>1, <2>2
<1> QED BY <1>9, <1>10 DEF n

LEMMA RangesFit ==
    ASSUME NEW r \in ScansPart!Ranges, NEW i \in DOMAIN ScansPart!ParseRange(r)
    PROVE  ScansPart!ParseRange(r)[i] \in ScansPart!Address
<1> DEFINE M == 2 ^ Bits
           O == 2 ^ OctetBits
           Q == 2 ^ (Bits - OctetBits)
<1>1. M \in Nat /\ M > 0 /\ O \in Nat /\ O > 0 /\ Q \in Nat /\ M = O * Q
  <2>1. Bits \in 0 .. Bits /\ OctetBits \in 0 .. Bits /\ Bits - OctetBits \in 0 .. Bits
    BY ScansAssumption
  <2> QED BY <2>1, ScansAssumption
<1>2. \A n \in Int : ScansPart!Format(n) \in 0 .. M - 1
  BY <1>1, ModuloRange DEF ScansPart!Format, ScansPart!Wrap
<1>3. Bases \subseteq 0 .. M - 1
  BY ScansAssumption
<1>4. ScansPart!Address = 0 .. M - 1 /\ ScansPart!Octet = 0 .. O - 1
  BY DEF ScansPart!Address, ScansPart!Octet
<1>5. \A base \in Bases : ScansPart!ToSigned(base) \in Int
  <2>1. Bits - 1 \in 0 .. Bits
    BY ScansAssumption
  <2>2. 2 ^ (Bits - 1) \in Int /\ 2 ^ Bits \in Int
    BY <1>1, <2>1, ScansAssumption
  <2> QED BY <1>3, <2>2 DEF ScansPart!ToSigned
<1>6. \/ r[1] = "cidr" /\ r[2] \in Bases /\ r[3] \in 0 .. Bits
      \/ r[1] = "run" /\ r[2] \in Bases /\ r[3] \in ScansPart!Octet /\ r[4] \in ScansPart!Octet
      \/ r[1] = "single" /\ r[2] \in Bases
  BY DEF ScansPart!Ranges
<1>7. CASE r[1] = "cidr" /\ r[2] \in Bases /\ r[3] \in 0 .. Bits
  <2>1. ScansPart!ParseRange(r) = ScansPart!Cidr(r[2], r[3])
    BY <1>7 DEF ScansPart!ParseRange
  <2>2. i \in Int /\ ScansPart!ParseRange(r)[i] = ScansPart!Format(ScansPart!ToSigned(r[2]) + i)
    <3>1. Bits - r[3] \in 0 .. Bits
      BY <1>7, ScansAssumption
    <3>2. 2 ^ (Bits - r[3]) - 2 \in Int
      BY <3>1, ScansAssumption
    <3> QED BY <2>1, <3>2 DEF ScansPart!Cidr, ScansPart!Hosts
  <2>3. ScansPart!ToSigned(r[2]) + i \in Int
    BY <1>5, <1>7, <2>2
  <2> HIDE DEF M
  <2> QED BY <1>2, <1>4, <2>2, <2>3
<1>8. CASE r[1] = "run" /\ r[2] \in Bases /\ r[3] \in ScansPart!Octet /\ r[4] \in ScansPart!Octet
  <2>1. ScansPart!ParseRange(r) = ScansPart!LastOctets(r[2], r[3], r[4])
    BY <1>8 DEF ScansPart!ParseRange
  <2>2. PICK first \in 0 .. O - 1, last \in 0 .. O - 1 : first = r[3] /\ last = r[4]
    BY <1>4, <1>8
  <2>3. i \in 1 .. last - first + 1 /\ ScansPart!ParseRange(r)[i] = (r[2] \div O) * O + first + i - 1
    BY <2>1, <2>2 DEF ScansPart!LastOctets
  <2> HIDE DEF M, O, Q
  <2>4. first + i - 1 \in 0 .. O - 1
    BY <1>1, <2>2, <2>3
  <2>5. PICK base \in 0 .. M - 1 : base = r[2]
    BY <1>3, <1>8
  <2>6. (base \div O) * O + (first + i - 1) \in 0 .. M - 1
    BY <1>1, <2>4, OctetFits
  <2>7. (base \div O) * O \in Int
    <3>1. \A x, y \in Int : y > 0 => (x \div y) * y \in Int
      BY SMTT(30)
    <3> QED BY <1>1, <3>1
  <2>8. \A x \in Int : x + (first + i - 1) = x + first + i - 1
    BY <1>1, <2>2, <2>3
  <2> QED BY <1>4, <2>3, <2>5, <2>6, <2>7, <2>8
<1>9. CASE r[1] = "single" /\ r[2] \in Bases
  <2>1. ScansPart!ParseRange(r) = <<r[2]>>
    BY <1>9 DEF ScansPart!ParseRange
  <2>2. i = 1 /\ ScansPart!ParseRange(r)[i] = r[2]
    BY <2>1
  <2> QED BY <1>3, <1>4, <1>9, <2>2
<1> QED BY <1>6, <1>7, <1>8, <1>9

ScanTyped ==
    /\ scan = [range |-> scan.range, ips |-> scan.ips, next |-> scan.next,
               step |-> scan.step, alive |-> scan.alive, found |-> scan.found]
    /\ scan.next \in Nat \ {0} /\ scan.step \in Concurrency \union {1}
    /\ \A i \in DOMAIN scan.ips : scan.ips[i] \in ScansPart!Address
    /\ scan.alive \subseteq ScansPart!Address /\ scan.found \subseteq scan.alive

LEMMA ScanTypes ==
    ASSUME ScanTyped,
           \/ scan' = scan \/ scan' = ScansPart!NoScan \/ ScansPart!ScanBatch
           \/ \E range \in ScansPart!Ranges, step \in Concurrency :
                 \E alive \in ScansPart!Alive(range) : ScansPart!Ask(range, step, alive)
    PROVE  ScanTyped'
<1>1. CASE scan' = scan
  BY <1>1 DEF ScanTyped
<1>2. CASE scan' = ScansPart!NoScan
  BY <1>2 DEF ScansPart!NoScan, ScanTyped
<1>3. CASE ScansPart!ScanBatch
  <2> DEFINE more == ScansPart!Answering(ScansPart!Batch)
  <2>1. scan' = [range |-> scan.range, ips |-> scan.ips, next |-> scan.next + scan.step,
                 step |-> scan.step, alive |-> scan.alive, found |-> scan.found \union more]
    <3>1. scan' = [scan EXCEPT !.found = scan.found \union more, !.next = scan.next + scan.step]
      BY <1>3 DEF ScansPart!ScanBatch, ScansPart!Advance
    <3> HIDE DEF more
    <3> QED BY <3>1 DEF ScanTyped
  <2>2. more \subseteq scan.alive
    BY DEF ScansPart!Answering
  <2>3. scan.next + scan.step \in Nat \ {0}
    BY ScansAssumption DEF ScanTyped
  <2> HIDE DEF more
  <2> QED BY <2>1, <2>2, <2>3 DEF ScanTyped
<1>4. ASSUME NEW range \in ScansPart!Ranges, NEW step \in Concurrency,
             NEW alive \in ScansPart!Alive(range), ScansPart!Ask(range, step, alive)
      PROVE  ScanTyped'
  <2> DEFINE ips == ScansPart!ParseRange(range)
  <2>1. scan' = [range |-> range, ips |-> ips, next |-> 1, step |-> step,
                 alive |-> alive, found |-> {}]
    BY <1>4 DEF ScansPart!Ask, ScansPart!NoScan
  <2>2. \A i \in DOMAIN ips : ips[i] \in ScansPart!Address
    BY RangesFit
  <2>3. alive \subseteq {ips[i] : i \in DOMAIN ips}
    BY DEF ScansPart!Alive, ScansPart!kSubset, ScansPart!ToSet
  <2> HIDE DEF ips
  <2> QED BY <2>1, <2>2, <2>3 DEF ScanTyped
<1> QED BY <1>1, <1>2, <1>3, <1>4

LEMMA ImportRangesFit ==
    ASSUME NEW r \in ImportsPart!Ranges, NEW i \in DOMAIN ImportsPart!ParseRange(r)
    PROVE  ImportsPart!ParseRange(r)[i] \in ImportsPart!Address
<1> DEFINE M == 2 ^ ImportBits
           O == 2 ^ ImportOctetBits
           Q == 2 ^ (ImportBits - ImportOctetBits)
<1>1. M \in Nat /\ M > 0 /\ O \in Nat /\ O > 0 /\ Q \in Nat /\ M = O * Q
  <2>1. ImportBits \in 0 .. ImportBits /\ ImportOctetBits \in 0 .. ImportBits /\ ImportBits - ImportOctetBits \in 0 .. ImportBits
    BY ImportsAssumption
  <2> QED BY <2>1, ImportsAssumption
<1>2. \A n \in Int : ImportsPart!Format(n) \in 0 .. M - 1
  BY <1>1, ModuloRange DEF ImportsPart!Format, ImportsPart!Wrap
<1>3. ImportBases \subseteq 0 .. M - 1
  BY ImportsAssumption
<1>4. ImportsPart!Address = 0 .. M - 1 /\ ImportsPart!Octet = 0 .. O - 1
  BY DEF ImportsPart!Address, ImportsPart!Octet
<1>5. \A base \in ImportBases : ImportsPart!ToSigned(base) \in Int
  <2>1. ImportBits - 1 \in 0 .. ImportBits
    BY ImportsAssumption
  <2>2. 2 ^ (ImportBits - 1) \in Int /\ 2 ^ ImportBits \in Int
    BY <1>1, <2>1, ImportsAssumption
  <2> QED BY <1>3, <2>2 DEF ImportsPart!ToSigned
<1>6. \/ r[1] = "cidr" /\ r[2] \in ImportBases /\ r[3] \in 0 .. ImportBits
      \/ r[1] = "run" /\ r[2] \in ImportBases /\ r[3] \in ImportsPart!Octet /\ r[4] \in ImportsPart!Octet
      \/ r[1] = "single" /\ r[2] \in ImportBases
  BY DEF ImportsPart!Ranges
<1>7. CASE r[1] = "cidr" /\ r[2] \in ImportBases /\ r[3] \in 0 .. ImportBits
  <2>1. ImportsPart!ParseRange(r) = ImportsPart!Cidr(r[2], r[3])
    BY <1>7 DEF ImportsPart!ParseRange
  <2>2. i \in Int /\ ImportsPart!ParseRange(r)[i] = ImportsPart!Format(ImportsPart!ToSigned(r[2]) + i)
    <3>1. ImportBits - r[3] \in 0 .. ImportBits
      BY <1>7, ImportsAssumption
    <3>2. 2 ^ (ImportBits - r[3]) - 2 \in Int
      BY <3>1, ImportsAssumption
    <3> QED BY <2>1, <3>2 DEF ImportsPart!Cidr, ImportsPart!Hosts
  <2>3. ImportsPart!ToSigned(r[2]) + i \in Int
    BY <1>5, <1>7, <2>2
  <2> HIDE DEF M
  <2> QED BY <1>2, <1>4, <2>2, <2>3
<1>8. CASE r[1] = "run" /\ r[2] \in ImportBases /\ r[3] \in ImportsPart!Octet /\ r[4] \in ImportsPart!Octet
  <2>1. ImportsPart!ParseRange(r) = ImportsPart!LastOctets(r[2], r[3], r[4])
    BY <1>8 DEF ImportsPart!ParseRange
  <2>2. PICK first \in 0 .. O - 1, last \in 0 .. O - 1 : first = r[3] /\ last = r[4]
    BY <1>4, <1>8
  <2>3. i \in 1 .. last - first + 1 /\ ImportsPart!ParseRange(r)[i] = (r[2] \div O) * O + first + i - 1
    BY <2>1, <2>2 DEF ImportsPart!LastOctets
  <2> HIDE DEF M, O, Q
  <2>4. first + i - 1 \in 0 .. O - 1
    BY <1>1, <2>2, <2>3
  <2>5. PICK base \in 0 .. M - 1 : base = r[2]
    BY <1>3, <1>8
  <2>6. (base \div O) * O + (first + i - 1) \in 0 .. M - 1
    BY <1>1, <2>4, OctetFits
  <2>7. (base \div O) * O \in Int
    <3>1. \A x, y \in Int : y > 0 => (x \div y) * y \in Int
      BY SMTT(30)
    <3> QED BY <1>1, <3>1
  <2>8. \A x \in Int : x + (first + i - 1) = x + first + i - 1
    BY <1>1, <2>2, <2>3
  <2> QED BY <1>4, <2>3, <2>5, <2>6, <2>7, <2>8
<1>9. CASE r[1] = "single" /\ r[2] \in ImportBases
  <2>1. ImportsPart!ParseRange(r) = <<r[2]>>
    BY <1>9 DEF ImportsPart!ParseRange
  <2>2. i = 1 /\ ImportsPart!ParseRange(r)[i] = r[2]
    BY <2>1
  <2> QED BY <1>3, <1>4, <1>9, <2>2
<1> QED BY <1>6, <1>7, <1>8, <1>9

ImportScanTyped ==
    /\ scan = [range |-> scan.range, ips |-> scan.ips, next |-> scan.next,
               step |-> scan.step, alive |-> scan.alive, found |-> scan.found]
    /\ scan.next \in Nat \ {0} /\ scan.step \in ImportConcurrency \union {1}
    /\ \A i \in DOMAIN scan.ips : scan.ips[i] \in ImportsPart!Address
    /\ scan.alive \subseteq ImportsPart!Address /\ scan.found \subseteq scan.alive

LEMMA ImportScanTypes ==
    ASSUME ImportScanTyped,
           \/ scan' = scan \/ scan' = ImportsPart!NoScan \/ ImportsPart!ScanBatch
           \/ \E range \in ImportsPart!Ranges, step \in ImportConcurrency :
                 \E alive \in ImportsPart!Alive(range) : ImportsPart!Ask(range, step, alive)
    PROVE  ImportScanTyped'
<1>1. CASE scan' = scan
  BY <1>1 DEF ImportScanTyped
<1>2. CASE scan' = ImportsPart!NoScan
  BY <1>2 DEF ImportsPart!NoScan, ImportScanTyped
<1>3. CASE ImportsPart!ScanBatch
  <2> DEFINE more == ImportsPart!Answering(ImportsPart!Batch)
  <2>1. scan' = [range |-> scan.range, ips |-> scan.ips, next |-> scan.next + scan.step,
                 step |-> scan.step, alive |-> scan.alive, found |-> scan.found \union more]
    <3>1. scan' = [scan EXCEPT !.found = scan.found \union more, !.next = scan.next + scan.step]
      BY <1>3 DEF ImportsPart!ScanBatch, ImportsPart!Advance
    <3> HIDE DEF more
    <3> QED BY <3>1 DEF ImportScanTyped
  <2>2. more \subseteq scan.alive
    BY DEF ImportsPart!Answering
  <2>3. scan.next + scan.step \in Nat \ {0}
    BY ImportsAssumption DEF ImportScanTyped
  <2> HIDE DEF more
  <2> QED BY <2>1, <2>2, <2>3 DEF ImportScanTyped
<1>4. ASSUME NEW range \in ImportsPart!Ranges, NEW step \in ImportConcurrency,
             NEW alive \in ImportsPart!Alive(range), ImportsPart!Ask(range, step, alive)
      PROVE  ImportScanTyped'
  <2> DEFINE ips == ImportsPart!ParseRange(range)
  <2>1. scan' = [range |-> range, ips |-> ips, next |-> 1, step |-> step,
                 alive |-> alive, found |-> {}]
    BY <1>4 DEF ImportsPart!Ask, ImportsPart!NoScan
  <2>2. \A i \in DOMAIN ips : ips[i] \in ImportsPart!Address
    BY ImportRangesFit
  <2>3. alive \subseteq {ips[i] : i \in DOMAIN ips}
    BY DEF ImportsPart!Alive, ImportsPart!kSubset, ImportsPart!ToSet
  <2> HIDE DEF ips
  <2> QED BY <2>1, <2>2, <2>3 DEF ImportScanTyped
<1> QED BY <1>1, <1>2, <1>3, <1>4

(***************************************************************************)
(* Types of the assets and the imports: a host found missing is the first  *)
(* of those to go.                                                         *)
(***************************************************************************)
AssetRow == [ip : ImportsPart!Address \union {ImportsPart!None}, active : BOOLEAN,
             by : {"none", "user", "import"}]

ImportRowTyped(todo, missing) ==
    /\ todo \in Seq(ImportsPart!Address)
    /\ missing \in ImportsPart!Address \union {ImportsPart!None}
    /\ missing # ImportsPart!None => todo # <<>>

ImportTypes ==
    /\ ImportScanTyped
    /\ asset \in [Assets -> AssetRow]
    /\ \A r \in Imports : ImportRowTyped(import[r].todo, import[r].missing)
    /\ overlapped \subseteq ImportsPart!Address

LEMMA ImportAddresses ==
    /\ IsFiniteSet(ImportsPart!Address) /\ ImportsPart!Address \subseteq Int
    /\ UserAddresses \subseteq ImportsPart!Address
    /\ \A n \in ImportsPart!Address : n # ImportsPart!None
<1>1. ImportBits \in 0 .. ImportBits /\ 2 ^ ImportBits \in Nat
  <2>1. ImportBits \in 0 .. ImportBits
    BY ImportsAssumption
  <2> QED BY <2>1, ImportsAssumption
<1>2. ImportsPart!Address = 0 .. 2 ^ ImportBits - 1
  BY DEF ImportsPart!Address
<1>3. IsFiniteSet(0 .. 2 ^ ImportBits - 1)
  BY <1>1, FS_Interval
<1> QED BY <1>1, <1>2, <1>3, ImportsAssumption DEF ImportsPart!None

\* What has been found is listed in an order, each host once.
LEMMA SortedIs ==
    ASSUME ImportScanTyped
    PROVE  ImportsPart!Sorted \in Seq(ImportsPart!Address)
<1> DEFINE S == scan.found
           R == {p \in S \X S : ImportsPart!Before(p[1], p[2])}
           O == 2 ^ ImportOctetBits
<1>1. S \in SUBSET ImportsPart!Address /\ S \subseteq Int /\ IsFiniteSet(S)
  <2>1. S \in SUBSET ImportsPart!Address
    BY DEF ImportScanTyped
  <2> QED BY <2>1, ImportAddresses, FS_Subset
<1>2. O \in Nat /\ O > 0
  BY ImportsAssumption
<1>3. \A x \in S : x \in Int /\ ImportsPart!LastOctet(x) \in Int
  <2>1. \A x \in Int : x % O \in Int
    <3> HIDE DEF O
    <3> QED BY <1>2, SMTT(30)
  <2> QED BY <1>1, <2>1 DEF ImportsPart!LastOctet
<1>4. \A x, y \in S : <<x, y>> \in R <=> ImportsPart!Before(x, y)
  OBVIOUS
<1> HIDE DEF R, O, S
<1>5. \A x, y \in S : x # y => <<x, y>> \in R \/ <<y, x>> \in R
  BY <1>3, <1>4 DEF ImportsPart!Before
<1>6. \A x \in S : <<x, x>> \notin R
  BY <1>3, <1>4 DEF ImportsPart!Before
<1>7. \A x, y, z \in S : <<x, y>> \in R /\ <<y, z>> \in R => <<x, z>> \in R
  BY <1>3, <1>4 DEF ImportsPart!Before
<1>8. \E s \in [1 .. Cardinality(S) -> S] :
          \A i, j \in DOMAIN s : i < j => <<s[i], s[j]>> \in R
  <2>1. OrderOf(R, S)
    BY <1>5, <1>6, <1>7 DEF OrderOf
  <2> QED BY <1>1, <2>1, SortedList
<1>9. ImportsPart!Cardinality(S) = Cardinality(S)
  BY DEF ImportsPart!Cardinality, Cardinality
<1>10. \E s \in [1 .. ImportsPart!Cardinality(S) -> S] :
           \A i, j \in DOMAIN s : i < j => ImportsPart!Before(s[i], s[j])
  <2>1. PICK s \in [1 .. Cardinality(S) -> S] :
               \A i, j \in DOMAIN s : i < j => <<s[i], s[j]>> \in R
    BY <1>8
  <2>2. \A i, j \in DOMAIN s : i < j => ImportsPart!Before(s[i], s[j])
    BY <1>4, <2>1
  <2> QED BY <1>9, <2>1, <2>2
<1>11. ImportsPart!Sorted \in [1 .. ImportsPart!Cardinality(S) -> S]
  <2> DEFINE T == [1 .. ImportsPart!Cardinality(S) -> S]
             P(s) == \A i, j \in DOMAIN s : i < j => ImportsPart!Before(s[i], s[j])
  <2>1. ImportsPart!Sorted = CHOOSE s \in T : P(s)
    BY DEF ImportsPart!Sorted, S
  <2>2. \E s \in T : P(s)
    BY <1>10
  <2> HIDE DEF T, P
  <2>3. ImportsPart!Sorted \in T
    BY <2>1, <2>2
  <2> QED BY <2>3 DEF T
<1>12. Cardinality(S) \in Nat
  BY <1>1, FS_CardinalityType
<1>13. PICK n \in Nat : n = ImportsPart!Cardinality(S)
  BY <1>9, <1>12
<1>14. ImportsPart!Sorted \in [1 .. n -> ImportsPart!Address]
  BY <1>1, <1>11, <1>13
<1> QED BY <1>14

LEMMA ImportsTurn ==
    ASSUME ImportShape, ImportTypes, NEW r \in Imports, NEW todo, NEW missing,
           ImportRowTyped(todo, missing),
           import' = [import EXCEPT ![r] = [todo |-> todo, missing |-> missing]]
    PROVE  \A q \in Imports : ImportRowTyped(import'[q].todo, import'[q].missing)
<1> DEFINE x == [todo |-> todo, missing |-> missing]
<1>1. \A q \in Imports \ {r} : import'[q] = import[q]
  BY DEF ImportShape
<1>2. import'[r] = x /\ x.todo = todo /\ x.missing = missing
  BY DEF ImportShape
<1> HIDE DEF x
<1> QED BY <1>1, <1>2 DEF ImportTypes

LEMMA ImportTypesInit == ImportsPart!Init => ImportTypes
<1> SUFFICES ASSUME ImportsPart!Init PROVE ImportTypes
  OBVIOUS
<1>1. ImportScanTyped
  BY DEF ImportsPart!Init, ImportsPart!NoScan, ImportScanTyped
<1>2. asset \in [Assets -> AssetRow]
  BY DEF ImportsPart!Init, ImportsPart!NoAsset, AssetRow
<1>3. \A r \in Imports : import[r].todo = <<>> /\ import[r].missing = ImportsPart!None
  BY DEF ImportsPart!Init, ImportsPart!NoImport
<1>4. <<>> \in Seq(ImportsPart!Address)
  OBVIOUS
<1> QED BY <1>1, <1>2, <1>3, <1>4 DEF ImportsPart!Init, ImportTypes, ImportRowTyped

LEMMA ImportTypesStep ==
    ASSUME ImportShape, ImportTypes, [ImportsPart!Next]_(ImportsPart!vars)
    PROVE  ImportTypes'
<1> DEFINE None == ImportsPart!None
           Imported == \A q \in Imports : ImportRowTyped(import'[q].todo, import'[q].missing)
<1>s. ASSUME UNCHANGED <<asset, import, overlapped>>,
             \/ scan' = scan \/ scan' = ImportsPart!NoScan \/ ImportsPart!ScanBatch
             \/ \E range \in ImportsPart!Ranges, step \in ImportConcurrency :
                   \E alive \in ImportsPart!Alive(range) : ImportsPart!Ask(range, step, alive)
      PROVE  ImportTypes'
  BY <1>s, ImportScanTypes DEF ImportTypes, AssetRow
<1>t. ASSUME scan' = scan, asset' \in [Assets -> AssetRow], Imported,
             overlapped' \subseteq ImportsPart!Address
      PROVE  ImportTypes'
  <2>1. ImportScanTyped'
    BY <1>t, ImportScanTypes DEF ImportTypes
  <2> QED BY <1>t, <2>1 DEF ImportTypes, AssetRow
<1>i. import' = import => Imported
  BY DEF ImportTypes
<1>1. CASE ImportsPart!Discard
  BY <1>1, <1>s DEF ImportsPart!Discard
<1>2. CASE ImportsPart!ScanBatch
  BY <1>2, <1>s DEF ImportsPart!ScanBatch
<1>3. ASSUME NEW range \in ImportsPart!Ranges, NEW step \in ImportConcurrency,
             NEW alive \in ImportsPart!Alive(range), ImportsPart!Ask(range, step, alive)
      PROVE  ImportTypes'
  BY <1>3, <1>s DEF ImportsPart!Ask
<1>4. ASSUME NEW r \in Imports, ImportsPart!StartImport(r) PROVE ImportTypes'
  <2>1. import[r].missing = None
    BY <1>4 DEF ImportsPart!StartImport, ImportsPart!NoImport
  <2>2. import' = [import EXCEPT ![r].todo = ImportsPart!Sorted]
    BY <1>4 DEF ImportsPart!StartImport
  <2>3. import[r] = [todo |-> import[r].todo, missing |-> None]
    BY <2>1 DEF ImportShape
  <2>4. import' = [import EXCEPT ![r] = [todo |-> ImportsPart!Sorted, missing |-> None]]
    BY <2>1, <2>2, <2>3, ImportForms
  <2>5. ImportRowTyped(ImportsPart!Sorted, None)
    BY SortedIs DEF ImportTypes, ImportRowTyped
  <2> QED BY <1>4, <2>4, <2>5, <1>t, ImportsTurn DEF ImportsPart!StartImport, ImportTypes
<1>5. ASSUME NEW r \in Imports, ImportsPart!FindHost(r) PROVE ImportTypes'
  <2> DEFINE todo == import[r].todo
  <2>1. /\ todo # <<>> /\ import[r].missing = None /\ UNCHANGED <<asset, scan, overlapped>>
        /\ import' = [import EXCEPT ![r] =
                        IF ImportsPart!HasAsset(Head(todo)) THEN [import[r] EXCEPT !.todo = Tail(todo)]
                        ELSE [import[r] EXCEPT !.missing = Head(todo)]]
    BY <1>5 DEF ImportsPart!FindHost
  <2>2. todo \in Seq(ImportsPart!Address)
    BY DEF ImportTypes, ImportRowTyped
  <2>3. import[r] = [todo |-> todo, missing |-> None]
    BY <2>1 DEF ImportShape
  <2> HIDE DEF todo
  <2>4. Tail(todo) \in Seq(ImportsPart!Address) /\ Head(todo) \in ImportsPart!Address
    BY <2>1, <2>2
  <2>5. ImportRowTyped(Tail(todo), None) /\ ImportRowTyped(todo, Head(todo))
    BY <2>1, <2>2, <2>4 DEF ImportRowTyped
  <2>6. \/ import' = [import EXCEPT ![r] = [todo |-> Tail(todo), missing |-> None]]
        \/ import' = [import EXCEPT ![r] = [todo |-> todo, missing |-> Head(todo)]]
    <3>1. /\ [import[r] EXCEPT !.todo = Tail(todo)] = [todo |-> Tail(todo), missing |-> None]
          /\ [import[r] EXCEPT !.missing = Head(todo)] = [todo |-> todo, missing |-> Head(todo)]
      <4>1. import[r] = [todo |-> import[r].todo, missing |-> import[r].missing]
        BY DEF ImportShape
      <4>2. \A v : /\ [import[r] EXCEPT !.missing = v] = [todo |-> import[r].todo, missing |-> v]
                  /\ [import[r] EXCEPT !.todo = v] = [todo |-> v, missing |-> import[r].missing]
        BY <4>1, ImportForms
      <4>3. import[r].todo = todo
        BY DEF todo
      <4> QED BY <2>1, <4>2, <4>3
    <3> QED BY <2>1, <3>1
  <2>7. Imported
    BY <2>5, <2>6, ImportsTurn
  <2> QED BY <2>1, <2>7, <1>t DEF ImportTypes
<1>6. ASSUME NEW r \in Imports, import[r].todo # <<>>,
             import' = [import EXCEPT ![r] = [todo |-> Tail(import[r].todo), missing |-> None]]
      PROVE  Imported
  <2>1. ImportRowTyped(Tail(import[r].todo), None)
    BY <1>6 DEF ImportTypes, ImportRowTyped
  <2> QED BY <1>6, <2>1, ImportsTurn
<1>7. ASSUME NEW r \in Imports, ImportsPart!SkipHost(r) PROVE ImportTypes'
  <2>1. Imported
    BY <1>6, <1>7 DEF ImportsPart!SkipHost
  <2> QED BY <1>7, <2>1, <1>t DEF ImportsPart!SkipHost, ImportTypes
<1>8. ASSUME NEW r \in Imports, NEW a \in Assets, ImportsPart!CreateHost(r, a)
      PROVE  ImportTypes'
  <2>1. /\ import[r].missing # None
        /\ asset' = [asset EXCEPT ![a] = [ip |-> import[r].missing, active |-> TRUE,
                                          by |-> "import"]]
        /\ import' = [import EXCEPT ![r] = [todo |-> Tail(import[r].todo), missing |-> None]]
        /\ overlapped' \subseteq overlapped \union {import[r].missing} /\ scan' = scan
    BY <1>8 DEF ImportsPart!CreateHost
  <2>2. import[r].missing \in ImportsPart!Address /\ import[r].todo # <<>>
    BY <2>1 DEF ImportTypes, ImportRowTyped
  <2>3. asset' \in [Assets -> AssetRow]
    BY <2>1, <2>2 DEF ImportTypes, AssetRow
  <2>4. Imported
    BY <2>1, <2>2, <1>6
  <2> QED BY <2>1, <2>2, <2>3, <2>4, <1>t DEF ImportTypes
<1>9. ASSUME NEW a \in Assets,
             \/ \E ip \in UserAddresses :
                   ImportsPart!CreateAsset(a, ip) \/ ImportsPart!EditAsset(a, ip)
             \/ ImportsPart!RemoveAsset(a)
      PROVE  ImportTypes'
  <2>1. UNCHANGED <<scan, import, overlapped>>
    BY <1>9 DEF ImportsPart!CreateAsset, ImportsPart!EditAsset, ImportsPart!RemoveAsset
  <2>2. asset[a] = [ip |-> asset[a].ip, active |-> asset[a].active, by |-> asset[a].by]
        /\ asset[a] \in AssetRow
    BY DEF ImportShape, ImportTypes
  <2>3. CASE ImportsPart!RemoveAsset(a)
    <3>1. asset' = [asset EXCEPT ![a] = [asset[a] EXCEPT !.active = FALSE]]
      BY <2>3 DEF ImportsPart!RemoveAsset
    <3>2. [asset[a] EXCEPT !.active = FALSE] \in AssetRow
      BY <2>2 DEF AssetRow
    <3>3. asset' \in [Assets -> AssetRow]
      BY <3>1, <3>2 DEF ImportTypes
    <3> QED BY <2>1, <3>3, <1>i, <1>t DEF ImportTypes
  <2>4. ASSUME NEW ip \in UserAddresses, ImportsPart!CreateAsset(a, ip) PROVE ImportTypes'
    <3>1. asset' \in [Assets -> AssetRow]
      BY <2>4, ImportAddresses DEF ImportsPart!CreateAsset, ImportTypes, AssetRow
    <3> QED BY <2>1, <3>1, <1>i, <1>t DEF ImportTypes
  <2>5. ASSUME NEW ip \in UserAddresses, ImportsPart!EditAsset(a, ip) PROVE ImportTypes'
    <3>1. asset' = [asset EXCEPT ![a] = [[asset[a] EXCEPT !.ip = ip] EXCEPT !.by = "user"]]
      BY <2>5 DEF ImportsPart!EditAsset, ImportTypes
    <3>2. [[asset[a] EXCEPT !.ip = ip] EXCEPT !.by = "user"]
            = [ip |-> ip, active |-> asset[a].active, by |-> "user"]
      BY <2>2, AssetForms
    <3>3. [ip |-> ip, active |-> asset[a].active, by |-> "user"] \in AssetRow
      BY <2>2, ImportAddresses DEF AssetRow
    <3>4. asset' \in [Assets -> AssetRow]
      BY <3>1, <3>2, <3>3 DEF ImportTypes
    <3> QED BY <2>1, <3>4, <1>i, <1>t DEF ImportTypes
  <2> QED BY <1>9, <2>3, <2>4, <2>5
<1>10. CASE UNCHANGED ImportsPart!vars
  BY <1>10, <1>s DEF ImportsPart!vars
<1> QED BY <1>1, <1>2, <1>3, <1>4, <1>5, <1>7, <1>8, <1>9, <1>10 DEF ImportsPart!Next

SeedTypes ==
    /\ \A t \in SeedingPart!Tables : db[t] \subseteq SeedingPart!Seeders \union {"users"}
    /\ boot \in {"waiting", "schema", "count", "seeding", "app"}
    /\ \A p \in SeedingPart!Seeders : /\ script[p].job \in {"none", "look", "seed", "reset"}
                                      /\ Len(script[p].left) <= 14
    /\ broken \in BOOLEAN /\ deleted \subseteq SeedingPart!Tables
    /\ restarts \in 0 .. MaxRestarts

LEMMA SeedLengths ==
    /\ Len(SeedingPart!SeedOrder) = 14 /\ Len(SeedingPart!ResetOrder) = 14
    /\ SeedingPart!Len(SeedingPart!SeedOrder) = 14
    /\ \A s : SeedingPart!Len(s) = Len(s)
BY DEF SeedingPart!SeedOrder, SeedingPart!ResetOrder

LEMMA SeedTypesAre == SeedInv /\ SeedTypes => SeedingPart!SeedingTypeOK
BY SeedLengths DEF SeedInv, SeedTypes, SeedingPart!SeedingTypeOK

LEMMA SeedTypesInit == SeedingPart!Init => SeedTypes
<1> SUFFICES ASSUME SeedingPart!Init PROVE SeedTypes
  OBVIOUS
<1>1. \A p \in SeedingPart!Seeders : script[p].job = "none" /\ script[p].left = <<>>
  BY DEF SeedingPart!Init, SeedingPart!NoScript
<1>2. 0 \in 0 .. MaxRestarts
  BY SeedingAssumption
<1>3. \A p \in SeedingPart!Seeders : Len(script[p].left) <= 14
  <2>1. Len(<<>>) = 0
    OBVIOUS
  <2> QED BY <1>1, <2>1
<1>4. \A t \in SeedingPart!Tables : db[t] = {}
  BY DEF SeedingPart!Init
<1> QED BY <1>1, <1>2, <1>3, <1>4 DEF SeedingPart!Init, SeedTypes

\* What becomes of the scripts, whether the tables change or not.
LEMMA ScriptsTyped ==
    ASSUME SeedInv, SeedTypes, NEW p \in SeedingPart!Seeders, NEW job, NEW then, NEW left,
           script' = [script EXCEPT ![p] = [job |-> job, then |-> then, left |-> left]],
           job \in {"none", "look", "seed", "reset"}, Len(left) <= 14
    PROVE  \A q \in SeedingPart!Seeders : /\ script'[q].job \in {"none", "look", "seed", "reset"}
                                           /\ Len(script'[q].left) <= 14
<1> DEFINE x == [job |-> job, then |-> then, left |-> left]
<1>1. script'[p] = x /\ x.job = job /\ x.left = left
  BY DEF SeedInv
<1>2. \A q \in SeedingPart!Seeders \ {p} : script'[q] = script[q]
  BY DEF SeedInv
<1> HIDE DEF x
<1> QED BY <1>1, <1>2 DEF SeedTypes

LEMMA ScriptForms ==
    ASSUME NEW x, x = [job |-> x.job, then |-> x.then, left |-> x.left], NEW v
    PROVE  [x EXCEPT !.left = v] = [job |-> x.job, then |-> x.then, left |-> v]
OBVIOUS

LEMMA CascadesAreTables ==
    ASSUME NEW t \in SeedingPart!Tables
    PROVE  SeedingPart!Cascade(t) \subseteq SeedingPart!Tables
<1> DEFINE s == SeedingPart!SeedOrder
<1>1. /\ DOMAIN s = 1 .. 14 /\ s[5] = "checkResult" /\ s[6] = "metric" /\ s[9] = "event"
      /\ s[11] = "comment" /\ s[13] = "widget"
  BY DEF SeedingPart!SeedOrder
<1>2. {"checkResult", "metric", "event", "comment", "widget"} \subseteq SeedingPart!Tables
  BY <1>1 DEF SeedingPart!Tables
<1> QED BY <1>2 DEF SeedingPart!Cascade

LEMMA SeedTypesStep ==
    ASSUME SeedInv, SeedTypes, [SeedingPart!Next]_(SeedingPart!vars)
    PROVE  SeedTypes'
<1> DEFINE Scripts == \A q \in SeedingPart!Seeders :
                          /\ script'[q].job \in {"none", "look", "seed", "reset"}
                          /\ Len(script'[q].left) <= 14
           Db == \A t \in SeedingPart!Tables :
                     db'[t] \subseteq SeedingPart!Seeders \union {"users"}
           Boots == boot' \in {"waiting", "schema", "count", "seeding", "app"}
<1>d. db' = db => Db
  BY DEF SeedTypes
<1>s. script' = script => Scripts
  BY DEF SeedTypes
<1>b. boot' = boot => Boots
  BY DEF SeedTypes
<1>q. ASSUME Db, Scripts, Boots, broken' \in BOOLEAN,
             deleted' = deleted \/ deleted' \subseteq SeedingPart!Tables,
             restarts' = restarts \/ restarts' \in 0 .. MaxRestarts
      PROVE  SeedTypes'
  <2>1. SeedingPart!Seeders' = SeedingPart!Seeders /\ SeedingPart!Tables' = SeedingPart!Tables
    OBVIOUS
  <2> QED BY <1>q, <2>1 DEF SeedTypes
<1>w. broken \in BOOLEAN
  BY DEF SeedTypes
<1>e. ASSUME NEW p \in SeedingPart!Seeders, SeedingPart!End(p) PROVE Scripts
  <2>1. Len(<<>>) <= 14
    OBVIOUS
  <2> QED BY <1>e, <2>1, ScriptsTyped DEF SeedingPart!End, SeedingPart!NoScript
<1>r. ASSUME NEW p \in SeedingPart!Seeders, NEW job \in {"look", "seed", "reset"}, NEW then,
             SeedingPart!Start(p, job, then)
      PROVE  Scripts
  <2> DEFINE left == IF job = "reset" THEN SeedingPart!ResetOrder ELSE SeedingPart!SeedOrder
  <2>1. Len(left) <= 14
    <3>1. left = SeedingPart!ResetOrder \/ left = SeedingPart!SeedOrder
      OBVIOUS
    <3> HIDE DEF left
    <3>2. Len(left) = 14
      BY <3>1, SeedLengths, Zenon
    <3> QED BY <3>2
  <2>2. script' = [script EXCEPT ![p] = [job |-> job, then |-> then, left |-> left]]
    BY <1>r DEF SeedingPart!Start
  <2> HIDE DEF left
  <2> QED BY <2>1, <2>2, ScriptsTyped
<1>n. ASSUME NEW p \in SeedingPart!Seeders, script[p].left # <<>>,
             script' = [script EXCEPT ![p].left = Tail(@)]
      PROVE  Scripts
  <2> DEFINE x == script[p]
  <2>1. x = [job |-> x.job, then |-> x.then, left |-> x.left] /\ x.left \in Seq(Names)
    BY DEF SeedInv
  <2>2. [x EXCEPT !.left = Tail(x.left)] = [job |-> x.job, then |-> x.then, left |-> Tail(x.left)]
    BY <2>1, ScriptForms
  <2>3. Len(Tail(x.left)) <= 14
    <3>1. Len(x.left) <= 14 /\ x.left # <<>>
      BY <1>n DEF SeedTypes
    <3> HIDE DEF x
    <3> QED BY <2>1, <3>1
  <2>4. script' = [script EXCEPT ![p] = [job |-> x.job, then |-> x.then, left |-> Tail(x.left)]]
    <3>1. script' = [script EXCEPT ![p] = [x EXCEPT !.left = Tail(x.left)]]
      BY <1>n
    <3> QED BY <2>2, <3>1
  <2>5. x.job \in {"none", "look", "seed", "reset"}
    BY DEF SeedTypes
  <2> HIDE DEF x
  <2> QED BY <2>3, <2>4, <2>5, ScriptsTyped
<1>p. ASSUME NEW p \in SeedingPart!Seeders, NEW t, db' = [db EXCEPT ![t] = @ \union {p}]
      PROVE  Db
  BY <1>p DEF SeedTypes, SeedInv
<1> HIDE DEF Scripts, Db, Boots
<1>1. CASE SeedingPart!Ready \/ SeedingPart!Migrate \/ SeedingPart!RunApp
  <2>1. /\ UNCHANGED <<db, script, broken, deleted, restarts>> /\ boot' \in {"schema", "count", "app"}
    BY <1>1 DEF SeedingPart!Ready, SeedingPart!Migrate, SeedingPart!RunApp
  <2>2. Boots
    BY <2>1 DEF Boots
  <2> QED BY <2>1, <2>2, <1>d, <1>s, <1>q, <1>w
<1>2. ASSUME NEW answered \in BOOLEAN, SeedingPart!Counts(answered) PROVE SeedTypes'
  <2>1. UNCHANGED <<db, broken, deleted, restarts>>
    BY <1>2 DEF SeedingPart!Counts
  <2>2. Scripts
    <3>1. "entrypoint" \in SeedingPart!Seeders
      BY DEF SeedingPart!Seeders
    <3>2. script' = script \/ SeedingPart!Start("entrypoint", "look", "none")
      BY <1>2 DEF SeedingPart!Counts
    <3> QED BY <3>1, <3>2, <1>r, <1>s
  <2>3. Boots
    BY <1>2 DEF SeedingPart!Counts, Boots
  <2> QED BY <2>1, <2>2, <2>3, <1>d, <1>q, <1>w
<1>3. CASE SeedingPart!Restart
  <2>1. /\ db' = db /\ broken' \in BOOLEAN /\ boot' = "waiting" /\ deleted' = deleted
        /\ restarts' = restarts + 1 /\ restarts < MaxRestarts
        /\ script' = [p \in SeedingPart!Seeders |-> SeedingPart!NoScript]
    BY <1>3, <1>w DEF SeedingPart!Restart
  <2>2. \A p \in SeedingPart!Seeders : script'[p].job = "none" /\ script'[p].left = <<>>
    BY <2>1 DEF SeedingPart!NoScript
  <2>3. Len(<<>>) = 0
    OBVIOUS
  <2>4. Scripts
    BY <2>2, <2>3 DEF Scripts
  <2>5. restarts' \in 0 .. MaxRestarts
    BY <2>1, SeedingAssumption DEF SeedTypes
  <2> QED BY <2>1, <2>4, <2>5, <1>d, <1>q DEF Boots
<1>4. ASSUME NEW p \in SeedingPart!Seeders, SeedingPart!Look(p) PROVE SeedTypes'
  <2>1. UNCHANGED <<db, boot, broken, deleted, restarts>>
        /\ (SeedingPart!End(p) \/ SeedingPart!Start(p, "seed", "none"))
    BY <1>4 DEF SeedingPart!Look
  <2> QED BY <2>1, <1>b, <1>d, <1>e, <1>q, <1>r, <1>w
<1>5. ASSUME NEW p \in SeedingPart!Seeders, SeedingPart!SeedStatement(p) PROVE SeedTypes'
  <2>1. UNCHANGED <<boot, restarts>> /\ broken' \in BOOLEAN /\ script[p].left # <<>>
        /\ script' = [script EXCEPT ![p].left = Tail(@)]
        /\ (deleted' = deleted \/ deleted' = {})
        /\ \E t : db' = [db EXCEPT ![t] = @ \union {p}]
    BY <1>5, <1>w DEF SeedingPart!SeedStatement
  <2> QED BY <2>1, <1>b, <1>n, <1>p, <1>q
<1>6. ASSUME NEW p \in SeedingPart!Seeders, SeedingPart!ResetStatement(p) PROVE SeedTypes'
  <2>1. UNCHANGED <<boot, deleted, restarts>> /\ broken' \in BOOLEAN /\ script[p].left # <<>>
        /\ script' = [script EXCEPT ![p].left = Tail(@)]
    BY <1>6 DEF SeedingPart!ResetStatement
  <2>2. \A u \in SeedingPart!Tables : db'[u] = {} \/ db'[u] = db[u]
    BY <1>6 DEF SeedingPart!ResetStatement
  <2>3. Db
    BY <2>2 DEF Db, SeedTypes
  <2> QED BY <2>1, <2>3, <1>b, <1>n, <1>q
<1>7. ASSUME NEW p \in SeedingPart!Seeders,
             IF script[p].then = "none" THEN SeedingPart!End(p)
             ELSE SeedingPart!Start(p, script[p].then, "none")
      PROVE  Scripts
  <2>1. script[p].then \in {"none", "look"}
    BY DEF SeedInv
  <2>2. CASE script[p].then = "none"
    BY <1>7, <2>2, <1>e
  <2>3. CASE script[p].then = "look"
    BY <1>7, <2>3, <1>r
  <2> QED BY <2>1, <2>2, <2>3
<1>8. ASSUME NEW p \in SeedingPart!Seeders, SeedingPart!Finish(p) PROVE SeedTypes'
  <2>1. UNCHANGED <<db, boot, broken, deleted, restarts>>
    BY <1>8 DEF SeedingPart!Finish
  <2>2. Scripts
    BY <1>7, <1>8 DEF SeedingPart!Finish
  <2> QED BY <2>1, <2>2, <1>b, <1>d, <1>q, <1>w
<1>9. ASSUME NEW p \in SeedingPart!Seeders, SeedingPart!ScriptFails(p) PROVE SeedTypes'
  <2>1. UNCHANGED <<boot, deleted, restarts>> /\ broken' \in BOOLEAN
        /\ (db' = db \/ \E t : db' = [db EXCEPT ![t] = @ \union {p}])
    BY <1>9, <1>w DEF SeedingPart!ScriptFails
  <2>2. Scripts
    BY <1>7, <1>9 DEF SeedingPart!ScriptFails
  <2> QED BY <2>1, <2>2, <1>b, <1>d, <1>p, <1>q
<1>10. ASSUME NEW job \in {"look", "reset"}, NEW then, SeedingPart!Operate(job, then)
       PROVE  SeedTypes'
  <2>1. UNCHANGED <<db, boot, broken, deleted, restarts>> /\ SeedingPart!Start("operator", job, then)
        /\ "operator" \in SeedingPart!Seeders
    BY <1>10 DEF SeedingPart!Operate, SeedingPart!Seeders
  <2> QED BY <2>1, <1>b, <1>d, <1>q, <1>r, <1>w
<1>11. ASSUME NEW t \in SeedingPart!Tables, SeedingPart!Work(t) PROVE SeedTypes'
  <2>1. UNCHANGED <<boot, script, broken, deleted, restarts>>
    BY <1>11 DEF SeedingPart!Work
  <2>2. \A u \in SeedingPart!Tables : db'[u] \subseteq db[u] \union {"users"}
    BY <1>11 DEF SeedingPart!Work, SeedInv
  <2>3. Db
    BY <2>2 DEF Db, SeedTypes
  <2> QED BY <2>1, <2>3, <1>b, <1>s, <1>q, <1>w
<1>13. ASSUME NEW t \in SeedingPart!Tables, NEW w \in SeedingPart!Seeders \union {"users"},
              SeedingPart!Delete(t, w)
       PROVE  SeedTypes'
  <2>1. UNCHANGED <<boot, script, broken, restarts>>
    BY <1>13 DEF SeedingPart!Delete
  <2>2. \A u \in SeedingPart!Tables : db'[u] \subseteq db[u]
    BY <1>13 DEF SeedingPart!Delete
  <2>3. Db
    BY <2>2 DEF Db, SeedTypes
  <2>4. SeedingPart!Cascade(t) \subseteq SeedingPart!Tables
    BY CascadesAreTables
  <2>5. deleted' \subseteq SeedingPart!Tables
    BY <1>13, <2>4 DEF SeedingPart!Delete, SeedTypes
  <2> QED BY <2>1, <2>3, <2>5, <1>b, <1>s, <1>q, <1>w
<1>12. CASE UNCHANGED SeedingPart!vars
  BY <1>12, <1>b, <1>d, <1>s, <1>q, <1>w DEF SeedingPart!vars
<1> QED
  BY <1>1, <1>2, <1>3, <1>4, <1>5, <1>6, <1>8, <1>9, <1>10, <1>11, <1>12, <1>13
     DEF SeedingPart!Next, SeedingPart!Boot

(***************************************************************************)
(* Types of a report.                                                      *)
(***************************************************************************)
LEMMA ReportsDomain ==
    /\ Kind = {"stats", "page", "day", "incidents", "monitors", "assets"}
    /\ DOMAIN ReportsPart!Table = Kind
BY DEF Kind, ReportsPart!Reports, ReportsPart!Table

\* Every class a change may give a row is one of its table.
LEMMA ChangedTo ==
    ASSUME report \in Kind, NEW from, NEW to \in ReportsPart!Changes(from)
    PROVE  to \in ReportsPart!Table[report] \union {ReportsPart!Absent}
<1>1. CASE from = ReportsPart!Absent
  <2>1. to \in ReportsPart!New
    BY <1>1 DEF ReportsPart!Changes
  <2> QED BY <2>1, ReportsDomain DEF ReportsPart!New, ReportsPart!Table, ReportsPart!Incident,
             ReportsPart!Monitor, ReportsPart!Asset, ReportsPart!Result
<1>2. CASE from # ReportsPart!Absent
  <2>1. to \in ReportsPart!Edited
    BY <1>2 DEF ReportsPart!Changes
  <2> QED BY <2>1, ReportsDomain DEF ReportsPart!Edited, ReportsPart!Table
<1> QED BY <1>1, <1>2

ReportTypes ==
    /\ changes \in 0 .. MaxChanges
    /\ report # "none" =>
         /\ table \in [Rows -> ReportsPart!Table[report] \union {ReportsPart!Absent}]
         /\ DOMAIN counted \subseteq DOMAIN ReportsPart!Reports[report]
         /\ \A f \in DOMAIN counted : counted[f] \in 0 .. Cardinality(Rows)

LEMMA ReportTypesAre == ReportInv /\ ReportTypes => ReportsPart!ReportsTypeOK
<1>1. ReportsPart!Cardinality(Rows) = Cardinality(Rows)
  BY DEF ReportsPart!Cardinality, Cardinality
<1> QED BY <1>1 DEF ReportInv, ReportTypes, ReportsPart!ReportsTypeOK, ReportsPart!Fields, Kind

LEMMA ReportTypesInit == ReportsPart!Init => ReportTypes
BY ReportsAssumption DEF ReportsPart!Init, ReportTypes

LEMMA ReportTypesStep ==
    ASSUME ReportInv, ReportTypes, [ReportsPart!Next]_(ReportsPart!vars)
    PROVE  ReportTypes'
<1>1. ASSUME NEW kind \in Kind,
             NEW rows \in [Rows -> ReportsPart!Table[kind] \union {ReportsPart!Absent}],
             ReportsPart!Ask(kind, rows)
      PROVE  ReportTypes'
  <2>1. /\ report = "none" /\ report' = kind /\ table' = rows
        /\ UNCHANGED <<counted, changes>>
    BY <1>1 DEF ReportsPart!Ask
  <2>2. DOMAIN counted = {}
    BY <2>1 DEF ReportInv
  <2> QED BY <2>1, <2>2 DEF ReportTypes
<1>2. ASSUME NEW f, ReportsPart!Count(f) PROVE ReportTypes'
  <2> DEFINE n == ReportsPart!Cardinality({i \in Rows : table[i] \in ReportsPart!Reports[report][f]})
  <2>1. /\ report # "none" /\ UNCHANGED <<report, table, changes>>
        /\ f \in DOMAIN ReportsPart!Reports[report] /\ f \notin DOMAIN counted
        /\ counted' = [g \in DOMAIN counted \union {f} |-> IF g = f THEN n ELSE counted[g]]
    BY <1>2 DEF ReportsPart!Count, ReportsPart!Fields
  <2>2. n \in 0 .. Cardinality(Rows)
    <3> DEFINE S == {i \in Rows : table[i] \in ReportsPart!Reports[report][f]}
    <3>1. n = Cardinality(S)
      BY DEF ReportsPart!Cardinality, Cardinality
    <3>2. S \in SUBSET Rows /\ IsFiniteSet(Rows)
      BY ReportsAssumption
    <3> HIDE DEF S, n
    <3>3. Cardinality(S) \in Nat /\ Cardinality(Rows) \in Nat /\ Cardinality(S) <= Cardinality(Rows)
      BY <3>2, FS_Subset, FS_CardinalityType
    <3> QED BY <3>1, <3>3
  <2> HIDE DEF n
  <2>3. \A g \in DOMAIN counted' : counted'[g] \in 0 .. Cardinality(Rows)
    BY <2>1, <2>2 DEF ReportTypes
  <2>4. DOMAIN counted' \subseteq DOMAIN ReportsPart!Reports[report]
    BY <2>1 DEF ReportTypes
  <2> QED BY <2>1, <2>3, <2>4 DEF ReportTypes
<1>3. ASSUME NEW i \in Rows, ReportsPart!Change(i) PROVE ReportTypes'
  <2>1. PICK to \in ReportsPart!Changes(table[i]) : table' = [table EXCEPT ![i] = to]
    BY <1>3 DEF ReportsPart!Change
  <2>2. /\ report # "none" /\ changes < MaxChanges /\ changes' = changes + 1
        /\ UNCHANGED <<report, counted>>
    BY <1>3 DEF ReportsPart!Change
  <2>3. to \in ReportsPart!Table[report] \union {ReportsPart!Absent}
    BY <2>2, ChangedTo DEF ReportInv
  <2>4. changes' \in 0 .. MaxChanges
    BY <2>2, ReportsAssumption DEF ReportTypes
  <2>5. table' \in [Rows -> ReportsPart!Table[report] \union {ReportsPart!Absent}]
    BY <2>1, <2>2, <2>3 DEF ReportTypes
  <2> QED BY <2>2, <2>4, <2>5 DEF ReportTypes
<1>4. CASE ReportsPart!Reply
  BY <1>4, ReportsAssumption DEF ReportsPart!Reply, ReportTypes
<1>5. CASE UNCHANGED ReportsPart!vars
  BY <1>5 DEF ReportsPart!vars, ReportTypes
<1> QED BY <1>1, <1>2, <1>3, <1>4, <1>5 DEF ReportsPart!Next, Kind

-----------------------------------------------------------------------------
(***************************************************************************)
(* The history of an asset's results.                                      *)
(***************************************************************************)
Transition == [from : Status \cup {"none"}, to : Status, at : Nat, monitor : Monitors]

\* The results are stored in the order of their time, and removing a monitor's
\* keeps the order.
HistoryInv ==
    /\ time \in 0 .. MaxTime
    /\ results \in Seq(Result)
    /\ \A i, j \in DOMAIN results : i < j => results[i].at <= results[j].at
    /\ \A i \in DOMAIN results : results[i].at <= time

LEMMA HistoryInitInv == HistoryInit => HistoryInv
  BY HistoryAssumption DEF HistoryInit, HistoryInv

LEMMA HistoryStep == HistoryInv /\ [HistoryNext]_historyVars => HistoryInv'
<1> SUFFICES ASSUME HistoryInv, [HistoryNext]_historyVars PROVE HistoryInv'
  OBVIOUS
<1> USE HistoryAssumption
<1>1. CASE Tick
  <2>1. results' = results /\ time' = time + 1 /\ time' \in 0 .. MaxTime
    BY <1>1 DEF Tick, HistoryInv
  <2>2. ASSUME NEW i \in DOMAIN results PROVE results[i].at <= time + 1
    <3>1. results[i] \in Result
      BY DEF HistoryInv
    <3>2. results[i].at \in Int /\ time \in Int /\ results[i].at <= time
      BY <3>1 DEF HistoryInv, Result
    <3> QED
      BY <3>2
  <2> QED
    BY <2>1, <2>2 DEF HistoryInv
<1>2. ASSUME NEW m \in Monitors, RemoveMonitor(m) PROVE HistoryInv'
  <2> DEFINE I == {i \in DOMAIN results : results[i].monitor # m}
  <2>1. results \in Seq(Result) /\ I \in SUBSET DOMAIN results /\ results' = Kept(results, I)
        /\ time' = time
    BY <1>2 DEF RemoveMonitor, HistoryInv
  <2> HIDE DEF I
  <2>2. /\ results' \in Seq(Result) /\ Cardinality(I) \in Nat
        /\ Len(results') = Cardinality(I)
        /\ \A k \in 1 .. Cardinality(I) : Nth(I, k) \in I /\ results'[k] = results[Nth(I, k)]
        /\ \A k, l \in 1 .. Cardinality(I) : k < l => Nth(I, k) < Nth(I, l)
    BY <2>1, KeptInOrder
  <2>3. DOMAIN results' = 1 .. Cardinality(I)
    BY <2>2
  <2> QED
    BY <2>1, <2>2, <2>3 DEF HistoryInv
<1>3. ASSUME NEW m \in Monitors, NEW status \in Status, Store(m, status) PROVE HistoryInv'
  <2> DEFINE r == [monitor |-> m, status |-> status, at |-> time]
  <2>1. r \in Result /\ r.at = time /\ time \in Nat
    BY DEF HistoryInv, Result
  <2>2. results' = Append(results, r) /\ time' = time /\ results \in Seq(Result)
    BY <1>3 DEF Store, HistoryInv
  <2> HIDE DEF r
  <2>3. /\ results' \in Seq(Result) /\ Len(results') = Len(results) + 1
        /\ \A i \in 1 .. Len(results) : results'[i] = results[i]
        /\ results'[Len(results) + 1] = r
    BY <2>1, <2>2, AppendProperties
  <2>4. /\ DOMAIN results = 1 .. Len(results) /\ Len(results) \in Nat
        /\ DOMAIN results' = 1 .. Len(results) + 1
    BY <2>2, <2>3
  <2>5. \A i \in DOMAIN results' : i \in DOMAIN results \/ i = Len(results) + 1
    BY <2>4
  <2>6. \A i \in DOMAIN results' : results'[i].at <= time
    BY <2>1, <2>3, <2>4, <2>5 DEF HistoryInv
  <2>7. \A i, j \in DOMAIN results' : i < j => results'[i].at <= results'[j].at
    <3> TAKE i, j \in DOMAIN results'
    <3> HAVE i < j
    <3>1. i \in DOMAIN results
      BY <2>4
    <3>2. CASE j \in DOMAIN results
      BY <2>3, <2>4, <3>1, <3>2 DEF HistoryInv
    <3>3. CASE j = Len(results) + 1
      BY <2>1, <2>3, <2>4, <3>1, <3>3 DEF HistoryInv
    <3> QED
      BY <2>5, <3>2, <3>3
  <2> QED
    BY <2>2, <2>3, <2>6, <2>7 DEF HistoryInv
<1>4. CASE UNCHANGED historyVars
  BY <1>4 DEF historyVars, HistoryInv
<1> QED
  BY <1>1, <1>2, <1>3, <1>4 DEF HistoryNext

\* assetHistory reads the newest results of the window in the order they were
\* stored in.
LEMMA ChronologicalRead ==
  ASSUME HistoryInv
  PROVE  /\ InWindow \in Seq(Result)
         /\ Taken \in Seq(Result) /\ Len(Taken) \in 0 .. Len(InWindow)
         /\ Chronological \in Seq(Result) /\ Len(Chronological) = Len(Taken)
         /\ \A k \in 1 .. Len(Taken) :
               Chronological[k] = InWindow[Len(InWindow) - Len(Taken) + k]
         /\ \A k, l \in 1 .. Len(Taken) : k < l => Chronological[k].at <= Chronological[l].at
<1> DEFINE I == {i \in DOMAIN results : results[i].at >= time - Since}
           w == InWindow
           n == Len(w)
           t == Min({Limit, n})
<1>1. results \in Seq(Result) /\ I \in SUBSET DOMAIN results /\ w = Kept(results, I)
  BY DEF HistoryInv, InWindow
<1> HIDE DEF I
<1>2. /\ w \in Seq(Result) /\ n = Cardinality(I)
      /\ \A k \in 1 .. Cardinality(I) : Nth(I, k) \in I /\ w[k] = results[Nth(I, k)]
      /\ \A k, l \in 1 .. Cardinality(I) : k < l => Nth(I, k) < Nth(I, l)
  BY <1>1, KeptInOrder
<1>3. \A k, l \in 1 .. n : k < l => w[k].at <= w[l].at
  BY <1>1, <1>2 DEF HistoryInv
<1> HIDE DEF w
<1>4. n \in Nat /\ t \in 0 .. n
  <2>1. n \in Nat /\ Limit \in Nat
    BY <1>2, HistoryAssumption
  <2>2. \E x \in {Limit, n} : \A y \in {Limit, n} : x <= y
    BY <2>1
  <2>3. t \in {Limit, n} /\ \A y \in {Limit, n} : t <= y
    BY <2>2 DEF Min
  <2> QED
    BY <2>1, <2>3
<1> HIDE DEF t
<1>5. Reverse(w) \in Seq(Result) /\ Len(Reverse(w)) = n
      /\ \A k \in 1 .. n : Reverse(w)[k] = w[n - k + 1]
  BY <1>2, <1>4, IsASeq DEF Reverse
<1>6. Taken = SubSeq(Reverse(w), 1, t)
  BY DEF Taken, w, t
<1>7. Taken \in Seq(Result) /\ Len(Taken) = t /\ \A k \in 1 .. t : Taken[k] = w[n - k + 1]
  BY <1>4, <1>5, <1>6, SubSeqProperties
<1>8. /\ Chronological \in Seq(Result) /\ Len(Chronological) = t
      /\ \A k \in 1 .. t : Chronological[k] = Taken[t - k + 1]
  BY <1>4, <1>7, IsASeq DEF Chronological, Reverse
<1>9. \A k \in 1 .. t : Chronological[k] = w[n - t + k]
  <2> TAKE k \in 1 .. t
  <2>1. t - k + 1 \in 1 .. t /\ n - (t - k + 1) + 1 = n - t + k
    BY <1>4
  <2> QED
    BY <1>7, <1>8, <2>1
<1>10. ASSUME NEW k \in 1 .. t, NEW l \in 1 .. t, k < l
       PROVE  Chronological[k].at <= Chronological[l].at
  <2>1. n - t + k \in 1 .. n /\ n - t + l \in 1 .. n /\ n - t + k < n - t + l
    BY <1>4, <1>10
  <2> QED
    BY <1>3, <1>9, <2>1
<1> QED
  BY <1>2, <1>4, <1>7, <1>8, <1>9, <1>10 DEF w

\* What has been told of the first k results: transitions that follow one
\* another, end at the k-th, and count the changes up to it.
ToldOf(rs, k, ts) ==
    /\ ts \in Seq(Transition)
    /\ k > 0 => /\ ts # <<>> /\ Last(ts).to = rs[k].status /\ Last(ts).at <= rs[k].at
                /\ Len(ts) = 1 + Cardinality({i \in 2 .. k : rs[i].status # rs[i - 1].status})
    /\ k = 0 => ts = <<>>
    /\ \A i \in 2 .. Len(ts) : ts[i].from = ts[i - 1].to /\ DurationMs(ts, i - 1) >= 0

LEMMA HistoryRows ==
  /\ \A r \in Result : /\ r.status \in Status /\ r.status # "none"
                        /\ r.at \in Nat /\ r.monitor \in Monitors
  /\ \A ts \in Seq(Transition) :
        /\ PrevStatus(ts) \in Status \cup {"none"}
        /\ ts # <<>> => Last(ts) \in Transition /\ Last(ts).at \in Nat /\ Last(ts).to \in Status
<1>1. \A r \in Result : /\ r.status \in Status /\ r.status # "none"
                         /\ r.at \in Nat /\ r.monitor \in Monitors
  BY HistoryAssumption DEF Result, Status
<1>2. \A e \in Transition : e.at \in Nat /\ e.to \in Status
  BY DEF Transition
<1>3. ASSUME NEW ts \in Seq(Transition), ts # <<>> PROVE Last(ts) \in Transition
  BY <1>3 DEF Last
<1> QED
  BY <1>1, <1>2, <1>3 DEF PrevStatus

LEMMA NoticedTells ==
  ASSUME NEW rs \in Seq(Result), \A i, j \in 1 .. Len(rs) : i < j => rs[i].at <= rs[j].at,
         NEW k \in 1 .. Len(rs), NEW ts, ToldOf(rs, k - 1, ts)
  PROVE  ToldOf(rs, k, Noticed(ts, rs[k]))
<1> DEFINE r == rs[k]
           Changes(n) == {i \in 2 .. n : rs[i].status # rs[i - 1].status}
           e == [from |-> PrevStatus(ts), to |-> r.status, at |-> r.at, monitor |-> r.monitor]
           new == Noticed(ts, r)
<1>1. Len(rs) \in Nat /\ k \in Nat /\ r \in Result /\ ts \in Seq(Transition)
  BY DEF ToldOf
<1>2. /\ r.status \in Status /\ r.status # "none" /\ r.at \in Nat /\ r.monitor \in Monitors
      /\ Len(ts) \in Nat
  BY <1>1, HistoryAssumption DEF Result, Status
<1>3. \A n \in Nat : IsFiniteSet(Changes(n)) /\ Cardinality(Changes(n)) \in Nat
  <2> TAKE n \in Nat
  <2>1. Changes(n) \in SUBSET (1 .. n)
    OBVIOUS
  <2> QED
    BY <2>1, NthExists, FS_CardinalityType
<1> HIDE DEF r
<1>4. CASE r.status = PrevStatus(ts)
  <2>1. new = ts
    BY <1>4 DEF Noticed
  <2>2. ts # <<>> /\ Last(ts).to = r.status
    BY <1>2, <1>4 DEF PrevStatus
  <2>3. k - 1 > 0 /\ k - 1 \in 1 .. Len(rs)
    BY <1>1, <2>2 DEF ToldOf
  <2>4. rs[k].status = rs[k - 1].status /\ Last(ts).at <= rs[k - 1].at
    BY <2>2, <2>3 DEF ToldOf, r
  <2>5. rs[k - 1].at <= rs[k].at /\ rs[k - 1].at \in Nat
    <3>1. rs[k - 1] \in Result
      BY <2>3
    <3>2. k - 1 < k /\ k \in 1 .. Len(rs)
      BY <1>1
    <3> QED
      BY <2>3, <3>1, <3>2, HistoryRows
  <2>6. Last(ts).at \in Nat
    BY <1>1, <2>2, HistoryRows
  <2>7. Changes(k) = Changes(k - 1)
    BY <1>1, <2>3, <2>4
  <2>8. Last(ts).at <= rs[k].at
    BY <1>2, <2>4, <2>5, <2>6 DEF r
  <2> HIDE DEF Changes
  <2>9. Len(ts) = 1 + Cardinality(Changes(k))
    BY <2>3, <2>7 DEF ToldOf, Changes
  <2> QED
    BY <1>1, <2>1, <2>2, <2>8, <2>9 DEF ToldOf, Changes, r
<1>5. CASE r.status # PrevStatus(ts)
  <2>1. new = Append(ts, e)
    BY <1>5 DEF Noticed
  <2>2. PrevStatus(ts) \in Status \cup {"none"}
    BY <1>1, HistoryRows
  <2>3. e \in Transition /\ e.to = r.status /\ e.at = r.at /\ e.from = PrevStatus(ts)
    BY <1>2, <2>2 DEF Transition
  <2> HIDE DEF e
  <2>4. /\ new \in Seq(Transition) /\ Len(new) = Len(ts) + 1 /\ new # <<>>
        /\ \A i \in 1 .. Len(ts) : new[i] = ts[i]
        /\ new[Len(ts) + 1] = e
    BY <1>1, <2>1, <2>3, AppendProperties
  <2> HIDE DEF new
  <2>5. Last(new) = e
    BY <2>4 DEF Last
  <2>6. Len(new) = 1 + Cardinality(Changes(k))
    <3>1. CASE k = 1
      <4>1. Len(ts) = 0
        BY <3>1 DEF ToldOf
      <4>2. Changes(k) = {}
        BY <3>1
      <4>3. Cardinality(Changes(k)) = 0
        BY <4>2, FS_EmptySet
      <4> QED
        BY <2>4, <4>1, <4>3
    <3>2. CASE k # 1
      <4>1. k - 1 > 0 /\ k - 1 \in Nat /\ ts # <<>> /\ Last(ts).to = rs[k - 1].status
            /\ Len(ts) = 1 + Cardinality(Changes(k - 1))
        BY <1>1, <3>2 DEF ToldOf
      <4>2. rs[k].status # rs[k - 1].status
        BY <1>5, <4>1 DEF PrevStatus, r
      <4>3. Changes(k) = Changes(k - 1) \cup {k} /\ k \notin Changes(k - 1)
        BY <1>1, <4>1, <4>2
      <4>4. Cardinality(Changes(k)) = Cardinality(Changes(k - 1)) + 1
        <5> HIDE DEF Changes
        <5> QED
          BY <1>3, <4>1, <4>3, FS_AddElement
      <4> QED
        <5> HIDE DEF Changes
        <5> QED
          BY <1>3, <2>4, <4>1, <4>4
    <3> QED
      BY <3>1, <3>2
  <2>7. ASSUME NEW i \in 2 .. Len(new)
        PROVE  new[i].from = new[i - 1].to /\ DurationMs(new, i - 1) >= 0
    <3>1. CASE i \in 2 .. Len(ts)
      <4>1. new[i] = ts[i] /\ new[i - 1] = ts[i - 1]
        BY <1>2, <2>4, <3>1
      <4>2. (i - 1) + 1 = i
        OBVIOUS
      <4>3. ts[i].from = ts[i - 1].to /\ DurationMs(ts, i - 1) >= 0
        BY <3>1 DEF ToldOf
      <4> QED
        BY <4>1, <4>2, <4>3 DEF DurationMs
    <3>2. CASE i = Len(ts) + 1
      <4>1. Len(ts) > 0 /\ i - 1 = Len(ts) /\ (i - 1) + 1 = Len(ts) + 1 /\ ts # <<>>
        BY <1>2, <3>2
      <4>2. new[i] = e /\ new[i - 1] = ts[Len(ts)] /\ Last(ts) = ts[Len(ts)]
        BY <2>4, <3>2, <4>1 DEF Last
      <4>3. e.from = ts[Len(ts)].to
        BY <2>3, <4>1, <4>2 DEF PrevStatus
      <4>4. k - 1 > 0 /\ k - 1 \in 1 .. Len(rs)
        BY <1>1, <4>1 DEF ToldOf
      <4>5. Last(ts).at <= rs[k - 1].at /\ rs[k - 1].at <= rs[k].at /\ rs[k - 1].at \in Nat
        <5>1. rs[k - 1] \in Result /\ k - 1 < k /\ k \in 1 .. Len(rs)
          BY <1>1, <4>4
        <5> QED
          BY <4>4, <5>1, HistoryRows DEF ToldOf
      <4>6. Last(ts).at \in Nat
        BY <1>1, <4>1, HistoryRows
      <4>7. e.at - ts[Len(ts)].at >= 0
        BY <1>2, <2>3, <4>2, <4>5, <4>6 DEF r
      <4> QED
        BY <4>1, <4>2, <4>3, <4>7, <3>2 DEF DurationMs
    <3> QED
      BY <1>2, <2>4, <3>1, <3>2
  <2>8. Last(new).at <= rs[k].at /\ Last(new).to = rs[k].status
    BY <1>2, <2>3, <2>5 DEF r
  <2>9. k > 0 /\ k # 0
    BY <1>1
  <2> QED
    BY <2>4, <2>6, <2>7, <2>8, <2>9 DEF ToldOf, new, r
<1> QED
  BY <1>4, <1>5 DEF r

LEMMA ToldTells ==
  ASSUME NEW rs \in Seq(Result), \A i, j \in 1 .. Len(rs) : i < j => rs[i].at <= rs[j].at
  PROVE  ToldOf(rs, Len(rs), Told(rs))
<1> DEFINE N == Len(rs)
           A == Seq(Transition)
           step == [p \in A \X (1 .. N) |-> Noticed(p[1], rs[p[2]])]
<1>1. N \in Nat /\ <<>> \in A
  OBVIOUS
<1>2. ASSUME NEW ts \in A, NEW k \in 1 .. N PROVE Noticed(ts, rs[k]) \in A
  <2>1. rs[k] \in Result
    OBVIOUS
  <2>2. rs[k].status \in Status /\ rs[k].at \in Nat /\ rs[k].monitor \in Monitors
    BY <2>1, HistoryRows
  <2>3. PrevStatus(ts) \in Status \cup {"none"}
    BY HistoryRows
  <2>4. [from |-> PrevStatus(ts), to |-> rs[k].status, at |-> rs[k].at,
         monitor |-> rs[k].monitor] \in Transition
    BY <2>2, <2>3 DEF Transition
  <2> QED
    BY <2>4 DEF Noticed
<1>3. step \in [A \X (1 .. N) -> A]
  BY <1>2
<1>4. PICK f : f \in [0 .. N -> A] /\ f[0] = <<>>
                /\ \A k \in 1 .. N : f[k] = step[<<f[k - 1], k>>]
  <2>1. \E f : BuiltBy(A, <<>>, N, step, f)
    <3> HIDE DEF A, N, step
    <3> QED
      BY <1>1, <1>3, Recursion
  <2> QED
    BY <2>1 DEF BuiltBy
<1>5. ASSUME NEW k \in 1 .. N PROVE f[k] = Noticed(f[k - 1], rs[k])
  <2>1. k - 1 \in 0 .. N
    BY <1>1
  <2>2. <<f[k - 1], k>> \in A \X (1 .. N)
    BY <1>4, <2>1
  <2>3. step[<<f[k - 1], k>>] = Noticed(f[k - 1], rs[k])
    BY <2>2
  <2> QED
    BY <1>4, <2>3
<1>6. DOMAIN f = 0 .. N /\ f = [k \in 0 .. N |-> f[k]]
  BY <1>4
<1> DEFINE Good(g) == g = [k \in 0 .. N |-> IF k = 0 THEN <<>> ELSE Noticed(g[k - 1], rs[k])]
<1> HIDE DEF step, A
<1>7. Good(f)
  <2>1. ASSUME NEW k \in 0 .. N
        PROVE  f[k] = IF k = 0 THEN <<>> ELSE Noticed(f[k - 1], rs[k])
    BY <1>4, <1>5
  <2> QED
    BY <1>6, <2>1
<1> DEFINE told == CHOOSE g : Good(g)
<1>8. Told(rs) = told[N]
  BY DEF Told
<1>9. Good(told)
  <2> HIDE DEF Good
  <2> QED
    BY <1>7
<1> HIDE DEF told
<1>10. told[0] = <<>> /\ \A k \in 1 .. N : told[k] = Noticed(told[k - 1], rs[k])
  <2>1. 0 \in 0 .. N /\ \A k \in 1 .. N : k \in 0 .. N /\ k # 0
    BY <1>1
  <2> QED
    BY <1>9, <2>1
<1> DEFINE T == {n \in Nat : n <= N => ToldOf(rs, n, told[n])}
<1>11. 0 \in T
  <2>1. ToldOf(rs, 0, <<>>)
    <3>1. <<>> \in Seq(Transition) /\ Len(<<>>) = 0 /\ 2 .. 0 = {}
      OBVIOUS
    <3> QED
      BY <3>1 DEF ToldOf
  <2> QED
    BY <1>10, <2>1
<1>12. ASSUME NEW n \in Nat, n \in T PROVE n + 1 \in T
  <2> SUFFICES ASSUME n + 1 <= N PROVE ToldOf(rs, n + 1, told[n + 1])
    OBVIOUS
  <2>1. n + 1 \in 1 .. N /\ (n + 1) - 1 = n /\ n <= N
    BY <1>1
  <2>2. ToldOf(rs, n, told[n])
    BY <1>12, <2>1
  <2> HIDE DEF T, N
  <2>3. told[n + 1] = Noticed(told[n], rs[n + 1])
    BY <1>10, <2>1
  <2>4. ToldOf(rs, n + 1, Noticed(told[n], rs[n + 1]))
    <3>1. n + 1 \in 1 .. Len(rs) /\ ToldOf(rs, (n + 1) - 1, told[n])
      BY <2>1, <2>2 DEF N
    <3> QED
      BY <3>1, NoticedTells
  <2> QED
    BY <2>3, <2>4
<1> HIDE DEF T
<1>13. N \in T
  BY <1>1, <1>11, <1>12, SetInduction
<1> QED
  BY <1>8, <1>13 DEF T

LEMMA TransitionsRead == HistoryInv => TransitionsTell
<1> SUFFICES ASSUME HistoryInv PROVE TransitionsTell
  OBVIOUS
<1> DEFINE c == Chronological
           t == Len(Taken)
           w == InWindow
           ts == Transitions
<1>1. /\ w \in Seq(Result) /\ Len(w) \in Nat /\ t \in 0 .. Len(w)
      /\ c \in Seq(Result) /\ Len(c) = t
      /\ \A k \in 1 .. t : c[k] = w[Len(w) - t + k]
      /\ \A k, l \in 1 .. t : k < l => c[k].at <= c[l].at
  <2>1. /\ InWindow \in Seq(Result)
        /\ Taken \in Seq(Result) /\ Len(Taken) \in 0 .. Len(InWindow)
        /\ Chronological \in Seq(Result) /\ Len(Chronological) = Len(Taken)
        /\ \A k \in 1 .. Len(Taken) :
              Chronological[k] = InWindow[Len(InWindow) - Len(Taken) + k]
        /\ \A k, l \in 1 .. Len(Taken) : k < l => Chronological[k].at <= Chronological[l].at
    BY ChronologicalRead, Zenon
  <2>2. Len(InWindow) \in Nat
    BY <2>1
  <2> QED
    BY <2>1, <2>2, Zenon
<1>2. ToldOf(c, t, ts)
  <2>1. ts = Told(c)
    BY DEF Transitions
  <2>2. c \in Seq(Result) /\ Len(c) = t /\ \A k, l \in 1 .. Len(c) : k < l => c[k].at <= c[l].at
    BY <1>1
  <2> HIDE DEF c, ts, t
  <2>3. ToldOf(c, Len(c), Told(c))
    BY <2>2, ToldTells
  <2> QED
    BY <2>1, <2>2, <2>3
<1> HIDE DEF c, w, ts
<1>3. \A k \in 2 .. Len(ts) : ts[k].from = ts[k - 1].to /\ DurationMs(ts, k - 1) >= 0
  BY <1>2 DEF ToldOf
<1>4. ASSUME Taken # <<>> PROVE t > 0
  <2>1. Taken \in Seq(Result)
    BY ChronologicalRead
  <2> QED
    BY <1>1, <1>4, <2>1
<1>5. ASSUME Taken # <<>> PROVE Last(ts).to = Last(w).status
  <2>1. t \in 1 .. t /\ Len(w) - t + t = Len(w)
    BY <1>1, <1>4, <1>5
  <2>2. c[t] = w[Len(w)]
    BY <1>1, <2>1
  <2> QED
    BY <1>2, <2>1, <2>2 DEF ToldOf, Last
<1>6. ASSUME Taken # <<>>
      PROVE  Len(ts) = 1 + Cardinality(ChangesIn(SubSeq(w, Len(w) - t + 1, Len(w))))
  <2> DEFINE s == SubSeq(w, Len(w) - t + 1, Len(w))
  <2>1. Len(w) - t + 1 \in 1 .. Len(w) + 1 /\ Len(w) \in Nat
    BY <1>1
  <2>2. Len(s) = t /\ \A k \in 1 .. t : s[k] = w[Len(w) - t + k]
    <3>1. /\ Len(s) = Len(w) - (Len(w) - t + 1) + 1
          /\ \A k \in 1 .. Len(s) : s[k] = w[Len(w) - t + 1 + k - 1]
      BY <1>1, <2>1, <1>4, <1>6, SubSeqProperties
    <3> QED
      BY <1>1, <3>1
  <2> HIDE DEF s
  <2>3. \A i \in 2 .. t : s[i] = c[i] /\ s[i - 1] = c[i - 1]
    BY <1>1, <2>2
  <2>4. ChangesIn(s) = {i \in 2 .. t : c[i].status # c[i - 1].status}
    BY <2>2, <2>3 DEF ChangesIn
  <2> QED
    BY <1>2, <1>4, <1>6, <2>4 DEF ToldOf, s
<1> QED
  BY <1>3, <1>5, <1>6 DEF TransitionsTell, w, ts

\* The transitions of assetHistory tell the history of what was stored,
\* whichever monitors' results it takes together: they follow one another in
\* the order of time, lead to the newest status, and count its changes.
THEOREM HistoryTold == HistorySpec => []TransitionsTell
<1>1. HistorySpec => []HistoryInv
  BY HistoryInitInv, HistoryStep, PTL DEF HistorySpec
<1> QED
  BY <1>1, TransitionsRead, PTL

-----------------------------------------------------------------------------
(***************************************************************************)
(* The octets of a request, and what is read of them.                      *)
(***************************************************************************)
LEMMA WireNumbers ==
  /\ Septet \in Nat /\ Septet >= 2 /\ WirePart!Byte = 2 * Septet /\ Root \in Nat /\ Root >= 1
  /\ WirePart!Word \in Nat /\ WirePart!Word >= 2 * Septet
  /\ WirePart!Word \div 2 \in Nat /\ WirePart!Word \div 2 >= Septet
<1>1. /\ Septet \in Nat /\ Septet >= 2 /\ WirePart!Byte = 2 * Septet /\ Root \in Nat /\ Root >= 1
      /\ WirePart!Word \in Nat /\ WirePart!Word >= 2 * Septet
  BY WireAssumption DEF WirePart!Byte
<1>2. ASSUME NEW w \in Nat, w >= 2 * Septet
      PROVE  w \div 2 \in Nat /\ w \div 2 >= Septet
  BY <1>1, <1>2
<1> QED
  BY <1>1, <1>2

LEMMA Septets ==
  ASSUME NEW n \in Int
  PROVE  /\ n \div Septet \in Int /\ n % Septet \in Nat /\ n % Septet < Septet
         /\ n = ((n \div Septet) * Septet) + (n % Septet)
         /\ n > 0 => n \div Septet >= 0 /\ n \div Septet < n
         /\ n < 0 => n \div Septet < 0
         /\ n >= 0 => n \div Septet >= 0
<1>1. Septet \in Nat /\ Septet >= 2
  BY WireNumbers
<1>2. n \div Septet \in Int /\ n % Septet \in Nat /\ n % Septet < Septet
  BY <1>1, SMTT(30)
<1>3. n = ((n \div Septet) * Septet) + (n % Septet)
  BY <1>1, SMTT(30)
<1> DEFINE q == n \div Septet
           r == n % Septet
<1> HIDE DEF q, r
<1>4. q \in Int /\ r \in Nat /\ r < Septet /\ n = (q * Septet) + r
  BY <1>2, <1>3 DEF q, r
<1>5. n < 0 => q < 0
  BY <1>1, <1>4, SMTT(30)
<1>6. n >= 0 => q >= 0
  BY <1>1, <1>4, SMTT(30)
<1>7. n > 0 => q < n
  <2>1. q > 0 => q * Septet >= q * 2
    BY <1>1, <1>4, SMTT(30)
  <2> QED
    BY <1>1, <1>4, <2>1, SMTT(30)
<1> QED
  BY <1>2, <1>3, <1>5, <1>6, <1>7 DEF q, r

\* What & and >> make of a number.
LEMMA Signed ==
  ASSUME NEW v \in Int
  PROVE  /\ WirePart!ToInt32(v) \in Int /\ WirePart!ToInt32(v) < WirePart!Word \div 2
         /\ v >= 0 => WirePart!ToInt32(v) <= v
         /\ v >= 0 /\ v < WirePart!Word \div 2 => WirePart!ToInt32(v) = v
<1> DEFINE W == WirePart!Word
           m == v % W
<1>1. W \in Nat /\ W > 0 /\ W \div 2 \in Nat /\ W \div 2 < W
  <2>1. W \in Nat /\ W >= 4
    BY WireNumbers
  <2> HIDE DEF W
  <2> QED
    BY <2>1
<1> HIDE DEF W
<1>2. m \in Nat /\ m < W
  BY <1>1, SMTT(30)
<1>3. v >= 0 => m <= v
  BY <1>1, SMTT(30)
<1>4. v >= 0 /\ v < W => m = v
  BY <1>1, SMTT(30)
<1>5. WirePart!ToInt32(v) = IF m >= W \div 2 THEN m - W ELSE m
  BY DEF WirePart!ToInt32, W, m
<1> HIDE DEF m
<1> QED
  BY <1>1, <1>2, <1>3, <1>4, <1>5 DEF W

Septets7 == 0 .. Septet - 1

\* The loop ends, since what is left of a number gets less.
LEMMA GroupsOf ==
  /\ WirePart!Groups \in [Int -> Seq(Septets7)]
  /\ \A v \in Int :
        WirePart!Groups[v] =
          IF v <= 0 THEN <<>>
          ELSE Append(WirePart!Groups[WirePart!ToInt32(v) \div Septet],
                      WirePart!ToInt32(v) % Septet)
<1> DEFINE X == Seq(Septets7)
           next(v) == WirePart!ToInt32(v) \div Septet
           last(v) == WirePart!ToInt32(v) % Septet
           m == [v \in Int |-> IF v <= 0 THEN 0 ELSE v]
           Body(f, v) == IF v <= 0 THEN <<>> ELSE Append(f[next(v)], last(v))
           step == [f \in [Int -> X] |-> [v \in Int |-> Body(f, v)]]
           Good(f) == f = [v \in Int |-> Body(f, v)]
<1>1. ASSUME NEW v \in Int
      PROVE  /\ next(v) \in Int /\ last(v) \in Septets7
             /\ v > 0 => next(v) < v
  <2>1. WirePart!ToInt32(v) \in Int /\ (v >= 0 => WirePart!ToInt32(v) <= v)
    BY Signed
  <2> DEFINE t == WirePart!ToInt32(v)
  <2> HIDE DEF t
  <2>2. t \in Int /\ (v >= 0 => t <= v)
    BY <2>1 DEF t
  <2>3. /\ t \div Septet \in Int /\ t % Septet \in Nat /\ t % Septet < Septet
        /\ t > 0 => t \div Septet < t
        /\ t < 0 => t \div Septet < 0
    BY <2>2, Septets
  <2>5. t = 0 => t \div Septet = 0
    BY WireNumbers, SMTT(30)
  <2>6. t \div Septet \in Int /\ t % Septet \in Septets7 /\ (v > 0 => t \div Septet < v)
    <3> DEFINE q == t \div Septet
               r == t % Septet
    <3>1. /\ q \in Int /\ r \in Nat /\ r < Septet /\ (t > 0 => q < t) /\ (t < 0 => q < 0)
          /\ t = 0 => q = 0
      BY <2>3, <2>5
    <3> HIDE DEF q, r
    <3>2. r \in Septets7
      BY <3>1, WireNumbers DEF Septets7
    <3>3. v > 0 => q < v
      BY <2>2, <3>1
    <3> QED
      BY <3>1, <3>2, <3>3 DEF q, r
  <2> QED
    BY <2>6 DEF t
<1> HIDE DEF next, last
<1>2. step \in [[Int -> X] -> [Int -> X]]
  <2>1. ASSUME NEW f \in [Int -> X], NEW v \in Int PROVE Body(f, v) \in X
    <3>1. f[next(v)] \in Seq(Septets7) /\ last(v) \in Septets7
      BY <1>1
    <3>2. Append(f[next(v)], last(v)) \in Seq(Septets7)
      BY <3>1, AppendProperties
    <3>3. <<>> \in Seq(Septets7)
      OBVIOUS
    <3> QED
      BY <3>2, <3>3
  <2> HIDE DEF X, Body
  <2> QED
    BY <2>1
<1>3. /\ \A u \in Int : m[u] = IF u <= 0 THEN 0 ELSE u
      /\ m \in [Int -> Nat] /\ <<>> \in X
  OBVIOUS
<1>12. ASSUME NEW f \in [Int -> X], NEW v \in Int PROVE step[f][v] = Body(f, v)
  <2> HIDE DEF X, Body
  <2> QED
    OBVIOUS
<1>4. \E f \in [Int -> X] : f = step[f]
  <2> HIDE DEF X, m, step
  <2>1. ASSUME NEW f \in [Int -> X], NEW g \in [Int -> X], NEW v \in Int,
               \A y \in Int : m[y] < m[v] => f[y] = g[y]
        PROVE  step[f][v] = step[g][v]
    <3>1. v > 0 => f[next(v)] = g[next(v)]
      <4> SUFFICES ASSUME v > 0 PROVE f[next(v)] = g[next(v)]
        OBVIOUS
      <4>1. next(v) \in Int /\ next(v) < v
        BY <1>1
      <4>2. m[next(v)] < m[v]
        BY <1>3, <4>1
      <4> QED
        BY <2>1, <4>1, <4>2
    <3>2. Body(f, v) = Body(g, v)
      BY <3>1
    <3> QED
      BY <1>12, <3>2
  <2>2. \A f, g \in [Int -> X], v \in Int :
           (\A y \in Int : m[y] < m[v] => f[y] = g[y]) => step[f][v] = step[g][v]
    BY <2>1
  <2>3. m \in [Int -> Nat] /\ <<>> \in X
    BY <1>3
  <2> DEFINE D == Int
  <2>4. Descends(D, X, m, step)
    BY <1>2, <2>2, <2>3 DEF Descends
  <2> HIDE DEF D
  <2>5. \E f \in [D -> X] : f = step[f]
    BY <2>3, <2>4, MeasureRecursion
  <2> QED
    BY <2>5 DEF D
<1>5. PICK f \in [Int -> X] : f = step[f]
  BY <1>4
<1>6. Good(f)
  <2> HIDE DEF X, Body
  <2> QED
    BY <1>5
<1>7. WirePart!Groups = CHOOSE g : Good(g)
  BY DEF WirePart!Groups, next, last
<1>8. Good(WirePart!Groups)
  <2> HIDE DEF Good
  <2> QED
    BY <1>6, <1>7
<1>9. ASSUME NEW v \in Int PROVE WirePart!Groups[v] \in X
  <2> DEFINE S == {n \in Nat : \A u \in Int : u <= n => WirePart!Groups[u] \in X}
  <2>1. \A u \in Int : WirePart!Groups[u] = IF u <= 0 THEN <<>>
                                          ELSE Append(WirePart!Groups[next(u)], last(u))
    BY <1>8
  <2> HIDE DEF Good
  <2>2. 0 \in S
    <3>1. ASSUME NEW u \in Int, u <= 0 PROVE WirePart!Groups[u] \in X
      <4>1. WirePart!Groups[u] = <<>>
        BY <2>1, <3>1
      <4> QED
        BY <1>3, <4>1
    <3> QED
      BY <3>1
  <2>3. ASSUME NEW n \in Nat, n \in S PROVE n + 1 \in S
    <3>1. ASSUME NEW u \in Int, u = n + 1 PROVE WirePart!Groups[u] \in X
      <4> HIDE DEF m, step
      <4>1. next(u) \in Int /\ next(u) <= n /\ last(u) \in Septets7
        BY <1>1, <3>1
      <4>2. WirePart!Groups[next(u)] \in Seq(Septets7)
        BY <2>3, <4>1
      <4>3. Append(WirePart!Groups[next(u)], last(u)) \in Seq(Septets7)
        BY <4>1, <4>2, AppendProperties
      <4>4. WirePart!Groups[u] = Append(WirePart!Groups[next(u)], last(u))
        <5>1. ~(u <= 0)
          BY <3>1
        <5> QED
          BY <2>1, <5>1
      <4> QED
        BY <4>3, <4>4
    <3> QED
      BY <2>3, <3>1
  <2> HIDE DEF S
  <2>4. \A n \in Nat : n \in S
    BY <2>2, <2>3, SetInduction
  <2>5. \E n \in Nat : v <= n
    <3>1. v <= 0 \/ (v \in Nat /\ v <= v)
      OBVIOUS
    <3> QED
      BY <3>1
  <2> QED
    BY <2>4, <2>5 DEF S
<1>10. WirePart!Groups = [v \in Int |-> WirePart!Groups[v]]
  <2> HIDE DEF Body
  <2> QED
    BY <1>8
<1>11. WirePart!Groups \in [Int -> X]
  BY <1>9, <1>10
<1> QED
  BY <1>8, <1>11 DEF next, last

\* What has been read of an object's octets: the arcs so far, and what there is of
\* the next one.
Reading == [arcs : Seq(Nat), rest : Nat]

\* Reading the octets leads from one to the other.
Reads(from, octets, to) ==
    \E f \in [0 .. Len(octets) -> Reading] :
        /\ f[0] = from /\ f[Len(octets)] = to
        /\ \A k \in 1 .. Len(octets) : f[k] = WirePart!Octet(f[k - 1], octets[k])

LEMMA OctetRead ==
  ASSUME NEW r \in Reading, NEW x \in Nat
  PROVE  /\ WirePart!Octet(r, x) \in Reading
         /\ x < Septet => WirePart!Octet(r, x) = [arcs |-> Append(r.arcs, (r.rest * Septet) + x),
                                                  rest |-> 0]
         /\ x >= Septet => WirePart!Octet(r, x) = [arcs |-> r.arcs,
                                                   rest |-> (r.rest * Septet) + (x - Septet)]
<1>1. r.arcs \in Seq(Nat) /\ r.rest \in Nat /\ r = [arcs |-> r.arcs, rest |-> r.rest]
  BY DEF Reading
<1>2. Septet \in Nat /\ r.rest * Septet \in Nat
  BY <1>1, WireNumbers, SMTT(30)
<1> DEFINE p == r.rest * Septet
<1>3. p \in Nat
  BY <1>2
<1>4. x < Septet \/ x >= Septet
  BY <1>2
<1>5. CASE x < Septet
  <2>1. WirePart!Octet(r, x) = [arcs |-> Append(r.arcs, p + x), rest |-> 0]
    BY <1>5 DEF WirePart!Octet
  <2> HIDE DEF p
  <2>2. Append(r.arcs, p + x) \in Seq(Nat)
    <3>1. p + x \in Nat
      BY <1>3
    <3> QED
      BY <1>1, <3>1, AppendProperties
  <2> QED
    BY <1>2, <1>5, <2>1, <2>2 DEF Reading, p
<1>6. CASE x >= Septet
  <2>1. ~(x < Septet)
    BY <1>2, <1>6
  <2>2. WirePart!Octet(r, x) = [arcs |-> r.arcs, rest |-> p + x - Septet]
    BY <1>1, <2>1 DEF WirePart!Octet
  <2> HIDE DEF p
  <2>3. p + x - Septet = p + (x - Septet) /\ p + (x - Septet) \in Nat
    BY <1>2, <1>3, <1>6
  <2> QED
    BY <1>1, <2>1, <2>2, <2>3 DEF Reading, p
<1> QED
  BY <1>4, <1>5, <1>6

LEMMA ReadsNothing ==
  ASSUME NEW r \in Reading
  PROVE  Reads(r, <<>>, r)
<1> DEFINE f == [k \in 0 .. 0 |-> r]
<1>1. Len(<<>>) = 0
  OBVIOUS
<1>2. f \in [0 .. Len(<<>>) -> Reading] /\ f[0] = r /\ f[Len(<<>>)] = r
  BY <1>1
<1>3. 1 .. Len(<<>>) = {}
  BY <1>1
<1> HIDE DEF f
<1> QED
  BY <1>2, <1>3 DEF Reads

LEMMA ReadsOne ==
  ASSUME NEW r \in Reading, NEW x \in Nat
  PROVE  Reads(r, <<x>>, WirePart!Octet(r, x))
<1> DEFINE o == WirePart!Octet(r, x)
           f == [k \in 0 .. 1 |-> IF k = 0 THEN r ELSE o]
<1>1. o \in Reading
  BY OctetRead
<1> HIDE DEF o
<1>2. Len(<<x>>) = 1 /\ <<x>>[1] = x
  OBVIOUS
<1>3. f \in [0 .. 1 -> Reading] /\ f[0] = r /\ f[1] = o
  BY <1>1
<1>4. \A k \in 1 .. 1 : k = 1 /\ k - 1 = 0
  OBVIOUS
<1> HIDE DEF f
<1>5. \A k \in 1 .. 1 : f[k] = WirePart!Octet(f[k - 1], <<x>>[k])
  BY <1>2, <1>3, <1>4 DEF o
<1> QED
  BY <1>2, <1>3, <1>5 DEF Reads, o

LEMMA ReadsTyped ==
  ASSUME NEW b \in Seq(Nat), NEW r, NEW s, Reads(r, b, s)
  PROVE  r \in Reading /\ s \in Reading
<1>1. Len(b) \in Nat
  OBVIOUS
<1> QED
  BY <1>1 DEF Reads

LEMMA ReadsOn ==
  ASSUME NEW a \in Seq(Nat), NEW b \in Seq(Nat), NEW r, NEW s, NEW t,
         Reads(r, a, s), Reads(s, b, t)
  PROVE  Reads(r, a \o b, t)
<1> DEFINE m == Len(a)
           n == Len(b)
           c == a \o b
<1>1. /\ m \in Nat /\ n \in Nat /\ Len(c) = m + n
      /\ \A k \in 1 .. m + n : c[k] = IF k <= m THEN a[k] ELSE b[k - m]
  BY ConcatProperties
<1> HIDE DEF c
<1>2. PICK f \in [0 .. m -> Reading] :
        f[0] = r /\ f[m] = s /\ \A k \in 1 .. m : f[k] = WirePart!Octet(f[k - 1], a[k])
  BY DEF Reads
<1>3. PICK g \in [0 .. n -> Reading] :
        g[0] = s /\ g[n] = t /\ \A k \in 1 .. n : g[k] = WirePart!Octet(g[k - 1], b[k])
  BY DEF Reads
<1> DEFINE h == [k \in 0 .. m + n |-> IF k <= m THEN f[k] ELSE g[k - m]]
<1> HIDE DEF m, n
<1>4. h \in [0 .. m + n -> Reading]
  <2>1. ASSUME NEW k \in 0 .. m + n
        PROVE  (k <= m => f[k] \in Reading) /\ (~(k <= m) => g[k - m] \in Reading)
    <3>1. k <= m => k \in 0 .. m
      BY <1>1
    <3>2. ~(k <= m) => k - m \in 0 .. n
      BY <1>1
    <3> QED
      BY <1>2, <1>3, <3>1, <3>2
  <2> QED
    BY <2>1
<1>5. h[0] = r /\ h[m + n] = t
  <2>1. 0 \in 0 .. m + n /\ m + n \in 0 .. m + n /\ 0 <= m /\ (m + n <= m => n = 0 /\ m + n = m)
        /\ (m + n) - m = n
    BY <1>1
  <2>2. h[0] = f[0]
    BY <2>1
  <2>5. \A k \in 0 .. m + n : ~(k <= m) => h[k] = g[k - m]
    OBVIOUS
  <2>3. CASE m + n <= m
    <3>1. h[m + n] = f[m + n] /\ m + n = m
      BY <2>1, <2>3
    <3> HIDE DEF h
    <3> QED
      BY <1>2, <1>3, <2>1, <2>2, <2>3, <3>1
  <2>4. CASE ~(m + n <= m)
    <3>1. h[m + n] = g[(m + n) - m]
      <4> HIDE DEF h
      <4> QED
        BY <2>1, <2>4, <2>5
    <3>2. h[m + n] = g[n]
      BY <2>1, <3>1
    <3> HIDE DEF h
    <3> QED
      BY <1>2, <1>3, <2>2, <3>2
  <2> QED
    BY <2>3, <2>4
<1>6. ASSUME NEW k \in 1 .. m + n PROVE h[k] = WirePart!Octet(h[k - 1], c[k])
  <2>1. k \in 0 .. m + n /\ k - 1 \in 0 .. m + n
    BY <1>1
  <2>2. CASE k <= m
    <3>1. k \in 1 .. m /\ k - 1 <= m
      BY <1>1, <2>2
    <3>2. h[k] = f[k] /\ h[k - 1] = f[k - 1] /\ c[k] = a[k]
      BY <1>1, <2>1, <2>2, <3>1
    <3> HIDE DEF h
    <3> QED
      BY <1>2, <3>1, <3>2
  <2>3. CASE ~(k <= m)
    <3>1. k - m \in 1 .. n /\ (k - 1 <= m => k - 1 = m /\ k - m - 1 = 0) /\ k - 1 - m = k - m - 1
      BY <1>1, <2>3
    <3>2. h[k] = g[k - m] /\ c[k] = b[k - m]
      BY <1>1, <2>1, <2>3
    <3>3. h[k - 1] = g[k - m - 1]
      <4>1. CASE k - 1 <= m
        BY <1>2, <1>3, <2>1, <3>1, <4>1
      <4>2. CASE ~(k - 1 <= m)
        BY <2>1, <3>1, <4>2
      <4> QED
        BY <4>1, <4>2
    <3> HIDE DEF h
    <3> QED
      BY <1>3, <3>1, <3>2, <3>3
  <2> QED
    BY <2>2, <2>3
<1> HIDE DEF h
<1> QED
  BY <1>1, <1>4, <1>5, <1>6 DEF Reads, c

\* What a device reads of an object's octets.
NoArc == [arcs |-> <<>>, rest |-> 0]

LEMMA ReadsAll ==
  ASSUME NEW b \in Seq(Nat), NEW t, Reads(NoArc, b, t)
  PROVE  WirePart!Subidentifiers(b) = t.arcs
<1> DEFINE n == Len(b)
           Good(g) == g = [k \in 0 .. n |-> IF k = 0 THEN NoArc
                                            ELSE WirePart!Octet(g[k - 1], b[k])]
           read == CHOOSE g : Good(g)
<1>1. n \in Nat
  OBVIOUS
<1>2. PICK f \in [0 .. n -> Reading] :
        f[0] = NoArc /\ f[n] = t /\ \A k \in 1 .. n : f[k] = WirePart!Octet(f[k - 1], b[k])
  BY DEF Reads
<1>3. WirePart!Subidentifiers(b) = read[n].arcs
  BY DEF WirePart!Subidentifiers, NoArc
<1> HIDE DEF n
<1>4. Good(f)
  <2>1. f = [k \in 0 .. n |-> f[k]]
    BY <1>2
  <2>2. \A k \in 0 .. n : f[k] = IF k = 0 THEN NoArc ELSE WirePart!Octet(f[k - 1], b[k])
    <3>1. \A k \in 0 .. n : k # 0 => k \in 1 .. n
      BY <1>1
    <3> QED
      BY <1>2, <3>1
  <2> QED
    BY <2>1, <2>2
<1>5. Good(read)
  <2> HIDE DEF Good
  <2> QED
    BY <1>4
<1> HIDE DEF read
<1> DEFINE T == {k \in Nat : k <= n => read[k] = f[k]}
<1>6. 0 \in T
  <2>1. 0 \in 0 .. n
    BY <1>1
  <2> QED
    BY <1>2, <1>5, <2>1
<1>7. ASSUME NEW k \in Nat, k \in T PROVE k + 1 \in T
  <2> SUFFICES ASSUME k + 1 <= n PROVE read[k + 1] = f[k + 1]
    OBVIOUS
  <2>1. k + 1 \in 0 .. n /\ k + 1 # 0 /\ k + 1 - 1 = k /\ k + 1 \in 1 .. n /\ k <= n
    BY <1>1
  <2>2. read[k + 1] = WirePart!Octet(read[k], b[k + 1])
    BY <1>5, <2>1
  <2>3. f[k + 1] = WirePart!Octet(f[k], b[k + 1])
    BY <1>2, <2>1
  <2> HIDE DEF Good
  <2>4. read[k] = f[k]
    BY <1>7, <2>1
  <2> QED
    BY <2>2, <2>3, <2>4
<1> HIDE DEF T
<1>8. n \in T
  BY <1>1, <1>6, <1>7, SetInduction
<1> QED
  BY <1>1, <1>2, <1>3, <1>8 DEF T

\* The octets of a group of septets that another follows.
Going(g) == [i \in DOMAIN g |-> g[i] + Septet]

LEMMA GoingOn ==
  ASSUME NEW g \in Seq(Septets7), NEW x \in Septets7
  PROVE  /\ Going(g) \in Seq(Nat) /\ Len(Going(g)) = Len(g)
         /\ Going(Append(g, x)) = Going(g) \o <<x + Septet>>
         /\ [i \in DOMAIN Append(g, x) |->
               IF i = Len(Append(g, x)) THEN Append(g, x)[i] ELSE Append(g, x)[i] + Septet]
              = Going(g) \o <<x>>
<1> DEFINE n == Len(g)
           a == Append(g, x)
<1>1. /\ n \in Nat /\ DOMAIN g = 1 .. n /\ x \in Nat /\ x + Septet \in Nat
      /\ \A i \in 1 .. n : g[i] \in Septets7 /\ g[i] \in Nat /\ g[i] + Septet \in Nat
  <2>1. Septet \in Nat /\ \A s \in Septets7 : s \in Nat /\ s + Septet \in Nat
    BY WireNumbers DEF Septets7
  <2>2. n \in Nat /\ DOMAIN g = 1 .. n /\ \A i \in 1 .. n : g[i] \in Septets7
    BY ElementOfSeq
  <2> QED
    BY <2>1, <2>2
<1>2. /\ a \in Seq(Septets7) /\ Len(a) = n + 1 /\ DOMAIN a = 1 .. n + 1
      /\ a[n + 1] = x /\ \A i \in 1 .. n : a[i] = g[i]
  BY AppendProperties
<1> HIDE DEF a, n
<1>3. Going(g) \in Seq(Nat) /\ Len(Going(g)) = n /\ \A i \in 1 .. n : Going(g)[i] = g[i] + Septet
  <2>1. Going(g) = [i \in 1 .. n |-> g[i] + Septet]
    BY <1>1 DEF Going
  <2> QED
    BY <1>1, <2>1
<1>4. ASSUME NEW y \in Nat
      PROVE  /\ Len(Going(g) \o <<y>>) = n + 1 /\ Going(g) \o <<y>> \in Seq(Nat)
             /\ \A i \in 1 .. n + 1 :
                  (Going(g) \o <<y>>)[i] = IF i = n + 1 THEN y ELSE g[i] + Septet
  <2>1. <<y>> \in Seq(Nat) /\ Len(<<y>>) = 1 /\ <<y>>[1] = y
    OBVIOUS
  <2> DEFINE h == Going(g)
             one == <<y>>
  <2>2. h \in Seq(Nat) /\ Len(h) = n /\ one \in Seq(Nat) /\ Len(one) = 1 /\ one[1] = y
    BY <1>3, <2>1
  <2> HIDE DEF h, one
  <2>3. /\ h \o one \in Seq(Nat) /\ Len(h \o one) = n + 1
        /\ \A i \in 1 .. n + 1 : (h \o one)[i] = IF i <= n THEN h[i] ELSE one[i - n]
    <3>1. /\ h \o one \in Seq(Nat) /\ Len(h \o one) = Len(h) + Len(one)
          /\ \A i \in 1 .. Len(h) + Len(one) :
                (h \o one)[i] = IF i <= Len(h) THEN h[i] ELSE one[i - Len(h)]
      BY <2>2, ConcatProperties
    <3> QED
      BY <2>2, <3>1
  <2>4. ASSUME NEW i \in 1 .. n + 1
        PROVE  (h \o one)[i] = IF i = n + 1 THEN y ELSE g[i] + Septet
    <3>1. CASE i = n + 1
      <4>1. ~(i <= n) /\ i - n = 1
        BY <1>1, <3>1
      <4> QED
        BY <2>2, <2>3, <3>1, <4>1
    <3>2. CASE i # n + 1
      <4>1. i <= n /\ i \in 1 .. n
        BY <1>1, <3>2
      <4> QED
        BY <1>3, <2>3, <3>2, <4>1 DEF h
    <3> QED
      BY <3>1, <3>2
  <2> QED
    BY <2>3, <2>4 DEF h, one
<1>5. \A i \in 1 .. n + 1 : i = n + 1 \/ i \in 1 .. n
  BY <1>1
<1>6. Going(a) = Going(g) \o <<x + Septet>>
  <2> DEFINE c == Going(g) \o <<x + Septet>>
  <2>1. /\ Len(c) = n + 1 /\ c \in Seq(Nat)
        /\ \A i \in 1 .. n + 1 : c[i] = IF i = n + 1 THEN x + Septet ELSE g[i] + Septet
    BY <1>1, <1>4
  <2> HIDE DEF c
  <2>2. c = [i \in 1 .. n + 1 |-> c[i]]
    BY <2>1
  <2>3. \A i \in 1 .. n + 1 : c[i] = a[i] + Septet
    BY <1>2, <1>5, <2>1
  <2> QED
    BY <1>2, <2>2, <2>3 DEF Going, c
<1>7. [i \in DOMAIN a |-> IF i = Len(a) THEN a[i] ELSE a[i] + Septet] = Going(g) \o <<x>>
  <2> DEFINE c == Going(g) \o <<x>>
  <2>1. /\ Len(c) = n + 1 /\ c \in Seq(Nat)
        /\ \A i \in 1 .. n + 1 : c[i] = IF i = n + 1 THEN x ELSE g[i] + Septet
    BY <1>1, <1>4
  <2> HIDE DEF c
  <2>2. c = [i \in 1 .. n + 1 |-> c[i]]
    BY <2>1
  <2>3. \A i \in 1 .. n + 1 : c[i] = IF i = n + 1 THEN a[i] ELSE a[i] + Septet
    BY <1>2, <1>5, <2>1
  <2> QED
    BY <1>2, <2>2, <2>3 DEF c
<1> QED
  BY <1>3, <1>6, <1>7 DEF a, n

\* The value of the groups of a number that & and >> leave as it is.
Left(u) == IF u > 0 THEN u ELSE 0

LEMMA GroupsRead ==
  ASSUME NEW v \in Int, v < WirePart!Word \div 2, NEW r \in Reading
  PROVE  \E w \in Nat :
           /\ Reads(r, Going(WirePart!Groups[v]), [arcs |-> r.arcs, rest |-> w])
           /\ r.rest = 0 => w = Left(v)
<1> DEFINE To(w) == [arcs |-> r.arcs, rest |-> w]
           Read(u) == \E w \in Nat : /\ Reads(r, Going(WirePart!Groups[u]), To(w))
                                     /\ r.rest = 0 => w = Left(u)
           T == {n \in Nat : \A u \in Int : u <= n /\ u < WirePart!Word \div 2 => Read(u)}
<1>1. r.arcs \in Seq(Nat) /\ r.rest \in Nat /\ r = To(r.rest)
  BY DEF Reading
<1>2. \A w \in Nat : To(w) \in Reading
  BY <1>1 DEF Reading
<1>3. ASSUME NEW u \in Int, u <= 0 PROVE Read(u)
  <2>1. WirePart!Groups[u] = <<>>
    BY <1>3, GroupsOf
  <2>2. Going(<<>>) = <<>>
    BY DEF Going
  <2>3. Reads(r, <<>>, r)
    BY ReadsNothing
  <2>4. Left(u) = 0
    BY <1>3 DEF Left
  <2>5. Reads(r, Going(WirePart!Groups[u]), To(r.rest))
    BY <1>1, <2>1, <2>2, <2>3
  <2> HIDE DEF To
  <2> QED
    BY <1>1, <2>4, <2>5
<1>4. ASSUME NEW u \in Int, u > 0, u < WirePart!Word \div 2, Read(u \div Septet)
      PROVE  Read(u)
  <2> DEFINE q == u \div Septet
             x == u % Septet
             g == WirePart!Groups[q]
  <2>1. q \in Int /\ x \in Nat /\ x < Septet /\ u = (q * Septet) + x /\ q >= 0
    BY <1>4, Septets
  <2>2. WirePart!Groups[u] = Append(g, x)
    <3>1. WirePart!ToInt32(u) = u
      BY <1>4, Signed
    <3>2. ~(u <= 0)
      BY <1>4
    <3> QED
      BY <3>1, <3>2, GroupsOf
  <2>3. PICK w \in Nat : Reads(r, Going(g), To(w)) /\ (r.rest = 0 => w = Left(q))
    BY <1>4
  <2> HIDE DEF q, x
  <2>4. g \in Seq(Septets7) /\ x \in Septets7 /\ Septet \in Nat /\ Septet >= 2
    BY <2>1, GroupsOf, WireNumbers DEF Septets7
  <2> HIDE DEF g
  <2>5. Going(WirePart!Groups[u]) = Going(g) \o <<x + Septet>> /\ Going(g) \in Seq(Nat)
    BY <2>2, <2>4, GoingOn
  <2>6. x + Septet \in Nat /\ x + Septet >= Septet /\ (x + Septet) - Septet = x
    BY <2>1, <2>4
  <2>7. /\ Reads(To(w), <<x + Septet>>, WirePart!Octet(To(w), x + Septet))
        /\ WirePart!Octet(To(w), x + Septet) = [arcs |-> To(w).arcs,
             rest |-> (To(w).rest * Septet) + ((x + Septet) - Septet)]
    <3>1. To(w) \in Reading
      BY <1>2
    <3> HIDE DEF To
    <3> QED
      BY <2>6, <3>1, ReadsOne, OctetRead
  <2>8. WirePart!Octet(To(w), x + Septet) = To((w * Septet) + x)
    <3>1. To(w).arcs = r.arcs /\ To(w).rest = w
      OBVIOUS
    <3>2. WirePart!Octet(To(w), x + Septet) = [arcs |-> r.arcs, rest |-> (w * Septet) + x]
      <4> HIDE DEF To
      <4> QED
        BY <2>6, <2>7, <3>1, Zenon
    <3> QED
      BY <3>2
  <2>9. Reads(r, Going(g) \o <<x + Septet>>, To((w * Septet) + x))
    <3>1. <<x + Septet>> \in Seq(Nat)
      BY <2>6
    <3> HIDE DEF To
    <3> QED
      BY <2>3, <2>5, <2>7, <2>8, <3>1, ReadsOn
  <2>10. (w * Septet) + x \in Nat /\ (r.rest = 0 => (w * Septet) + x = Left(u))
    <3>1. w * Septet \in Nat
      BY <2>4, SMTT(30)
    <3>2. (w * Septet) + x \in Nat
      BY <2>1, <3>1
    <3>3. r.rest = 0 => (w * Septet) + x = Left(u)
      <4> SUFFICES ASSUME r.rest = 0 PROVE (w * Septet) + x = Left(u)
        OBVIOUS
      <4>1. w = q
        BY <2>1, <2>3 DEF Left
      <4>2. Left(u) = u
        BY <1>4 DEF Left
      <4> QED
        BY <2>1, <4>1, <4>2
    <3> QED
      BY <3>2, <3>3
  <2> HIDE DEF To
  <2> QED
    BY <2>5, <2>9, <2>10
<1> HIDE DEF Read
<1>5. 0 \in T
  BY <1>3
<1>6. ASSUME NEW n \in Nat, n \in T PROVE n + 1 \in T
  <2>1. ASSUME NEW u \in Int, u = n + 1, u < WirePart!Word \div 2 PROVE Read(u)
    <3>1. /\ u > 0 /\ u \div Septet \in Int /\ u \div Septet < u
          /\ WirePart!Word \div 2 \in Nat
      BY <2>1, Septets, WireNumbers
    <3> DEFINE q == u \div Septet
    <3> HIDE DEF q
    <3>2. q \in Int /\ q <= n /\ q < WirePart!Word \div 2
      BY <2>1, <3>1 DEF q
    <3>3. Read(q)
      BY <1>6, <3>2
    <3> QED
      BY <1>4, <2>1, <3>1, <3>3 DEF q
  <2>2. \A u \in Int : u <= n + 1 => u <= n \/ u = n + 1
    OBVIOUS
  <2> QED
    BY <1>6, <2>1, <2>2
<1> HIDE DEF T
<1>7. \A n \in Nat : n \in T
  BY <1>5, <1>6, SetInduction
<1>8. Read(v)
  <2>1. CASE v <= 0
    BY <1>3, <2>1
  <2>2. CASE ~(v <= 0)
    <3>1. v \in Nat /\ v <= v
      BY <2>2
    <3>2. v \in T
      BY <1>7, <3>1
    <3> QED
      BY <3>1, <3>2 DEF T
  <2> QED
    BY <2>1, <2>2
<1> QED
  BY <1>8 DEF Read

\* The octets of an arc end it, and tell it if & and >> leave it as it is.
LEMMA ArcRead ==
  ASSUME NEW v \in Nat, NEW r \in Reading
  PROVE  /\ WirePart!Arc(v) \in Seq(Nat)
         /\ \E w \in Nat :
              /\ Reads(r, WirePart!Arc(v), [arcs |-> Append(r.arcs, w), rest |-> 0])
              /\ r.rest = 0 => (w = v) = (v < WirePart!Word \div 2)
<1> DEFINE H == WirePart!Word \div 2
           End(w) == [arcs |-> Append(r.arcs, w), rest |-> 0]
<1>1. Septet \in Nat /\ Septet >= 2 /\ H \in Nat /\ H >= Septet
  BY WireNumbers
<1>2. CASE v < Septet
  <2>1. WirePart!Arc(v) = <<v>>
    BY <1>2 DEF WirePart!Arc
  <2>2. Reads(r, <<v>>, WirePart!Octet(r, v))
    BY ReadsOne
  <2>3. WirePart!Octet(r, v) = End((r.rest * Septet) + v)
    BY <1>2, OctetRead
  <2>4. /\ (r.rest * Septet) + v \in Nat /\ (r.rest = 0 => (r.rest * Septet) + v = v)
        /\ v < H
    <3>1. r.rest \in Nat
      BY DEF Reading
    <3>2. r.rest * Septet \in Nat /\ (r.rest = 0 => r.rest * Septet = 0)
      BY <1>1, <3>1, SMTT(30)
    <3> HIDE DEF H
    <3> QED
      BY <1>1, <1>2, <3>2
  <2>5. <<v>> \in Seq(Nat)
    OBVIOUS
  <2> HIDE DEF End, H
  <2>6. Reads(r, WirePart!Arc(v), End((r.rest * Septet) + v))
    BY <2>1, <2>2, <2>3
  <2>7. \E w \in Nat : Reads(r, WirePart!Arc(v), End(w)) /\ (r.rest = 0 => (w = v) = (v < H))
    BY <2>4, <2>6
  <2> QED
    BY <2>1, <2>5, <2>7 DEF End, H
<1>3. CASE ~(v < Septet)
  <2> DEFINE t == WirePart!ToInt32(v)
             q == t \div Septet
             x == t % Septet
             g == WirePart!Groups[q]
  <2>1. t \in Int /\ t < H /\ (v < H => t = v)
    BY Signed
  <2>2. WirePart!Groups[v] = Append(g, x)
    <3>1. ~(v <= 0) /\ v \in Int
      BY <1>1, <1>3
    <3>2. WirePart!Groups[v] = Append(WirePart!Groups[WirePart!ToInt32(v) \div Septet],
                                      WirePart!ToInt32(v) % Septet)
      BY <3>1, GroupsOf
    <3> QED
      BY <3>2
  <2>3. WirePart!Arc(v) = [i \in DOMAIN Append(g, x) |->
                             IF i = Len(Append(g, x)) THEN Append(g, x)[i]
                             ELSE Append(g, x)[i] + Septet]
    BY <1>3, <2>2 DEF WirePart!Arc
  <2> HIDE DEF t, H
  <2>4. /\ q \in Int /\ x \in Nat /\ x < Septet /\ t = (q * Septet) + x
        /\ t < 0 => q < 0
        /\ t >= 0 => q >= 0
        /\ t > 0 => q < t
    BY <2>1, Septets
  <2> HIDE DEF q, x
  <2>5. g \in Seq(Septets7) /\ x \in Septets7
    BY <1>1, <2>4, GroupsOf DEF Septets7
  <2> HIDE DEF g
  <2>6. WirePart!Arc(v) = Going(g) \o <<x>> /\ Going(g) \in Seq(Nat)
    BY <2>3, <2>5, GoingOn
  <2>7. q < H
    <3>1. t = 0 => q <= 0
      <4> SUFFICES ASSUME t = 0, q >= 1 PROVE FALSE
        BY <2>4
      <4> DEFINE p == q * Septet
      <4>1. p >= 1 /\ p \in Int
        BY <1>1, <2>4, SMTT(30)
      <4>2. t = p + x
        BY <2>4
      <4> HIDE DEF p
      <4> QED
        BY <2>4, <4>1, <4>2
    <3> QED
      BY <1>1, <2>1, <2>4, <3>1
  <2>8. PICK u \in Nat : /\ Reads(r, Going(g), [arcs |-> r.arcs, rest |-> u])
                         /\ r.rest = 0 => u = Left(q)
    BY <2>4, <2>7, GroupsRead DEF g, H
  <2> DEFINE mid == [arcs |-> r.arcs, rest |-> u]
  <2>9. mid \in Reading /\ mid.arcs = r.arcs /\ mid.rest = u
    BY <2>6, <2>8, ReadsTyped
  <2> HIDE DEF mid
  <2>10. Reads(mid, <<x>>, WirePart!Octet(mid, x))
    BY <2>4, <2>9, ReadsOne
  <2>11. WirePart!Octet(mid, x) = End((u * Septet) + x)
    BY <2>4, <2>9, OctetRead
  <2>12. Reads(r, WirePart!Arc(v), End((u * Septet) + x))
    <3>1. <<x>> \in Seq(Nat)
      BY <2>4
    <3>2. Reads(r, Going(g), mid)
      BY <2>8 DEF mid
    <3> HIDE DEF End
    <3> QED
      BY <2>6, <2>10, <2>11, <3>1, <3>2, ReadsOn
  <2>13. (u * Septet) + x \in Nat
    <3>1. u * Septet \in Nat
      BY <1>1, SMTT(30)
    <3> QED
      BY <2>4, <3>1
  <2>14. ASSUME r.rest = 0 PROVE ((u * Septet) + x = v) = (v < H)
    <3>1. u = Left(q)
      BY <2>8, <2>14
    <3>2. CASE q >= 0
      <4>1. u = q
        BY <2>4, <3>1, <3>2 DEF Left
      <4>2. (u * Septet) + x = t
        BY <2>4, <4>1
      <4> QED
        BY <1>1, <2>1, <4>2
    <3>3. CASE ~(q >= 0)
      <4>1. u = 0 /\ ~(t >= 0)
        BY <2>1, <2>4, <3>1, <3>3 DEF Left
      <4>2. u * Septet = 0
        BY <1>1, <4>1, SMTT(30)
      <4>3. (u * Septet) + x # v
        BY <1>1, <1>3, <2>4, <4>2
      <4>4. ~(v < H)
        BY <2>1, <4>1
      <4> QED
        BY <4>3, <4>4
    <3> QED
      BY <3>2, <3>3
  <2>15. Going(g) \o <<x>> \in Seq(Nat)
    <3>1. <<x>> \in Seq(Nat)
      BY <2>4
    <3> QED
      BY <2>6, <3>1, ConcatProperties
  <2> HIDE DEF End
  <2>16. \E w \in Nat : Reads(r, WirePart!Arc(v), End(w)) /\ (r.rest = 0 => (w = v) = (v < H))
    BY <2>12, <2>13, <2>14
  <2> QED
    BY <2>6, <2>15, <2>16 DEF End, H
<1> QED
  BY <1>2, <1>3

\* The octet of the first two arcs.
Pair(oid) == (Root * oid[1] + oid[2]) % WirePart!Byte

LEMMA EncodedBy ==
  ASSUME NEW oid, ObjectId(oid)
  PROVE  LET n == Len(oid) - 2 IN
         \E f \in [0 .. n -> Seq(Nat)] :
            /\ f[0] = <<Pair(oid)>> /\ WirePart!encodeOid(oid) = f[n]
            /\ \A k \in 1 .. n : f[k] = f[k - 1] \o WirePart!Arc(oid[k + 2])
<1> DEFINE n == Len(oid) - 2
           A == Seq(Nat)
           step == [p \in A \X (1 .. n) |-> p[1] \o WirePart!Arc(oid[p[2] + 2])]
           Good(g) == g = [k \in 0 .. n |-> IF k = 0 THEN <<(Root * oid[1] + oid[2]) % WirePart!Byte>>
                                            ELSE g[k - 1] \o WirePart!Arc(oid[k + 2])]
           octets == CHOOSE g : Good(g)
<1>1. n \in Nat /\ oid \in Seq(Nat) /\ Len(oid) = n + 2 /\ \A i \in 1 .. n + 2 : oid[i] \in Nat
  BY DEF ObjectId
<1>2. Pair(oid) \in Nat
  <2>1. oid[1] \in Nat /\ oid[2] \in Nat /\ Root \in Nat
    BY <1>1, WireNumbers
  <2>2. Root * oid[1] \in Nat
    BY <2>1, SMTT(30)
  <2> DEFINE y == Root * oid[1] + oid[2]
             B == WirePart!Byte
  <2>3. y \in Nat /\ B \in Nat /\ B > 0
    BY <2>1, <2>2, WireNumbers
  <2> HIDE DEF y, B
  <2>4. y % B \in Nat
    BY <2>3, SMTT(30)
  <2> QED
    BY <2>4 DEF Pair, y, B
<1>3. WirePart!encodeOid(oid) = octets[n]
  BY DEF WirePart!encodeOid
<1>4. ASSUME NEW k \in 1 .. n PROVE WirePart!Arc(oid[k + 2]) \in Seq(Nat)
  <2>1. oid[k + 2] \in Nat
    BY <1>1
  <2>2. NoArc \in Reading
    BY DEF NoArc, Reading
  <2> QED
    BY <2>1, <2>2, ArcRead
<1> HIDE DEF n
<1>5. ASSUME NEW s \in A, NEW k \in 1 .. n PROVE s \o WirePart!Arc(oid[k + 2]) \in A
  BY <1>4, ConcatProperties
<1>6. step \in [A \X (1 .. n) -> A]
  <2> HIDE DEF A
  <2> QED
    BY <1>5
<1>7. <<Pair(oid)>> \in A
  BY <1>2
<1>8. PICK f : /\ f \in [0 .. n -> A] /\ f[0] = <<Pair(oid)>>
               /\ \A k \in 1 .. n : f[k] = step[<<f[k - 1], k>>]
  <2>1. \E f : BuiltBy(A, <<Pair(oid)>>, n, step, f)
    <3> HIDE DEF A, step
    <3> QED
      BY <1>1, <1>6, <1>7, Recursion
  <2> QED
    BY <2>1 DEF BuiltBy
<1>9. ASSUME NEW k \in 1 .. n PROVE f[k] = f[k - 1] \o WirePart!Arc(oid[k + 2])
  <2> HIDE DEF A
  <2>1. k - 1 \in 0 .. n
    BY <1>1
  <2>2. <<f[k - 1], k>> \in A \X (1 .. n)
    BY <1>8, <2>1
  <2>3. step[<<f[k - 1], k>>] = f[k - 1] \o WirePart!Arc(oid[k + 2])
    BY <2>2
  <2> QED
    BY <1>8, <2>3
<1> HIDE DEF step, A
<1>10. Good(f)
  <2>1. DOMAIN f = 0 .. n /\ f = [k \in 0 .. n |-> f[k]]
    BY <1>8
  <2>2. ASSUME NEW k \in 0 .. n
        PROVE  f[k] = IF k = 0 THEN <<Pair(oid)>> ELSE f[k - 1] \o WirePart!Arc(oid[k + 2])
    <3>1. k = 0 \/ k \in 1 .. n
      BY <1>1
    <3>2. CASE k = 0
      BY <1>8, <3>2
    <3>3. CASE k # 0
      <4>1. k \in 1 .. n
        BY <3>1, <3>3
      <4> QED
        BY <1>9, <3>3, <4>1
    <3> QED
      BY <3>2, <3>3
  <2>3. f = [k \in 0 .. n |-> IF k = 0 THEN <<Pair(oid)>>
                              ELSE f[k - 1] \o WirePart!Arc(oid[k + 2])]
    BY <2>1, <2>2
  <2> QED
    BY <2>3 DEF Pair
<1>11. Good(octets)
  <2> HIDE DEF Good
  <2> QED
    BY <1>10
<1> HIDE DEF octets
<1> DEFINE T == {k \in Nat : k <= n => octets[k] = f[k]}
<1>12. \A k \in 0 .. n : octets[k] = IF k = 0 THEN <<Pair(oid)>>
                                     ELSE octets[k - 1] \o WirePart!Arc(oid[k + 2])
  BY <1>11 DEF Pair
<1> HIDE DEF Good
<1>13. 0 \in T
  <2>1. 0 \in 0 .. n
    BY <1>1
  <2> QED
    BY <1>8, <1>12, <2>1
<1>14. ASSUME NEW k \in Nat, k \in T PROVE k + 1 \in T
  <2> SUFFICES ASSUME k + 1 <= n PROVE octets[k + 1] = f[k + 1]
    OBVIOUS
  <2>1. k + 1 \in 0 .. n /\ k + 1 # 0 /\ (k + 1) - 1 = k /\ k + 1 \in 1 .. n /\ k <= n
    BY <1>1
  <2>2. octets[k + 1] = octets[(k + 1) - 1] \o WirePart!Arc(oid[(k + 1) + 2])
    BY <1>12, <2>1
  <2>3. f[k + 1] = f[(k + 1) - 1] \o WirePart!Arc(oid[(k + 1) + 2])
    BY <1>9, <2>1
  <2>4. octets[k] = f[k]
    BY <1>14, <2>1
  <2> QED
    BY <2>1, <2>2, <2>3, <2>4
<1> HIDE DEF T
<1>15. octets[n] = f[n]
  <2>1. n \in T
    BY <1>1, <1>13, <1>14, SetInduction
  <2> QED
    BY <1>1, <2>1 DEF T
<1>16. \E g \in [0 .. n -> Seq(Nat)] :
          /\ g[0] = <<Pair(oid)>> /\ WirePart!encodeOid(oid) = g[n]
          /\ \A k \in 1 .. n : g[k] = g[k - 1] \o WirePart!Arc(oid[k + 2])
  BY <1>3, <1>8, <1>9, <1>15 DEF A
<1> QED
  BY <1>16 DEF n

\* Of k more arcs as many subidentifiers are read, each the arc if & and >> leave
\* it as it is; the first two are one before them, if they fit in half an octet.
LEMMA EncodedReads ==
  ASSUME NEW oid, ObjectId(oid)
  PROVE  LET n == Len(oid) - 2
             s == WirePart!Subidentifiers(WirePart!encodeOid(oid))
         IN  /\ WirePart!encodeOid(oid) \in Seq(Nat) /\ s \in Seq(Nat)
             /\ Pair(oid) >= Septet => Len(s) = n
             /\ Pair(oid) < Septet =>
                  /\ Len(s) = n + 1 /\ s[1] = Pair(oid)
                  /\ \A i \in 1 .. n :
                       (s[i + 1] = oid[i + 2]) = (oid[i + 2] < WirePart!Word \div 2)
<1> DEFINE n == Len(oid) - 2
           a == Pair(oid)
           H == WirePart!Word \div 2
<1>1. n \in Nat /\ oid \in Seq(Nat) /\ Len(oid) = n + 2 /\ \A i \in 1 .. n + 2 : oid[i] \in Nat
  BY DEF ObjectId
<1>2. PICK f \in [0 .. n -> Seq(Nat)] :
        /\ f[0] = <<a>> /\ WirePart!encodeOid(oid) = f[n]
        /\ \A k \in 1 .. n : f[k] = f[k - 1] \o WirePart!Arc(oid[k + 2])
  BY EncodedBy
<1>3. a \in Nat /\ Septet \in Nat /\ NoArc \in Reading
  <2>1. 0 \in 0 .. n
    BY <1>1
  <2> HIDE DEF a, n
  <2>2. <<a>> \in Seq(Nat)
    BY <1>2, <2>1
  <2>3. a \in Nat
    <3> DEFINE one == <<a>>
    <3>1. one[1] = a /\ 1 \in 1 .. Len(one)
      OBVIOUS
    <3>2. one \in Seq(Nat)
      BY <2>2
    <3> HIDE DEF one
    <3>3. one[1] \in Nat
      BY <3>1, <3>2, ElementOfSeq
    <3> QED
      BY <3>1, <3>3
  <2> QED
    BY <2>3, WireNumbers DEF NoArc, Reading
<1> DEFINE Half(k, t) == /\ Len(t.arcs) = k + 1 /\ t.arcs[1] = a /\ t.rest = 0
                         /\ \A i \in 1 .. k : (t.arcs[i + 1] = oid[i + 2]) = (oid[i + 2] < H)
           Told1(k) == \E t \in Reading : /\ Reads(NoArc, f[k], t)
                                          /\ a >= Septet => Len(t.arcs) = k
                                          /\ a < Septet => Half(k, t)
           T == {k \in Nat : k <= n => Told1(k)}
<1> HIDE DEF n, a, H
<1>4. 0 \in T
  <2> DEFINE t == WirePart!Octet(NoArc, a)
  <2>1. Reads(NoArc, <<a>>, t) /\ t \in Reading
    BY <1>3, ReadsOne, OctetRead
  <2>2. NoArc.arcs = <<>> /\ NoArc.rest = 0 /\ (NoArc.rest * Septet) + a = a
    <3>1. NoArc.arcs = <<>> /\ NoArc.rest = 0
      BY DEF NoArc
    <3> QED
      BY <1>3, <3>1, SMTT(30)
  <2>3. a < Septet => t = [arcs |-> Append(<<>>, a), rest |-> 0]
    BY <1>3, <2>2, OctetRead
  <2>4. a >= Septet => t.arcs = <<>>
    <3>1. a >= Septet => t = [arcs |-> NoArc.arcs, rest |-> (NoArc.rest * Septet) + (a - Septet)]
      BY <1>3, OctetRead
    <3> HIDE DEF t
    <3> QED
      BY <2>2, <3>1
  <2> HIDE DEF t
  <2>5. Append(<<>>, a) = <<a>> /\ Len(<<a>>) = 1 /\ <<a>>[1] = a /\ Len(<<>>) = 0 /\ 1 .. 0 = {}
    BY <1>3
  <2>6. a < Septet => Half(0, t)
    BY <2>3, <2>5
  <2>7. a >= Septet => Len(t.arcs) = 0
    BY <2>4, <2>5
  <2>8. Told1(0)
    <3> HIDE DEF Half
    <3> QED
      BY <1>2, <2>1, <2>6, <2>7
  <2> HIDE DEF Told1
  <2> QED
    BY <2>8
<1>5. ASSUME NEW k \in Nat, k \in T PROVE k + 1 \in T
  <2> SUFFICES ASSUME k + 1 <= n PROVE Told1(k + 1)
    OBVIOUS
  <2> DEFINE v == oid[k + 3]
  <2>1. v \in Nat /\ k \in 0 .. n /\ k + 1 \in 1 .. n /\ k <= n /\ (k + 1) - 1 = k
        /\ (k + 1) + 2 = k + 3
    BY <1>1
  <2>2. f[k + 1] = f[k] \o WirePart!Arc(v) /\ f[k] \in Seq(Nat)
    <3>1. f[k + 1] = f[(k + 1) - 1] \o WirePart!Arc(oid[(k + 1) + 2])
      BY <1>2, <2>1
    <3> QED
      BY <1>2, <2>1, <3>1
  <2>3. PICK t \in Reading : /\ Reads(NoArc, f[k], t)
                             /\ a >= Septet => Len(t.arcs) = k
                             /\ a < Septet => Half(k, t)
    BY <1>5, <2>1
  <2> HIDE DEF v
  <2>4. PICK w \in Nat : /\ Reads(t, WirePart!Arc(v), [arcs |-> Append(t.arcs, w), rest |-> 0])
                         /\ t.rest = 0 => (w = v) = (v < H)
    BY <2>1, ArcRead DEF H
  <2>5. WirePart!Arc(v) \in Seq(Nat)
    BY <2>1, <2>3, ArcRead
  <2> DEFINE u == [arcs |-> Append(t.arcs, w), rest |-> 0]
  <2>6. t.arcs \in Seq(Nat)
    BY DEF Reading
  <2>7. /\ u.arcs \in Seq(Nat) /\ Len(u.arcs) = Len(t.arcs) + 1 /\ u.rest = 0
        /\ u.arcs[Len(t.arcs) + 1] = w
        /\ \A i \in 1 .. Len(t.arcs) : u.arcs[i] = t.arcs[i]
    BY <2>6, AppendProperties
  <2>8. u \in Reading /\ Reads(NoArc, f[k + 1], u)
    <3>1. u \in Reading
      BY <2>7 DEF Reading
    <3>2. Reads(t, WirePart!Arc(v), u)
      BY <2>4
    <3> HIDE DEF u
    <3> QED
      BY <2>2, <2>3, <2>5, <3>1, <3>2, ReadsOn
  <2> HIDE DEF u
  <2>9. a >= Septet => Len(u.arcs) = k + 1
    BY <2>3, <2>7
  <2>10. ASSUME a < Septet PROVE Half(k + 1, u)
    <3>1. /\ Len(t.arcs) = k + 1 /\ t.arcs[1] = a /\ t.rest = 0
          /\ \A i \in 1 .. k : (t.arcs[i + 1] = oid[i + 2]) = (oid[i + 2] < H)
      BY <2>3, <2>10
    <3>2. Len(u.arcs) = (k + 1) + 1 /\ u.arcs[1] = a /\ u.rest = 0
      <4>1. 1 \in 1 .. k + 1
        OBVIOUS
      <4> QED
        BY <2>7, <3>1, <4>1
    <3>3. ASSUME NEW i \in 1 .. k + 1
          PROVE  (u.arcs[i + 1] = oid[i + 2]) = (oid[i + 2] < H)
      <4>1. CASE i = k + 1
        <5>1. i + 1 = (k + 1) + 1 /\ i + 2 = k + 3
          BY <4>1
        <5>2. u.arcs[i + 1] = w
          BY <2>7, <3>1, <5>1
        <5>3. oid[i + 2] = v
          BY <5>1 DEF v
        <5> QED
          BY <2>4, <3>1, <5>2, <5>3
      <4>2. CASE i # k + 1
        <5>1. i \in 1 .. k /\ i + 1 \in 1 .. k + 1
          BY <4>2
        <5>2. u.arcs[i + 1] = t.arcs[i + 1]
          BY <2>7, <3>1, <5>1
        <5> QED
          BY <3>1, <5>1, <5>2
      <4> QED
        BY <4>1, <4>2
    <3> QED
      BY <3>2, <3>3
  <2> HIDE DEF Half
  <2> QED
    BY <2>8, <2>9, <2>10
<1> HIDE DEF T, Told1
<1>6. Told1(n)
  <2>1. n \in T
    BY <1>1, <1>4, <1>5, SetInduction
  <2> QED
    BY <1>1, <2>1 DEF T
<1>7. PICK t \in Reading : /\ Reads(NoArc, f[n], t)
                           /\ a >= Septet => Len(t.arcs) = n
                           /\ a < Septet => Half(n, t)
  BY <1>6 DEF Told1
<1>8. f[n] \in Seq(Nat)
  BY <1>1, <1>2
<1>9. WirePart!Subidentifiers(f[n]) = t.arcs
  BY <1>7, <1>8, ReadsAll
<1>10. t.arcs \in Seq(Nat)
  BY DEF Reading
<1> QED
  BY <1>2, <1>7, <1>8, <1>9, <1>10 DEF n, a, H

\* What a device takes the first number read for.
First(x) == IF x >= 2 * Root THEN 2 ELSE x \div Root

LEMMA PairRead ==
  ASSUME NEW a \in 0 .. 2, NEW b \in Nat, a < 2 => b < Root,
         (Root * a + b) % WirePart!Byte < Septet
  PROVE  LET x == (Root * a + b) % WirePart!Byte
         IN  (First(x) = a /\ x - (Root * First(x)) = b) = (Root * a + b < Septet)
<1> DEFINE y == Root * a + b
           x == y % WirePart!Byte
           c == First(x)
<1>1. /\ Septet \in Nat /\ Septet >= 2 /\ Root \in Nat /\ Root >= 1
      /\ WirePart!Byte = 2 * Septet /\ WirePart!Byte \in Nat /\ WirePart!Byte > 0
  BY WireNumbers
<1>2. y \in Nat /\ (a = 0 => y = b) /\ (a = 1 => y = Root + b) /\ (a = 2 => y = 2 * Root + b)
  <2>1. a = 0 \/ a = 1 \/ a = 2
    OBVIOUS
  <2>2. Root * 0 = 0 /\ Root * 1 = Root /\ Root * 2 = 2 * Root
    BY <1>1
  <2> QED
    BY <1>1, <2>1, <2>2
<1> HIDE DEF y
<1>3. x \in Nat /\ x < WirePart!Byte /\ (y < WirePart!Byte => x = y)
  <2> DEFINE B == WirePart!Byte
  <2>1. B \in Nat /\ B > 0
    BY <1>1
  <2> HIDE DEF B
  <2>2. y % B \in Nat /\ y % B < B /\ (y < B => y % B = y)
    BY <1>2, <2>1, SMTT(30)
  <2> QED
    BY <2>2 DEF B
<1>4. x < Septet
  BY DEF y
<1> HIDE DEF x
<1>5. CASE y < Septet
  <2>1. x = y
    BY <1>1, <1>2, <1>3, <1>5
  <2>2. c = a /\ x - (Root * c) = b
    <3>1. CASE a = 2
      <4>1. x >= 2 * Root /\ x = 2 * Root + b
        BY <1>1, <1>2, <2>1, <3>1
      <4>2. c = 2
        BY <4>1 DEF First
      <4>3. Root * 2 = 2 * Root
        BY <1>1
      <4> QED
        BY <1>1, <3>1, <4>1, <4>2, <4>3
    <3>2. CASE a = 1
      <4>1. x = Root + b /\ ~(x >= 2 * Root)
        BY <1>1, <1>2, <2>1, <3>2
      <4>2. (Root + b) \div Root = 1
        BY <1>1, <3>2, SMTT(30)
      <4>3. c = 1
        BY <4>1, <4>2 DEF First
      <4>4. Root * 1 = Root
        BY <1>1
      <4> QED
        BY <1>1, <3>2, <4>1, <4>3, <4>4
    <3>3. CASE a = 0
      <4>1. x = b /\ ~(x >= 2 * Root)
        BY <1>1, <1>2, <2>1, <3>3
      <4>2. b \div Root = 0
        BY <1>1, <3>3, SMTT(30)
      <4>3. c = 0
        BY <4>1, <4>2 DEF First
      <4>4. Root * 0 = 0
        BY <1>1
      <4> QED
        BY <1>1, <3>3, <4>1, <4>3, <4>4
    <3> QED
      BY <3>1, <3>2, <3>3
  <2> QED
    BY <1>5, <2>2 DEF x, y
<1>6. CASE ~(y < Septet)
  <2>1. x # y
    BY <1>2, <1>4, <1>6
  <2>2. ASSUME c = a, x - (Root * c) = b PROVE FALSE
    <3>1. Root * c = Root * a /\ Root * a \in Nat
      BY <1>1, <2>2, SMTT(30)
    <3>2. x = (Root * a) + b
      BY <1>3, <2>2, <3>1
    <3> QED
      BY <2>1, <3>2 DEF y
  <2> QED
    BY <1>6, <2>2 DEF x, y
<1> QED
  BY <1>5, <1>6

\* What a device reads of an object's octets is the object, if it is encodable.
LEMMA ObjectRead ==
  ASSUME NEW oid, ObjectId(oid)
  PROVE  LET s == WirePart!Subidentifiers(WirePart!encodeOid(oid))
             read == IF s = <<>> THEN <<>>
                     ELSE <<First(s[1]), s[1] - Root * First(s[1])>> \o Tail(s)
         IN  (read = oid) = WirePart!Encodable(oid)
<1> DEFINE n == Len(oid) - 2
           a == Pair(oid)
           H == WirePart!Word \div 2
           s == WirePart!Subidentifiers(WirePart!encodeOid(oid))
           two == <<First(s[1]), s[1] - Root * First(s[1])>>
           read == IF s = <<>> THEN <<>> ELSE two \o Tail(s)
           y == Root * oid[1] + oid[2]
<1>1. /\ n \in Nat /\ oid \in Seq(Nat) /\ Len(oid) = n + 2 /\ \A i \in 1 .. n + 2 : oid[i] \in Nat
      /\ oid[1] \in 0 .. 2 /\ (oid[1] < 2 => oid[2] < Root)
  BY DEF ObjectId
<1>2. /\ s \in Seq(Nat)
      /\ a >= Septet => Len(s) = n
      /\ a < Septet => /\ Len(s) = n + 1 /\ s[1] = a
                       /\ \A i \in 1 .. n : (s[i + 1] = oid[i + 2]) = (oid[i + 2] < H)
  BY EncodedReads
<1> HIDE DEF s
<1>3. Septet \in Nat /\ WirePart!Byte = 2 * Septet /\ y \in Nat /\ a = y % WirePart!Byte /\ a \in Nat
      /\ (y < Septet => a = y)
  <2>1. Septet \in Nat /\ WirePart!Byte = 2 * Septet /\ Septet >= 2 /\ Root \in Nat
    BY WireNumbers
  <2>2. 1 \in 1 .. n + 2 /\ 2 \in 1 .. n + 2
    BY <1>1
  <2>3. oid[1] \in Nat /\ oid[2] \in Nat
    BY <1>1, <2>2
  <2>4. Root * oid[1] \in Nat
    BY <2>1, <2>3, SMTT(30)
  <2>5. y \in Nat
    BY <2>3, <2>4
  <2>6. a = y % WirePart!Byte
    BY DEF Pair
  <2> HIDE DEF y, a
  <2> DEFINE B == WirePart!Byte
  <2>7. B \in Nat /\ B > Septet
    BY <2>1
  <2> HIDE DEF B
  <2>8. y % B \in Nat /\ (y < Septet => y % B = y)
    BY <2>1, <2>5, <2>7, SMTT(30)
  <2> QED
    BY <2>1, <2>5, <2>6, <2>8 DEF B
<1>4. Len(s) \in Nat /\ (s # <<>> => /\ Tail(s) \in Seq(Nat) /\ Len(Tail(s)) = Len(s) - 1
                                     /\ \A i \in 1 .. Len(s) - 1 : Tail(s)[i] = s[i + 1])
  BY <1>2, HeadTailProperties
<1> HIDE DEF n, a, H, y
<1>5. CASE a >= Septet
  <2>1. ~(y < Septet)
    BY <1>3, <1>5
  <2>2. ~WirePart!Encodable(oid)
    BY <2>1 DEF WirePart!Encodable, y
  <2>3. read # oid
    <3>1. CASE s = <<>>
      <4>1. Len(oid) # 0 /\ Len(<<>>) = 0
        BY <1>1
      <4> QED
        BY <3>1, <4>1
    <3>2. CASE s # <<>>
      <4>1. Len(Tail(s)) = n - 1 /\ Tail(s) \in Seq(Nat)
        BY <1>2, <1>4, <1>5, <3>2
      <4> DEFINE rest == Tail(s)
      <4>2. rest \in Seq(Nat) /\ Len(rest) = n - 1
        BY <4>1
      <4> HIDE DEF rest
      <4>3. Len(two) = 2
        OBVIOUS
      <4>4. Len(two \o rest) = Len(two) + Len(rest)
        <5>1. two \in Seq({First(s[1]), s[1] - Root * First(s[1])}) /\ rest \in Seq(Nat)
          BY <4>2
        <5> HIDE DEF two
        <5> QED
          BY <5>1, LenProperties
      <4> HIDE DEF two
      <4>5. Len(two \o rest) # Len(oid)
        BY <1>1, <4>2, <4>3, <4>4
      <4>6. read = two \o rest
        BY <3>2 DEF rest
      <4> QED
        BY <4>5, <4>6
    <3> QED
      BY <3>1, <3>2
  <2>4. WirePart!Encodable(oid) \in BOOLEAN
    BY DEF WirePart!Encodable
  <2>5. (read = oid) = WirePart!Encodable(oid)
    <3> HIDE DEF read
    <3> QED
      BY <2>2, <2>3, <2>4
  <2> QED
    BY <2>5 DEF s
<1>6. CASE a < Septet
  <2>1. /\ Len(s) = n + 1 /\ s[1] = a /\ s # <<>>
        /\ \A i \in 1 .. n : (s[i + 1] = oid[i + 2]) = (oid[i + 2] < H)
    <3>1. Len(s) = n + 1
      BY <1>2, <1>6
    <3>2. s # <<>>
      <4>1. Len(<<>>) = 0 /\ n + 1 # 0
        BY <1>1
      <4> QED
        BY <3>1, <4>1
    <3> QED
      BY <1>2, <1>6, <3>2
  <2> DEFINE rest == Tail(s)
  <2>2. rest \in Seq(Nat) /\ Len(rest) = n /\ \A i \in 1 .. n : rest[i] = s[i + 1]
    <3>1. Len(s) - 1 = n
      BY <1>1, <2>1
    <3> QED
      BY <1>4, <2>1, <3>1
  <2> HIDE DEF rest
  <2> DEFINE c == First(a)
             d == a - Root * First(a)
             pair == <<c, d>>
  <2>3. read = pair \o rest
    BY <2>1 DEF rest
  <2>4. c \in Int /\ d \in Int
    <3>1. Root \in Nat /\ Root >= 1
      BY WireNumbers
    <3>2. a \div Root \in Int
      BY <1>3, <3>1, SMTT(30)
    <3>3. c \in Int
      BY <3>2 DEF First
    <3>4. Root * c \in Int
      BY <3>1, <3>3, SMTT(30)
    <3> QED
      BY <1>3, <3>3, <3>4
  <2>5. (c = oid[1] /\ d = oid[2]) = (y < Septet)
    <3>1. oid[2] \in Nat
      BY <1>1
    <3>2. (Root * oid[1] + oid[2]) % WirePart!Byte < Septet
      BY <1>3, <1>6 DEF y
    <3>3. LET x == (Root * oid[1] + oid[2]) % WirePart!Byte
          IN  (First(x) = oid[1] /\ x - (Root * First(x)) = oid[2])
                = (Root * oid[1] + oid[2] < Septet)
      BY <1>1, <3>1, <3>2, PairRead
    <3> QED
      BY <1>3, <3>3 DEF y
  <2> HIDE DEF c, d
  <2>6. /\ pair \in Seq(Int) /\ Len(pair) = 2 /\ pair[1] = c /\ pair[2] = d
    BY <2>4
  <2> HIDE DEF pair
  <2> DEFINE all == pair \o rest
  <2>7. /\ all \in Seq(Int) /\ Len(all) = n + 2
        /\ \A i \in 1 .. n + 2 : all[i] = IF i <= 2 THEN pair[i] ELSE rest[i - 2]
    <3>1. rest \in Seq(Int)
      <4>1. \A i \in 1 .. Len(rest) : rest[i] \in Int
        BY <2>2, ElementOfSeq
      <4>2. rest = [i \in 1 .. Len(rest) |-> rest[i]] /\ Len(rest) \in Nat
        BY <2>2
      <4> QED
        BY <4>1, <4>2
    <3>2. /\ all \in Seq(Int) /\ Len(all) = Len(pair) + Len(rest)
          /\ \A i \in 1 .. Len(pair) + Len(rest) :
                all[i] = IF i <= Len(pair) THEN pair[i] ELSE rest[i - Len(pair)]
      BY <2>6, <3>1, ConcatProperties
    <3>3. Len(pair) + Len(rest) = n + 2
      BY <1>1, <2>2, <2>6
    <3> QED
      BY <2>6, <3>2, <3>3
  <2> HIDE DEF all
  <2>8. all[1] = c /\ all[2] = d /\ \A i \in 1 .. n : all[i + 2] = s[i + 1]
    <3>1. 1 \in 1 .. n + 2 /\ 2 \in 1 .. n + 2 /\ 1 <= 2 /\ 2 <= 2
      BY <1>1
    <3>2. all[1] = c /\ all[2] = d
      BY <2>6, <2>7, <3>1
    <3>3. ASSUME NEW i \in 1 .. n PROVE all[i + 2] = s[i + 1]
      <4>1. i + 2 \in 1 .. n + 2 /\ ~(i + 2 <= 2) /\ (i + 2) - 2 = i
        BY <1>1
      <4>2. all[i + 2] = rest[i]
        BY <2>7, <4>1
      <4> QED
        BY <2>2, <4>2
    <3> QED
      BY <3>2, <3>3
  <2>9. WirePart!Encodable(oid) = (y < Septet /\ \A i \in 1 .. n : oid[i + 2] < H)
    <3>1. ASSUME \A i \in 1 .. n : oid[i + 2] < H, NEW j \in 3 .. Len(oid) PROVE oid[j] < H
      <4>1. j - 2 \in 1 .. n /\ (j - 2) + 2 = j
        BY <1>1
      <4> QED
        BY <3>1, <4>1
    <3>2. ASSUME \A j \in 3 .. Len(oid) : oid[j] < H, NEW i \in 1 .. n PROVE oid[i + 2] < H
      <4>1. i + 2 \in 3 .. Len(oid)
        BY <1>1
      <4> QED
        BY <3>2, <4>1
    <3> QED
      BY <3>1, <3>2 DEF WirePart!Encodable, y, H
  <2>10. ASSUME all = oid PROVE WirePart!Encodable(oid)
    <3>1. y < Septet
      BY <2>5, <2>8, <2>10
    <3>2. ASSUME NEW i \in 1 .. n PROVE oid[i + 2] < H
      BY <2>1, <2>8, <2>10
    <3> QED
      BY <2>9, <3>1, <3>2
  <2>11. ASSUME WirePart!Encodable(oid) PROVE all = oid
    <3>1. y < Septet /\ \A i \in 1 .. n : oid[i + 2] < H
      BY <2>9, <2>11
    <3>2. all[1] = oid[1] /\ all[2] = oid[2] /\ \A i \in 1 .. n : all[i + 2] = oid[i + 2]
      BY <2>1, <2>5, <2>8, <3>1
    <3>3. ASSUME NEW j \in 1 .. n + 2 PROVE all[j] = oid[j]
      <4>1. j = 1 \/ j = 2 \/ (j - 2 \in 1 .. n /\ (j - 2) + 2 = j)
        BY <1>1
      <4> QED
        BY <3>2, <4>1
    <3>4. /\ all = [j \in 1 .. n + 2 |-> all[j]]
          /\ oid = [j \in 1 .. n + 2 |-> oid[j]]
      BY <1>1, <2>7
    <3> QED
      BY <3>3, <3>4
  <2>12. (read = oid) = WirePart!Encodable(oid)
    <3>1. WirePart!Encodable(oid) \in BOOLEAN
      BY <2>9
    <3>2. read = all
      BY <2>3 DEF all
    <3> HIDE DEF read
    <3> QED
      BY <2>10, <2>11, <3>1, <3>2
  <2> QED
    BY <2>12 DEF s
<1>7. a >= Septet \/ a < Septet
  BY <1>3
<1> QED
  BY <1>5, <1>6, <1>7

-----------------------------------------------------------------------------
(***************************************************************************)
(* BER: what a device reads of wrapped values.                             *)
(***************************************************************************)
Item == [tag : Int, value : Seq(Nat)]
FormOf(b) == IF Len(b) < 2 THEN -1
             ELSE IF b[2] = Septet THEN -1
             ELSE IF b[2] < Septet THEN 0 ELSE b[2] - Septet
LengthOf(b) == CASE FormOf(b) = 0 -> b[2]
                 [] FormOf(b) = 1 -> b[3]
                 [] FormOf(b) = 2 -> b[3] * WirePart!Byte + b[4]
Whole(b) == /\ FormOf(b) \in 0 .. 2 /\ ~(Len(b) < 2 + FormOf(b))
            /\ ~(Len(b) < 2 + FormOf(b) + LengthOf(b))
FirstItem(b) == [tag |-> b[1],
                 value |-> SubSeq(b, 2 + FormOf(b) + 1, 2 + FormOf(b) + LengthOf(b))]
Others(b) == SubSeq(b, 2 + FormOf(b) + LengthOf(b) + 1, Len(b))

LEMMA WholeRead ==
  ASSUME NEW b \in Seq(Nat), b # <<>>, Whole(b)
  PROVE  FirstItem(b) \in Item /\ Others(b) \in Seq(Nat) /\ Len(Others(b)) < Len(b)
<1> DEFINE n == Len(b)
           h == 2 + FormOf(b)
           l == LengthOf(b)
<1>1. n \in Nat /\ \A i \in 1 .. n : b[i] \in Nat
  BY ElementOfSeq
<1>2. FormOf(b) \in 0 .. 2 /\ h \in Nat /\ h >= 2 /\ n >= h
  BY <1>1 DEF Whole
<1>3. l \in Nat
  <2>1. Septet \in Nat /\ WirePart!Byte \in Nat
    BY WireNumbers
  <2>2. CASE FormOf(b) = 0
    <3>1. l = b[2] /\ 2 \in 1 .. n
      BY <1>1, <1>2, <2>2 DEF LengthOf
    <3> QED
      BY <1>1, <3>1
  <2>3. CASE FormOf(b) = 1
    <3>1. l = b[3] /\ 3 \in 1 .. n
      BY <1>1, <1>2, <2>3 DEF LengthOf
    <3> QED
      BY <1>1, <3>1
  <2>4. CASE FormOf(b) = 2
    <3>1. l = b[3] * WirePart!Byte + b[4] /\ 3 \in 1 .. n /\ 4 \in 1 .. n
      BY <1>1, <1>2, <2>4 DEF LengthOf
    <3>2. b[3] \in Nat /\ b[4] \in Nat
      BY <1>1, <3>1
    <3>3. b[3] * WirePart!Byte \in Nat
      BY <2>1, <3>2, SMTT(30)
    <3> HIDE DEF l
    <3> QED
      BY <3>1, <3>2, <3>3
  <2> QED
    BY <1>2, <2>2, <2>3, <2>4
<1>4. n >= h + l
  BY <1>1, <1>2, <1>3 DEF Whole
<1> HIDE DEF h, l, n
<1>5. h + 1 \in Nat /\ h + l \in Nat /\ h + l + 1 \in Nat /\ 1 \in 1 .. n
  BY <1>1, <1>2, <1>3, <1>4
<1>6. SubSeq(b, h + 1, h + l) \in Seq(Nat)
  <2>1. \A i \in h + 1 .. h + l : b[i] \in Nat
    <3>1. \A i \in h + 1 .. h + l : i \in 1 .. n
      BY <1>1, <1>2, <1>3, <1>4
    <3> QED
      BY <1>1, <3>1
  <2> QED
    BY <1>5, <2>1, SubSeqProperties DEF n
<1>7. SubSeq(b, h + l + 1, n) \in Seq(Nat) /\ Len(SubSeq(b, h + l + 1, n)) < n
  <2>1. \A i \in h + l + 1 .. n : i \in 1 .. n
    BY <1>1, <1>2, <1>3, <1>4
  <2>2. \A i \in h + l + 1 .. n : b[i] \in Nat
    BY <1>1, <2>1
  <2>3. /\ SubSeq(b, h + l + 1, n) \in Seq(Nat)
        /\ Len(SubSeq(b, h + l + 1, n)) = IF h + l + 1 <= n THEN n - (h + l + 1) + 1 ELSE 0
    BY <1>1, <1>5, <2>1, <2>2, SubSeqProperties DEF n
  <2> QED
    BY <1>1, <1>2, <1>3, <1>4, <2>3
<1>8. b[1] \in Int
  BY <1>1, <1>5
<1> QED
  BY <1>6, <1>7, <1>8 DEF FirstItem, Others, Item, h, l, n

\* A device gets to the end, since what is left of the octets gets less.
LEMMA ItemsOf ==
  ASSUME NEW b \in Seq(Nat)
  PROVE  /\ WirePart!Items[b] \in Seq(Item)
         /\ b = <<>> => WirePart!Items[b] = <<>>
         /\ b # <<>> /\ Whole(b) =>
              WirePart!Items[b] = <<FirstItem(b)>> \o WirePart!Items[Others(b)]
<1> DEFINE D == Seq(Nat)
           X == Seq(Item)
           m == [c \in D |-> Len(c)]
           Body(f, c) == IF c = <<>> THEN <<>>
                         ELSE IF FormOf(c) \notin 0 .. 2 \/ Len(c) < 2 + FormOf(c)
                              THEN WirePart!Malformed
                         ELSE IF Len(c) < 2 + FormOf(c) + LengthOf(c) THEN WirePart!Malformed
                         ELSE <<FirstItem(c)>> \o f[Others(c)]
           step == [f \in [D -> X] |-> [c \in D |-> Body(f, c)]]
           Good(f) == f = [c \in D |-> Body(f, c)]
<1>1. WirePart!Malformed \in X /\ <<>> \in X
  BY DEF WirePart!Malformed, Item
<1>2. ASSUME NEW f, NEW c \in D
      PROVE  /\ c = <<>> => Body(f, c) = <<>>
             /\ c # <<>> /\ Whole(c) => Body(f, c) = <<FirstItem(c)>> \o f[Others(c)]
             /\ c # <<>> /\ ~Whole(c) => Body(f, c) = WirePart!Malformed
  <2> HIDE DEF D, X
  <2>1. c = <<>> => Body(f, c) = <<>>
    OBVIOUS
  <2>2. c # <<>> /\ Whole(c) => Body(f, c) = <<FirstItem(c)>> \o f[Others(c)]
    BY DEF Whole
  <2>3. c # <<>> /\ ~Whole(c) => Body(f, c) = WirePart!Malformed
    BY DEF Whole
  <2> QED
    BY <2>1, <2>2, <2>3
<1>3. ASSUME NEW c \in D, c # <<>>, Whole(c)
      PROVE  FirstItem(c) \in Item /\ Others(c) \in D /\ Len(Others(c)) < Len(c)
  BY <1>3, WholeRead
<1>4. ASSUME NEW f, NEW c \in D, c # <<>> /\ Whole(c) => f[Others(c)] \in X PROVE Body(f, c) \in X
  <2>1. CASE c # <<>> /\ Whole(c)
    <3>1. FirstItem(c) \in Item /\ f[Others(c)] \in Seq(Item)
      BY <1>3, <1>4, <2>1
    <3>2. <<FirstItem(c)>> \in Seq(Item)
      BY <3>1
    <3>3. <<FirstItem(c)>> \o f[Others(c)] \in Seq(Item)
      BY <3>1, <3>2, ConcatProperties
    <3> HIDE DEF Body
    <3> QED
      BY <1>2, <2>1, <3>3
  <2>2. CASE ~(c # <<>> /\ Whole(c))
    <3> HIDE DEF Body, X
    <3> QED
      BY <1>1, <1>2, <2>2
  <2> QED
    BY <2>1, <2>2
<1>5. /\ \A c \in D : m[c] = Len(c)
      /\ m \in [D -> Nat]
  OBVIOUS
<1> HIDE DEF D, X, m, Body
<1>6. ASSUME NEW f \in [D -> X], NEW c \in D PROVE step[f][c] = Body(f, c)
  OBVIOUS
<1>7. step \in [[D -> X] -> [D -> X]]
  <2>1. ASSUME NEW f \in [D -> X], NEW c \in D PROVE Body(f, c) \in X
    <3>1. c # <<>> /\ Whole(c) => f[Others(c)] \in X
      BY <1>3
    <3> QED
      BY <1>4, <3>1
  <2> QED
    BY <2>1
<1> HIDE DEF step
<1>8. ASSUME NEW f, NEW g, NEW c \in D, \A y \in D : m[y] < m[c] => f[y] = g[y]
      PROVE  Body(f, c) = Body(g, c)
  <2>1. CASE c # <<>> /\ Whole(c)
    <3>1. Others(c) \in D /\ m[Others(c)] < m[c]
      BY <1>3, <1>5, <2>1
    <3>2. f[Others(c)] = g[Others(c)]
      BY <1>8, <3>1
    <3> QED
      BY <1>2, <2>1, <3>2
  <2>2. CASE ~(c # <<>> /\ Whole(c))
    BY <1>2, <2>2
  <2> QED
    BY <2>1, <2>2
<1>9. \A f, g \in [D -> X], c \in D :
        (\A y \in D : m[y] < m[c] => f[y] = g[y]) => step[f][c] = step[g][c]
  BY <1>6, <1>8
<1>10. Descends(D, X, m, step)
  <2>1. m \in [D -> Nat]
    BY <1>5
  <2> QED
    BY <1>7, <1>9, <2>1 DEF Descends
<1>11. PICK f \in [D -> X] : f = step[f]
  <2>1. X # {}
    BY <1>1
  <2> QED
    BY <1>10, <2>1, MeasureRecursion
<1>12. Good(f)
  BY <1>11 DEF step
<1>13. WirePart!Items = CHOOSE g : Good(g)
  BY DEF WirePart!Items, FormOf, LengthOf, FirstItem, Others, D, Body
<1>14. Good(WirePart!Items)
  <2> HIDE DEF Good
  <2> QED
    BY <1>12, <1>13
<1>15. \A c \in D : WirePart!Items[c] = Body(WirePart!Items, c)
  BY <1>14
<1> HIDE DEF Good
<1> DEFINE T == {n \in Nat : \A c \in D : m[c] < n => WirePart!Items[c] \in X}
<1>16. 0 \in T
  BY <1>5
<1>17. ASSUME NEW n \in Nat, n \in T PROVE n + 1 \in T
  <2>1. ASSUME NEW c \in D, m[c] < n + 1 PROVE WirePart!Items[c] \in X
    <3>1. ASSUME c # <<>> /\ Whole(c) PROVE WirePart!Items[Others(c)] \in X
      <4>1. Others(c) \in D /\ m[Others(c)] < m[c]
        BY <1>3, <1>5, <3>1
      <4>2. m[Others(c)] \in Nat /\ m[c] \in Nat
        BY <1>5, <4>1
      <4>3. m[Others(c)] < n
        BY <2>1, <4>1, <4>2
      <4> QED
        BY <1>17, <4>1, <4>3
    <3>2. Body(WirePart!Items, c) \in X
      BY <1>4, <3>1
    <3> QED
      BY <1>15, <3>2
  <2> QED
    BY <2>1
<1> HIDE DEF T
<1>18. \A n \in Nat : n \in T
  BY <1>16, <1>17, SetInduction
<1>19. ASSUME NEW c \in D PROVE WirePart!Items[c] \in X
  <2>1. m[c] \in Nat /\ m[c] + 1 \in Nat /\ m[c] < m[c] + 1
    BY <1>5
  <2>2. m[c] + 1 \in T
    BY <1>18, <2>1
  <2> QED
    BY <2>1, <2>2 DEF T
<1>20. b \in D
  BY DEF D
<1> QED
  BY <1>2, <1>15, <1>19, <1>20 DEF X

\* What stands in the middle and what stands behind it.
LEMMA Middle ==
  ASSUME NEW p \in Seq(Nat), NEW v \in Seq(Nat), NEW r \in Seq(Nat)
  PROVE  LET b == (p \o v) \o r
         IN  /\ b \in Seq(Nat) /\ Len(b) = Len(p) + Len(v) + Len(r)
             /\ \A i \in 1 .. Len(p) : b[i] = p[i]
             /\ SubSeq(b, Len(p) + 1, Len(p) + Len(v)) = v
             /\ SubSeq(b, Len(p) + Len(v) + 1, Len(b)) = r
<1> DEFINE h == Len(p)
           n == Len(v)
           k == Len(r)
           a == p \o v
           b == a \o r
<1>1. h \in Nat /\ n \in Nat /\ k \in Nat
  OBVIOUS
<1>2. /\ a \in Seq(Nat) /\ Len(a) = h + n
      /\ \A i \in 1 .. h + n : a[i] = IF i <= h THEN p[i] ELSE v[i - h]
  BY ConcatProperties
<1> HIDE DEF a
<1>3. /\ b \in Seq(Nat) /\ Len(b) = Len(a) + k
      /\ \A i \in 1 .. Len(a) + k : b[i] = IF i <= Len(a) THEN a[i] ELSE r[i - Len(a)]
  <2>1. a \in Seq(Nat)
    BY <1>2
  <2> QED
    BY <2>1, ConcatProperties
<1> HIDE DEF b
<1>4. Len(b) = h + n + k /\ \A i \in 1 .. h + n + k : b[i] \in Nat
  BY <1>2, <1>3, ElementOfSeq
<1>5. /\ \A i \in 1 .. h : b[i] = p[i]
      /\ \A i \in 1 .. n : b[h + i] = v[i]
      /\ \A i \in 1 .. k : b[h + n + i] = r[i]
  <2>1. ASSUME NEW i \in 1 .. h PROVE b[i] = p[i]
    <3>1. i \in 1 .. h + n /\ i \in 1 .. Len(a) + k /\ i <= Len(a) /\ i <= h
      BY <1>1, <1>2
    <3> QED
      BY <1>2, <1>3, <3>1
  <2>2. ASSUME NEW i \in 1 .. n PROVE b[h + i] = v[i]
    <3> DEFINE j == h + i
    <3>1. j \in 1 .. h + n /\ j \in 1 .. Len(a) + k /\ j <= Len(a) /\ ~(j <= h) /\ j - h = i
      BY <1>1, <1>2
    <3> HIDE DEF j
    <3>2. b[j] = a[j] /\ a[j] = v[j - h]
      BY <1>2, <1>3, <3>1
    <3> QED
      BY <3>1, <3>2 DEF j
  <2>3. ASSUME NEW i \in 1 .. k PROVE b[h + n + i] = r[i]
    <3> DEFINE j == h + n + i
    <3>1. j \in 1 .. Len(a) + k /\ ~(j <= Len(a)) /\ j - Len(a) = i
      BY <1>1, <1>2
    <3> HIDE DEF j
    <3>2. b[j] = r[j - Len(a)]
      BY <1>3, <3>1
    <3> QED
      BY <3>1, <3>2 DEF j
  <2> QED
    BY <2>1, <2>2, <2>3
<1>6. SubSeq(b, h + 1, h + n) = v
  <2> DEFINE s == SubSeq(b, h + 1, h + n)
  <2>1. \A i \in h + 1 .. h + n : b[i] \in Nat
    <3>1. \A i \in h + 1 .. h + n : i \in 1 .. h + n + k
      BY <1>1
    <3> QED
      BY <1>4, <3>1
  <2>2. h + 1 \in Int /\ h + n \in Int
    BY <1>1
  <2>3. /\ s \in Seq(Nat) /\ Len(s) = IF h + 1 <= h + n THEN (h + n) - (h + 1) + 1 ELSE 0
        /\ \A i \in 1 .. (h + n) - (h + 1) + 1 : s[i] = b[(h + 1) + (i - 1)]
    BY <2>1, <2>2, SubSeqProperties
  <2> HIDE DEF s
  <2>4. Len(s) = n
    BY <1>1, <2>3
  <2>5. ASSUME NEW i \in 1 .. n PROVE s[i] = v[i]
    <3>1. i \in 1 .. (h + n) - (h + 1) + 1 /\ (h + 1) + (i - 1) = h + i
      BY <1>1
    <3> QED
      BY <1>5, <2>3, <3>1
  <2>6. s = v
    BY <2>3, <2>4, <2>5, SeqEqual
  <2> QED
    BY <2>6 DEF s
<1>7. SubSeq(b, h + n + 1, Len(b)) = r
  <2> DEFINE e == Len(b)
             s == SubSeq(b, h + n + 1, e)
  <2>0. e = h + n + k
    BY <1>4
  <2> HIDE DEF e
  <2>1. \A i \in h + n + 1 .. e : b[i] \in Nat
    <3>1. \A i \in h + n + 1 .. e : i \in 1 .. h + n + k
      BY <1>1, <2>0
    <3> QED
      BY <1>4, <3>1
  <2>2. h + n + 1 \in Int /\ e \in Int
    BY <1>1, <2>0
  <2>3. /\ s \in Seq(Nat) /\ Len(s) = IF h + n + 1 <= e THEN e - (h + n + 1) + 1 ELSE 0
        /\ \A i \in 1 .. e - (h + n + 1) + 1 : s[i] = b[(h + n + 1) + (i - 1)]
    BY <2>1, <2>2, SubSeqProperties
  <2> HIDE DEF s
  <2>4. Len(s) = k
    BY <1>1, <2>0, <2>3
  <2>5. ASSUME NEW i \in 1 .. k PROVE s[i] = r[i]
    <3>1. i \in 1 .. e - (h + n + 1) + 1 /\ (h + n + 1) + (i - 1) = h + n + i
      BY <1>1, <2>0
    <3> QED
      BY <1>5, <2>3, <3>1
  <2>6. s = r
    BY <2>3, <2>4, <2>5, SeqEqual
  <2> QED
    BY <2>6 DEF s, e
<1> QED
  BY <1>3, <1>4, <1>5, <1>6, <1>7 DEF a, b

\* A length of at most two octets.
Fits(n) == n < WirePart!Byte * WirePart!Byte

LEMMA OneBefore ==
  ASSUME NEW x \in Nat, NEW s \in Seq(Nat)
  PROVE  /\ <<x>> \o s \in Seq(Nat) /\ Len(<<x>> \o s) = 1 + Len(s) /\ (<<x>> \o s)[1] = x
         /\ \A i \in 1 .. Len(s) : (<<x>> \o s)[i + 1] = s[i]
<1> DEFINE one == <<x>>
<1>1. one \in Seq(Nat) /\ Len(one) = 1 /\ one[1] = x /\ Len(s) \in Nat
  OBVIOUS
<1> HIDE DEF one
<1>2. /\ one \o s \in Seq(Nat) /\ Len(one \o s) = Len(one) + Len(s)
      /\ \A i \in 1 .. Len(one) + Len(s) :
            (one \o s)[i] = IF i <= Len(one) THEN one[i] ELSE s[i - Len(one)]
  BY <1>1, ConcatProperties
<1>3. 1 \in 1 .. 1 + Len(s) /\ 1 <= 1
  BY <1>1
<1>4. ASSUME NEW i \in 1 .. Len(s) PROVE (one \o s)[i + 1] = s[i]
  <2>1. i + 1 \in 1 .. 1 + Len(s) /\ ~(i + 1 <= 1) /\ (i + 1) - 1 = i
    BY <1>1
  <2> QED
    BY <1>1, <1>2, <2>1
<1> QED
  BY <1>1, <1>2, <1>3, <1>4 DEF one

\* The octets before a value.
LEMMA Prefix ==
  ASSUME NEW tag \in Nat, NEW v \in Seq(Nat), Fits(Len(v))
  PROVE  \E p \in Seq(Nat), k \in 0 .. 2 :
           /\ WirePart!tlvWrap(tag, v) = p \o v
           /\ Len(p) = 2 + k /\ p[1] = tag
           /\ k = 0 => p[2] = Len(v) /\ Len(v) < Septet
           /\ k = 1 => p[2] = Septet + 1 /\ p[3] = Len(v)
           /\ k = 2 => p[2] = Septet + 2 /\ p[3] * WirePart!Byte + p[4] = Len(v)
<1> DEFINE n == Len(v)
           B == WirePart!Byte
           buf == CASE WirePart!Short(n) -> <<n>>
                    [] ~WirePart!Short(n) /\ n < B -> <<Septet + 1, n>>
                    [] ~WirePart!Short(n) /\ n >= B -> <<Septet + 2, n \div B, n % B>>
           Is(p, k) ==
              /\ p \in Seq(Nat) /\ k \in 0 .. 2
              /\ WirePart!tlvWrap(tag, v) = p \o v
              /\ Len(p) = 2 + k /\ p[1] = tag
              /\ k = 0 => p[2] = n /\ n < Septet
              /\ k = 1 => p[2] = Septet + 1 /\ p[3] = n
              /\ k = 2 => p[2] = Septet + 2 /\ p[3] * B + p[4] = n
<1>1. WirePart!tlvWrap(tag, v) = (<<tag>> \o buf) \o v
  BY DEF WirePart!tlvWrap
<1>2. n \in Nat /\ Septet \in Nat /\ B \in Nat /\ B > 0 /\ Septet + 1 \in Nat /\ Septet + 2 \in Nat
      /\ (WirePart!Short(n) <=> n < Septet)
  BY WireNumbers DEF WirePart!Short
<1> HIDE DEF n, B
<1>3. CASE n < Septet
  <2>1. buf = <<n>>
    BY <1>2, <1>3
  <2>2. <<n>> \in Seq(Nat) /\ Len(<<n>>) = 1
    BY <1>2
  <2> DEFINE s == <<n>>
             p == <<tag>> \o s
  <2>3. p \in Seq(Nat) /\ Len(p) = 2 /\ p[1] = tag /\ p[2] = n
    <3>1. s[1] = n /\ s \in Seq(Nat) /\ Len(s) = 1 /\ 1 \in 1 .. 1 /\ 1 + 1 = 2
      BY <2>2
    <3> HIDE DEF s
    <3>4. s \in Seq(Nat)
      BY <3>1
    <3>5. /\ p \in Seq(Nat) /\ Len(p) = 1 + Len(s) /\ p[1] = tag
          /\ \A i \in 1 .. Len(s) : p[i + 1] = s[i]
      BY <3>4, OneBefore
    <3> HIDE DEF p
    <3> QED
      BY <3>1, <3>5
  <2>4. WirePart!tlvWrap(tag, v) = p \o v
    BY <1>1, <2>1
  <2> HIDE DEF p
  <2>5. Is(p, 0)
    BY <1>3, <2>3, <2>4
  <2> QED
    BY <2>5 DEF n, B
<1>4. CASE ~(n < Septet) /\ n < B
  <2>1. buf = <<Septet + 1, n>>
    BY <1>2, <1>4
  <2>2. <<Septet + 1, n>> \in Seq(Nat) /\ Len(<<Septet + 1, n>>) = 2
    BY <1>2
  <2> DEFINE s == <<Septet + 1, n>>
             p == <<tag>> \o s
  <2>3. p \in Seq(Nat) /\ Len(p) = 3 /\ p[1] = tag /\ p[2] = Septet + 1 /\ p[3] = n
    <3>1. s[1] = Septet + 1 /\ s[2] = n /\ s \in Seq(Nat) /\ Len(s) = 2
      BY <2>2
    <3>2. 1 \in 1 .. 2 /\ 2 \in 1 .. 2 /\ 1 + 1 = 2 /\ 2 + 1 = 3 /\ 1 + 2 = 3
      OBVIOUS
    <3> HIDE DEF s
    <3>4. s \in Seq(Nat)
      BY <3>1
    <3>5. /\ p \in Seq(Nat) /\ Len(p) = 1 + Len(s) /\ p[1] = tag
          /\ \A i \in 1 .. Len(s) : p[i + 1] = s[i]
      BY <3>4, OneBefore
    <3> HIDE DEF p
    <3> QED
      BY <3>1, <3>2, <3>5
  <2>4. WirePart!tlvWrap(tag, v) = p \o v
    BY <1>1, <2>1
  <2> HIDE DEF p
  <2>5. Is(p, 1)
    BY <2>3, <2>4
  <2> QED
    BY <2>5 DEF n, B
<1>5. CASE ~(n < Septet) /\ ~(n < B)
  <2> DEFINE q == n \div B
             r == n % B
  <2>1. q \in Nat /\ r \in Nat /\ q * B + r = n
    BY <1>2, SMTT(30)
  <2>2. buf = <<Septet + 2, q, r>>
    BY <1>2, <1>5
  <2> HIDE DEF q, r
  <2>3. <<Septet + 2, q, r>> \in Seq(Nat) /\ Len(<<Septet + 2, q, r>>) = 3
    BY <1>2, <2>1
  <2> DEFINE s == <<Septet + 2, q, r>>
             p == <<tag>> \o s
  <2>4. p \in Seq(Nat) /\ Len(p) = 4 /\ p[1] = tag /\ p[2] = Septet + 2 /\ p[3] = q /\ p[4] = r
    <3>1. s[1] = Septet + 2 /\ s[2] = q /\ s[3] = r /\ s \in Seq(Nat) /\ Len(s) = 3
      BY <2>3
    <3>2. /\ 1 \in 1 .. 3 /\ 2 \in 1 .. 3 /\ 3 \in 1 .. 3
          /\ 1 + 1 = 2 /\ 2 + 1 = 3 /\ 3 + 1 = 4 /\ 1 + 3 = 4
      OBVIOUS
    <3> HIDE DEF s
    <3>4. s \in Seq(Nat)
      BY <3>1
    <3>5. /\ p \in Seq(Nat) /\ Len(p) = 1 + Len(s) /\ p[1] = tag
          /\ \A i \in 1 .. Len(s) : p[i + 1] = s[i]
      BY <3>4, OneBefore
    <3> HIDE DEF p
    <3> QED
      BY <3>1, <3>2, <3>5
  <2>5. WirePart!tlvWrap(tag, v) = p \o v
    BY <1>1, <2>2
  <2> HIDE DEF p
  <2>6. Is(p, 2)
    BY <2>1, <2>4, <2>5
  <2> QED
    BY <2>6 DEF n, B
<1> QED
  BY <1>3, <1>4, <1>5

LEMMA Wrapped ==
  ASSUME NEW tag \in Nat, NEW v \in Seq(Nat), Fits(Len(v))
  PROVE  /\ WirePart!tlvWrap(tag, v) \in Seq(Nat)
         /\ Len(WirePart!tlvWrap(tag, v)) <= Len(v) + 4
         /\ \A rest \in Seq(Nat) :
              WirePart!Items[WirePart!tlvWrap(tag, v) \o rest]
                = <<[tag |-> tag, value |-> v]>> \o WirePart!Items[rest]
<1> DEFINE n == Len(v)
           B == WirePart!Byte
           w == WirePart!tlvWrap(tag, v)
<1>1. PICK p \in Seq(Nat), k \in 0 .. 2 :
           /\ w = p \o v
           /\ Len(p) = 2 + k /\ p[1] = tag
           /\ k = 0 => p[2] = n /\ n < Septet
           /\ k = 1 => p[2] = Septet + 1 /\ p[3] = n
           /\ k = 2 => p[2] = Septet + 2 /\ p[3] * B + p[4] = n
  BY Prefix
<1>2. n \in Nat /\ Septet \in Nat /\ Septet >= 2 /\ B \in Nat
  BY WireNumbers
<1> HIDE DEF w
<1>3. w \in Seq(Nat) /\ Len(w) = Len(p) + n
  BY <1>1, ConcatProperties
<1> HIDE DEF n
<1>4. Len(w) <= n + 4
  BY <1>1, <1>2, <1>3
<1>5. ASSUME NEW rest \in Seq(Nat)
      PROVE  WirePart!Items[w \o rest] = <<[tag |-> tag, value |-> v]>> \o WirePart!Items[rest]
  <2> DEFINE b == w \o rest
  <2>1. /\ b \in Seq(Nat) /\ Len(b) = Len(p) + n + Len(rest)
        /\ \A i \in 1 .. Len(p) : b[i] = p[i]
        /\ SubSeq(b, Len(p) + 1, Len(p) + n) = v
        /\ SubSeq(b, Len(p) + n + 1, Len(b)) = rest
    <3>1. b = (p \o v) \o rest
      BY <1>1
    <3>2. LET c == (p \o v) \o rest
          IN  /\ c \in Seq(Nat) /\ Len(c) = Len(p) + Len(v) + Len(rest)
              /\ \A i \in 1 .. Len(p) : c[i] = p[i]
              /\ SubSeq(c, Len(p) + 1, Len(p) + Len(v)) = v
              /\ SubSeq(c, Len(p) + Len(v) + 1, Len(c)) = rest
      BY Middle
    <3> HIDE DEF b
    <3> QED
      BY <3>1, <3>2 DEF n
  <2> HIDE DEF b
  <2>2. Len(rest) \in Nat
    OBVIOUS
  <2>3. /\ Len(b) >= 2 + k /\ b[1] = tag /\ b[2] = p[2]
        /\ k >= 1 => b[3] = p[3]
        /\ k = 2 => b[4] = p[4]
    <3>1. /\ Len(b) >= 2 + k /\ 1 \in 1 .. Len(p) /\ 2 \in 1 .. Len(p)
          /\ k >= 1 => 3 \in 1 .. Len(p)
          /\ k = 2 => 4 \in 1 .. Len(p)
      BY <1>1, <1>2, <2>1, <2>2
    <3> QED
      BY <1>1, <2>1, <3>1
  <2>4. FormOf(b) = k
    <3>1. ~(Len(b) < 2)
      BY <1>2, <2>1, <2>2, <2>3
    <3>2. CASE k = 0
      <4>1. b[2] < Septet /\ b[2] # Septet
        BY <1>1, <1>2, <2>3, <3>2
      <4> QED
        BY <3>1, <3>2, <4>1 DEF FormOf
    <3>3. CASE k # 0
      <4>1. b[2] = Septet + k
        BY <1>1, <2>3, <3>3
      <4>2. b[2] # Septet /\ ~(b[2] < Septet) /\ b[2] - Septet = k
        BY <1>2, <3>3, <4>1
      <4> QED
        BY <3>1, <4>2 DEF FormOf
    <3> QED
      BY <3>2, <3>3
  <2>5. LengthOf(b) = n
    <3>1. CASE k = 0
      BY <1>1, <2>3, <2>4, <3>1 DEF LengthOf
    <3>2. CASE k = 1
      BY <1>1, <2>3, <2>4, <3>2 DEF LengthOf
    <3>3. CASE k = 2
      <4>1. LengthOf(b) = b[3] * WirePart!Byte + b[4]
        BY <2>4, <3>3 DEF LengthOf
      <4>2. b[3] = p[3] /\ b[4] = p[4]
        BY <2>3, <3>3
      <4> QED
        BY <1>1, <3>3, <4>1, <4>2
    <3> QED
      BY <3>1, <3>2, <3>3
  <2>6. Whole(b) /\ b # <<>>
    <3>1. ~(Len(b) < 2 + k) /\ ~(Len(b) < 2 + k + n) /\ Len(b) # 0
      BY <1>1, <1>2, <2>1, <2>2
    <3>2. Len(<<>>) = 0
      OBVIOUS
    <3> QED
      BY <2>4, <2>5, <3>1, <3>2 DEF Whole
  <2>7. FirstItem(b) = [tag |-> tag, value |-> v] /\ Others(b) = rest
    <3>1. 2 + FormOf(b) = Len(p)
      BY <1>1, <2>4
    <3> QED
      BY <2>1, <2>3, <2>5, <3>1 DEF FirstItem, Others
  <2>8. WirePart!Items[b] = <<FirstItem(b)>> \o WirePart!Items[Others(b)]
    BY <2>1, <2>6, ItemsOf
  <2> QED
    BY <2>7, <2>8 DEF b
<1> QED
  BY <1>3, <1>4, <1>5 DEF w, n

LEMMA ReadOne ==
  ASSUME NEW t \in Nat, NEW v \in Seq(Nat), Fits(Len(v))
  PROVE  WirePart!Items[WirePart!tlvWrap(t, v)] = <<[tag |-> t, value |-> v]>>
<1> DEFINE w == WirePart!tlvWrap(t, v)
           i == [tag |-> t, value |-> v]
<1>1. w \in Seq(Nat) /\ WirePart!Items[w \o <<>>] = <<i>> \o WirePart!Items[<<>>]
  <2>1. <<>> \in Seq(Nat)
    OBVIOUS
  <2> QED
    BY <2>1, Wrapped
<1>2. w \o <<>> = w
  BY <1>1, ConcatEmptySeq
<1>3. WirePart!Items[<<>>] = <<>>
  <2>1. <<>> \in Seq(Nat)
    OBVIOUS
  <2> QED
    BY <2>1, ItemsOf
<1>4. <<i>> \o <<>> = <<i>>
  <2>1. <<i>> \in Seq({i})
    OBVIOUS
  <2> HIDE DEF i
  <2> QED
    BY <2>1, ConcatEmptySeq
<1> QED
  BY <1>1, <1>2, <1>3, <1>4

\* Octets that a device reads as these items, at most n of them.
It(tag, value) == [tag |-> tag, value |-> value]
Holds(b, n, items) ==
    /\ b \in Seq(Nat) /\ n \in Nat /\ Len(b) <= n /\ items \in Seq(Item)
    /\ \A rest \in Seq(Nat) : WirePart!Items[b \o rest] = items \o WirePart!Items[rest]

LEMMA FitsBelow ==
  ASSUME NEW m \in Nat, NEW n \in Nat, m <= n, Fits(n)
  PROVE  Fits(m)
<1> DEFINE S == WirePart!Byte * WirePart!Byte
<1>1. S \in Nat
  BY WireNumbers, SMTT(30)
<1>2. n < S
  BY DEF Fits
<1> HIDE DEF S
<1>3. m < S
  BY <1>1, <1>2
<1> QED
  BY <1>3 DEF Fits, S

LEMMA HoldsWrapped ==
  ASSUME NEW tag \in Nat, NEW v \in Seq(Nat), NEW n \in Nat, Len(v) <= n, Fits(n)
  PROVE  Holds(WirePart!tlvWrap(tag, v), n + 4, <<It(tag, v)>>)
<1> DEFINE w == WirePart!tlvWrap(tag, v)
<1>1. Fits(Len(v))
  <2>1. Len(v) \in Nat
    OBVIOUS
  <2> QED
    BY <2>1, FitsBelow
<1>2. /\ w \in Seq(Nat) /\ Len(w) <= Len(v) + 4
      /\ \A rest \in Seq(Nat) :
           WirePart!Items[w \o rest] = <<[tag |-> tag, value |-> v]>> \o WirePart!Items[rest]
  BY <1>1, Wrapped
<1> HIDE DEF w
<1>3. Len(w) <= n + 4 /\ n + 4 \in Nat
  BY <1>2
<1>4. <<It(tag, v)>> \in Seq(Item)
  BY DEF It, Item
<1> QED
  BY <1>2, <1>3, <1>4 DEF Holds, It, w

LEMMA HoldsJoined ==
  ASSUME NEW a, NEW b, NEW x, NEW y, NEW m, NEW n, Holds(a, m, x), Holds(b, n, y)
  PROVE  Holds(a \o b, m + n, x \o y)
<1>1. /\ a \in Seq(Nat) /\ b \in Seq(Nat) /\ x \in Seq(Item) /\ y \in Seq(Item)
      /\ m \in Nat /\ n \in Nat /\ Len(a) <= m /\ Len(b) <= n
      /\ \A rest \in Seq(Nat) : WirePart!Items[a \o rest] = x \o WirePart!Items[rest]
      /\ \A rest \in Seq(Nat) : WirePart!Items[b \o rest] = y \o WirePart!Items[rest]
  BY DEF Holds
<1>2. a \o b \in Seq(Nat) /\ Len(a \o b) = Len(a) + Len(b)
  BY <1>1, ConcatProperties
<1>3. x \o y \in Seq(Item)
  BY <1>1, ConcatProperties
<1>4. m + n \in Nat /\ Len(a \o b) <= m + n
  BY <1>1, <1>2
<1>5. ASSUME NEW rest \in Seq(Nat)
      PROVE  WirePart!Items[(a \o b) \o rest] = (x \o y) \o WirePart!Items[rest]
  <2>1. b \o rest \in Seq(Nat)
    BY <1>1, ConcatProperties
  <2>2. (a \o b) \o rest = a \o (b \o rest)
    <3>1. a \in Seq(Nat) /\ b \in Seq(Nat)
      BY <1>1
    <3> QED
      BY <3>1, ConcatAssociative
  <2>3. WirePart!Items[a \o (b \o rest)] = x \o WirePart!Items[b \o rest]
    BY <1>1, <2>1
  <2>4. WirePart!Items[b \o rest] = y \o WirePart!Items[rest]
    BY <1>1
  <2>5. WirePart!Items[rest] \in Seq(Item)
    BY ItemsOf
  <2> DEFINE u == WirePart!Items[rest]
  <2> HIDE DEF u
  <2>6. (x \o y) \o u = x \o (y \o u)
    <3>1. x \in Seq(Item) /\ y \in Seq(Item) /\ u \in Seq(Item)
      BY <1>1, <2>5 DEF u
    <3> QED
      BY <3>1, ConcatAssociative
  <2> QED
    BY <2>2, <2>3, <2>4, <2>6, Zenon DEF u
<1> QED
  BY <1>2, <1>3, <1>4, <1>5 DEF Holds

LEMMA HoldsRead ==
  ASSUME NEW b, NEW n, NEW items, Holds(b, n, items)
  PROVE  WirePart!Items[b] = items /\ b \in Seq(Nat) /\ n \in Nat /\ Len(b) <= n
<1>1. /\ b \in Seq(Nat) /\ items \in Seq(Item) /\ <<>> \in Seq(Nat) /\ n \in Nat /\ Len(b) <= n
      /\ \A rest \in Seq(Nat) : WirePart!Items[b \o rest] = items \o WirePart!Items[rest]
  BY DEF Holds
<1>2. b \o <<>> = b /\ items \o <<>> = items
  BY <1>1, ConcatEmptySeq
<1>3. WirePart!Items[<<>>] = <<>>
  BY <1>1, ItemsOf
<1> QED
  BY <1>1, <1>2, <1>3

\* Two, three and four items.
LEMMA HoldsTwo ==
  ASSUME NEW a, NEW b, NEW m, NEW n, NEW i, NEW j,
         Holds(a, m, <<i>>), Holds(b, n, <<j>>)
  PROVE  Holds(a \o b, m + n, <<i, j>>)
<1>1. Holds(a \o b, m + n, <<i>> \o <<j>>)
  BY HoldsJoined
<1>2. <<i>> \o <<j>> = <<i, j>>
  BY AppendTwo
<1> QED
  BY <1>1, <1>2, Zenon

LEMMA HoldsThree ==
  ASSUME NEW a, NEW b, NEW m, NEW n, NEW i, NEW j, NEW k,
         Holds(a, m, <<i, j>>), Holds(b, n, <<k>>)
  PROVE  Holds(a \o b, m + n, <<i, j, k>>)
<1>1. Holds(a \o b, m + n, <<i, j>> \o <<k>>)
  BY HoldsJoined
<1>2. <<i, j>> \o <<k>> = <<i, j, k>>
  BY AppendThree
<1> QED
  BY <1>1, <1>2, Zenon

LEMMA HoldsFour ==
  ASSUME NEW a, NEW b, NEW m, NEW n, NEW i, NEW j, NEW k, NEW l,
         Holds(a, m, <<i, j, k>>), Holds(b, n, <<l>>)
  PROVE  Holds(a \o b, m + n, <<i, j, k, l>>)
<1>1. Holds(a \o b, m + n, <<i, j, k>> \o <<l>>)
  BY HoldsJoined
<1>2. <<i, j, k>> \o <<l>> = <<i, j, k, l>>
  BY AppendFour
<1> QED
  BY <1>1, <1>2, Zenon

\* The tags and the values that a device finds in them.
LEMMA OneInside ==
  ASSUME NEW b, NEW n, NEW t, NEW v, Holds(b, n, <<It(t, v)>>)
  PROVE  /\ WirePart!Inside(b, 1) = v
         /\ \A tags : WirePart!Shaped(b, tags) <=> tags = <<t>>
<1>1. WirePart!Items[b] = <<It(t, v)>>
  BY HoldsRead
<1>2. WirePart!Inside(b, 1) = v
  BY <1>1 DEF WirePart!Inside, It
<1>3. [i \in DOMAIN <<It(t, v)>> |-> <<It(t, v)>>[i].tag] = <<t>>
  BY DEF It
<1> QED
  BY <1>1, <1>2, <1>3 DEF WirePart!Shaped

LEMMA TwoInside ==
  ASSUME NEW b, NEW n, NEW t, NEW v, NEW t2, NEW v2, Holds(b, n, <<It(t, v), It(t2, v2)>>)
  PROVE  /\ WirePart!Inside(b, 1) = v
         /\ \A tags : WirePart!Shaped(b, tags) <=> tags = <<t, t2>>
<1> DEFINE s == <<It(t, v), It(t2, v2)>>
<1>1. WirePart!Items[b] = s
  BY HoldsRead
<1>2. WirePart!Inside(b, 1) = v
  BY <1>1 DEF WirePart!Inside, It
<1>3. [i \in DOMAIN s |-> s[i].tag] = <<t, t2>>
  BY DEF It
<1> HIDE DEF s
<1> QED
  BY <1>1, <1>2, <1>3 DEF WirePart!Shaped

LEMMA ThreeInside ==
  ASSUME NEW b, NEW n, NEW t, NEW v, NEW t2, NEW v2, NEW t3, NEW v3,
         Holds(b, n, <<It(t, v), It(t2, v2), It(t3, v3)>>)
  PROVE  /\ WirePart!Inside(b, 1) = v /\ WirePart!Inside(b, 2) = v2 /\ WirePart!Inside(b, 3) = v3
         /\ \A tags : WirePart!Shaped(b, tags) <=> tags = <<t, t2, t3>>
<1> DEFINE s == <<It(t, v), It(t2, v2), It(t3, v3)>>
<1>1. WirePart!Items[b] = s
  BY HoldsRead
<1>2. WirePart!Inside(b, 1) = v /\ WirePart!Inside(b, 2) = v2 /\ WirePart!Inside(b, 3) = v3
  BY <1>1 DEF WirePart!Inside, It
<1>3. [i \in DOMAIN s |-> s[i].tag] = <<t, t2, t3>>
  BY DEF It
<1> HIDE DEF s
<1> QED
  BY <1>1, <1>2, <1>3 DEF WirePart!Shaped

LEMMA FourInside ==
  ASSUME NEW b, NEW n, NEW t, NEW v, NEW t2, NEW v2, NEW t3, NEW v3, NEW t4, NEW v4,
         Holds(b, n, <<It(t, v), It(t2, v2), It(t3, v3), It(t4, v4)>>)
  PROVE  /\ WirePart!Inside(b, 4) = v4
         /\ \A tags : WirePart!Shaped(b, tags) <=> tags = <<t, t2, t3, t4>>
<1> DEFINE s == <<It(t, v), It(t2, v2), It(t3, v3), It(t4, v4)>>
<1>1. WirePart!Items[b] = s
  BY HoldsRead
<1>2. WirePart!Inside(b, 4) = v4
  BY <1>1 DEF WirePart!Inside, It
<1>3. [i \in DOMAIN s |-> s[i].tag] = <<t, t2, t3, t4>>
  BY DEF It
<1> HIDE DEF s
<1> QED
  BY <1>1, <1>2, <1>3 DEF WirePart!Shaped

\* The parts of the requests, in octets of a number that a length can say.
LEMMA Tags ==
  /\ WirePart!INTEGER \in Nat /\ WirePart!OCTETS \in Nat /\ WirePart!NULL \in Nat
  /\ WirePart!OBJECT \in Nat /\ WirePart!SEQUENCE \in Nat /\ WirePart!GET \in Nat
  /\ WirePart!OCTETS # WirePart!SEQUENCE /\ WirePart!OBJECT # WirePart!SEQUENCE
BY DEF WirePart!INTEGER, WirePart!OCTETS, WirePart!NULL, WirePart!OBJECT, WirePart!SEQUENCE,
       WirePart!GET

LEMMA NothingHolds == Holds(WirePart!Nothing, 4, <<It(WirePart!NULL, <<>>)>>)
<1> DEFINE e == <<>>
           B == WirePart!Byte
<1>1. e \in Seq(Nat) /\ Len(e) = 0 /\ WirePart!NULL \in Nat
  BY Tags
<1>2. Fits(0)
  <2>1. B \in Nat /\ B > 0
    BY WireNumbers
  <2> HIDE DEF B
  <2>2. 0 < B * B
    BY <2>1, SMTT(30)
  <2> QED
    BY <2>2 DEF Fits, B
<1>3. WirePart!tlvWrap(WirePart!NULL, e) = WirePart!Nothing
  <2>1. WirePart!Short(0)
    BY WireNumbers DEF WirePart!Short
  <2>2. WirePart!tlvWrap(WirePart!NULL, e) = (<<WirePart!NULL>> \o <<0>>) \o <<>>
    BY <1>1, <2>1 DEF WirePart!tlvWrap
  <2>3. <<WirePart!NULL>> \o <<0>> = <<WirePart!NULL, 0>>
    BY AppendTwo
  <2> DEFINE s == <<WirePart!NULL, 0>>
  <2>4. s \in Seq(Nat)
    BY <1>1
  <2> HIDE DEF s
  <2>5. s \o <<>> = s
    BY <2>4, ConcatEmptySeq
  <2> QED
    BY <2>2, <2>3, <2>5 DEF s, WirePart!Nothing
<1> HIDE DEF e
<1>4. Len(e) <= 0 /\ 0 \in Nat
  BY <1>1
<1>5. Holds(WirePart!tlvWrap(WirePart!NULL, e), 0 + 4, <<It(WirePart!NULL, e)>>)
  BY <1>1, <1>2, <1>4, HoldsWrapped
<1> QED
  BY <1>3, <1>5 DEF e

LEMMA FitsSome ==
  ASSUME NEW n \in Nat, Fits(n + 200), NEW m \in Nat, m <= n + 200
  PROVE  Fits(m)
<1>1. n + 200 \in Nat
  OBVIOUS
<1> QED
  BY <1>1, FitsBelow

LEMMA SmallHolds ==
  ASSUME NEW x \in Nat, Fits(1)
  PROVE  Holds(WirePart!Small(x), 5, <<It(WirePart!INTEGER, <<x>>)>>)
<1> DEFINE s == <<x>>
<1>1. s \in Seq(Nat) /\ Len(s) <= 1 /\ 1 \in Nat /\ WirePart!INTEGER \in Nat
  BY Tags
<1> HIDE DEF s
<1>2. Holds(WirePart!tlvWrap(WirePart!INTEGER, s), 1 + 4, <<It(WirePart!INTEGER, s)>>)
  BY <1>1, HoldsWrapped
<1> QED
  BY <1>2 DEF WirePart!Small, s

LEMMA ZerosHold ==
  ASSUME NEW tag \in Nat, NEW n \in Nat, Fits(n)
  PROVE  Holds(WirePart!tlvWrap(tag, WirePart!Zeros(n)), n + 4, <<It(tag, WirePart!Zeros(n))>>)
<1>1. WirePart!Zeros(n) \in Seq(Nat) /\ Len(WirePart!Zeros(n)) = n
  BY DEF WirePart!Zeros
<1>2. Len(WirePart!Zeros(n)) <= n
  BY <1>1
<1> QED
  BY <1>1, <1>2, HoldsWrapped

\* The binding of an object.
Bound(oid) == WirePart!tlvWrap(WirePart!OBJECT, WirePart!encodeOid(oid)) \o WirePart!Nothing

LEMMA BindingHolds ==
  ASSUME NEW oid, WirePart!encodeOid(oid) \in Seq(Nat), NEW n \in Nat,
         Len(WirePart!encodeOid(oid)) <= n, Fits(n + 200)
  PROVE  /\ Holds(Bound(oid), n + 8, <<It(WirePart!OBJECT, WirePart!encodeOid(oid)),
                                       It(WirePart!NULL, <<>>)>>)
         /\ Holds(WirePart!buildVarBind(oid), n + 12, <<It(WirePart!SEQUENCE, Bound(oid))>>)
<1> DEFINE e == WirePart!encodeOid(oid)
<1>1. e \in Seq(Nat) /\ Len(e) <= n /\ WirePart!OBJECT \in Nat /\ WirePart!SEQUENCE \in Nat
  BY Tags
<1>2. Fits(n) /\ Fits(n + 8) /\ n + 8 \in Nat
  BY FitsSome
<1> HIDE DEF e
<1>3. Holds(WirePart!tlvWrap(WirePart!OBJECT, e), n + 4, <<It(WirePart!OBJECT, e)>>)
  BY <1>1, <1>2, HoldsWrapped
<1>4. Holds(Bound(oid), (n + 4) + 4, <<It(WirePart!OBJECT, e), It(WirePart!NULL, <<>>)>>)
  BY <1>3, NothingHolds, HoldsTwo DEF Bound, e
<1>5. (n + 4) + 4 = n + 8 /\ (n + 8) + 4 = n + 12
  OBVIOUS
<1>6. Holds(Bound(oid), n + 8, <<It(WirePart!OBJECT, e), It(WirePart!NULL, <<>>)>>)
  BY <1>4, <1>5
<1>7. Bound(oid) \in Seq(Nat) /\ Len(Bound(oid)) <= n + 8
  BY <1>6, HoldsRead
<1>8. Holds(WirePart!tlvWrap(WirePart!SEQUENCE, Bound(oid)), (n + 8) + 4,
            <<It(WirePart!SEQUENCE, Bound(oid))>>)
  BY <1>1, <1>2, <1>7, HoldsWrapped
<1>9. WirePart!buildVarBind(oid) = WirePart!tlvWrap(WirePart!SEQUENCE, Bound(oid))
  BY DEF WirePart!buildVarBind, Bound
<1> QED
  BY <1>5, <1>6, <1>8, <1>9 DEF e

\* What the protocol unit holds: an id, two numbers and the list of bindings.
LEMMA PduHolds ==
  ASSUME NEW bindings, NEW n, NEW list,
         Holds(bindings, n, <<It(WirePart!SEQUENCE, list)>>), Fits(n + 18)
  PROVE  \E pdu \in Seq(Nat) :
           /\ Holds(WirePart!Pdu(bindings), n + 22, <<It(WirePart!GET, pdu)>>)
           /\ WirePart!Inside(pdu, 4) = list
           /\ WirePart!Shaped(pdu, <<WirePart!INTEGER, WirePart!INTEGER, WirePart!INTEGER,
                                     WirePart!SEQUENCE>>)
<1> DEFINE I == WirePart!INTEGER
           z == WirePart!tlvWrap(I, WirePart!Zeros(4))
           s == WirePart!Small(0)
           pdu == ((z \o s) \o s) \o bindings
<1>1. n \in Nat /\ I \in Nat /\ WirePart!GET \in Nat
  BY HoldsRead, Tags
<1>2. Fits(4) /\ Fits(1)
  <2>1. n + 18 \in Nat /\ 4 \in Nat /\ 4 <= n + 18 /\ 1 \in Nat /\ 1 <= n + 18
    BY <1>1
  <2> QED
    BY <2>1, FitsBelow
<1> HIDE DEF I
<1>3. Holds(z, 8, <<It(I, WirePart!Zeros(4))>>)
  <2>1. 4 \in Nat /\ 4 + 4 = 8
    OBVIOUS
  <2>2. Holds(z, 4 + 4, <<It(I, WirePart!Zeros(4))>>)
    BY <1>1, <1>2, <2>1, ZerosHold
  <2> QED
    BY <2>1, <2>2
<1>4. Holds(s, 5, <<It(I, <<0>>)>>)
  <2>1. 0 \in Nat
    OBVIOUS
  <2> QED
    BY <1>2, <2>1, SmallHolds DEF I
<1> DEFINE x == It(I, WirePart!Zeros(4))
           y == It(I, <<0>>)
           l == It(WirePart!SEQUENCE, list)
<1> HIDE DEF x, y, l, z, s
<1>5. Holds(z, 8, <<x>>) /\ Holds(s, 5, <<y>>) /\ Holds(bindings, n, <<l>>)
  BY <1>3, <1>4 DEF x, y, l
<1>6. Holds(z \o s, 8 + 5, <<x, y>>)
  BY <1>5, HoldsTwo
<1>7. Holds((z \o s) \o s, (8 + 5) + 5, <<x, y, y>>)
  BY <1>5, <1>6, HoldsThree
<1>8. Holds(pdu, ((8 + 5) + 5) + n, <<x, y, y, l>>)
  BY <1>5, <1>7, HoldsFour
<1>9. WirePart!Pdu(bindings) = WirePart!tlvWrap(WirePart!GET, pdu)
  BY DEF WirePart!Pdu, z, s, I
<1> HIDE DEF pdu
<1>10. ((8 + 5) + 5) + n = n + 18 /\ (n + 18) + 4 = n + 22 /\ n + 18 \in Nat
  BY <1>1
<1>11. Holds(pdu, n + 18, <<x, y, y, l>>)
  BY <1>8, <1>10
<1>12. pdu \in Seq(Nat) /\ Len(pdu) <= n + 18
  BY <1>11, HoldsRead
<1>13. Holds(WirePart!Pdu(bindings), (n + 18) + 4, <<It(WirePart!GET, pdu)>>)
  BY <1>1, <1>9, <1>10, <1>12, HoldsWrapped
<1>14. /\ WirePart!Inside(pdu, 4) = list
       /\ WirePart!Shaped(pdu, <<I, I, I, WirePart!SEQUENCE>>)
  <2>1. Holds(pdu, n + 18, <<It(I, WirePart!Zeros(4)), It(I, <<0>>), It(I, <<0>>),
                             It(WirePart!SEQUENCE, list)>>)
    BY <1>11 DEF x, y, l
  <2> QED
    BY <2>1, FourInside
<1> QED
  BY <1>10, <1>12, <1>13, <1>14 DEF I

\* A message of version 1 or 2c.
LEMMA MessageRead ==
  ASSUME NEW version \in Nat, NEW community \in Seq(Nat), NEW m \in Nat, Len(community) <= m,
         NEW bindings, NEW n, NEW list,
         Holds(bindings, n, <<It(WirePart!SEQUENCE, list)>>), Fits(m + n + 31)
  PROVE  LET p == WirePart!tlvWrap(WirePart!SEQUENCE,
                    (WirePart!Small(version) \o WirePart!tlvWrap(WirePart!OCTETS, community))
                      \o WirePart!Pdu(bindings))
         IN  /\ WirePart!Shaped(p, <<WirePart!SEQUENCE>>)
             /\ WirePart!Shaped(WirePart!Message(p),
                                <<WirePart!INTEGER, WirePart!OCTETS, WirePart!GET>>)
             /\ ~WirePart!IsV3(p)
             /\ WirePart!Inside(WirePart!Message(p), 1) = <<version>>
             /\ WirePart!Inside(WirePart!Message(p), 2) = community
             /\ WirePart!Inside(WirePart!PduOf(p), 4) = list
             /\ WirePart!Shaped(WirePart!PduOf(p),
                                <<WirePart!INTEGER, WirePart!INTEGER, WirePart!INTEGER,
                                  WirePart!SEQUENCE>>)
<1> DEFINE v == WirePart!Small(version)
           c == WirePart!tlvWrap(WirePart!OCTETS, community)
           u == WirePart!Pdu(bindings)
           msg == (v \o c) \o u
           p == WirePart!tlvWrap(WirePart!SEQUENCE, msg)
<1>1. n \in Nat /\ WirePart!SEQUENCE \in Nat /\ WirePart!OCTETS \in Nat
  BY HoldsRead, Tags
<1>2. m + n + 31 \in Nat /\ n + 18 \in Nat /\ n + 18 <= m + n + 31 /\ m <= m + n + 31
      /\ 1 \in Nat /\ 1 <= m + n + 31
  BY <1>1
<1>3. Fits(n + 18) /\ Fits(m) /\ Fits(1)
  BY <1>2, FitsBelow
<1>4. Holds(v, 5, <<It(WirePart!INTEGER, <<version>>)>>)
  BY <1>3, SmallHolds
<1>5. Holds(c, m + 4, <<It(WirePart!OCTETS, community)>>)
  BY <1>1, <1>3, HoldsWrapped
<1>6. PICK pdu \in Seq(Nat) :
           /\ Holds(u, n + 22, <<It(WirePart!GET, pdu)>>)
           /\ WirePart!Inside(pdu, 4) = list
           /\ WirePart!Shaped(pdu, <<WirePart!INTEGER, WirePart!INTEGER, WirePart!INTEGER,
                                     WirePart!SEQUENCE>>)
  BY <1>3, PduHolds
<1> HIDE DEF v, c, u
<1>7. Holds(v \o c, 5 + (m + 4), <<It(WirePart!INTEGER, <<version>>),
                                   It(WirePart!OCTETS, community)>>)
  BY <1>4, <1>5, HoldsTwo
<1>8. Holds(msg, (5 + (m + 4)) + (n + 22),
            <<It(WirePart!INTEGER, <<version>>), It(WirePart!OCTETS, community),
              It(WirePart!GET, pdu)>>)
  <2>1. Holds(u, n + 22, <<It(WirePart!GET, pdu)>>)
    BY <1>6
  <2> QED
    BY <1>7, <2>1, HoldsThree
<1> HIDE DEF msg
<1>9. /\ WirePart!Inside(msg, 1) = <<version>> /\ WirePart!Inside(msg, 2) = community
      /\ WirePart!Inside(msg, 3) = pdu
      /\ \A tags : WirePart!Shaped(msg, tags)
                     <=> tags = <<WirePart!INTEGER, WirePart!OCTETS, WirePart!GET>>
  BY <1>8, ThreeInside
<1>10. msg \in Seq(Nat) /\ Len(msg) <= m + n + 31
  <2>1. (5 + (m + 4)) + (n + 22) = m + n + 31
    BY <1>1
  <2>2. msg \in Seq(Nat) /\ Len(msg) <= (5 + (m + 4)) + (n + 22)
    BY <1>8, HoldsRead
  <2> QED
    BY <2>1, <2>2
<1>11. Holds(p, (m + n + 31) + 4, <<It(WirePart!SEQUENCE, msg)>>)
  BY <1>1, <1>2, <1>10, HoldsWrapped
<1> HIDE DEF p
<1>12. WirePart!Message(p) = msg /\ WirePart!Shaped(p, <<WirePart!SEQUENCE>>)
  BY <1>11, OneInside DEF WirePart!Message
<1>13. ~WirePart!IsV3(p)
  <2>1. <<WirePart!INTEGER, WirePart!SEQUENCE, WirePart!OCTETS, WirePart!SEQUENCE>>
          # <<WirePart!INTEGER, WirePart!OCTETS, WirePart!GET>>
    OBVIOUS
  <2> QED
    BY <1>9, <1>12, <2>1 DEF WirePart!IsV3
<1>14. WirePart!PduOf(p) = pdu
  BY <1>9, <1>12, <1>13 DEF WirePart!PduOf
<1>15. WirePart!Shaped(msg, <<WirePart!INTEGER, WirePart!OCTETS, WirePart!GET>>)
  BY <1>9
<1> QED
  BY <1>6, <1>9, <1>12, <1>13, <1>14, <1>15, Zenon DEF p, msg, v, c, u

\* The probe's request.
LEMMA GetRead ==
  ASSUME NEW version \in Nat, NEW community \in Seq(Nat),
         NEW oid, WirePart!encodeOid(oid) \in Seq(Nat),
         Fits(Len(community) + Len(WirePart!encodeOid(oid)) + 200)
  PROVE  LET p == WirePart!buildSnmpGetPacket(community, oid, version)
         IN  /\ WirePart!Readable(p)
             /\ WirePart!Inside(WirePart!Message(p), 1) = <<version>>
             /\ WirePart!Inside(WirePart!Message(p), 2) = community
             /\ WirePart!Inside(WirePart!BindingOf(p), 1) = WirePart!encodeOid(oid)
<1> DEFINE m == Len(community)
           n == Len(WirePart!encodeOid(oid))
           vb == WirePart!buildVarBind(oid)
           list == WirePart!tlvWrap(WirePart!SEQUENCE, vb)
           p == WirePart!buildSnmpGetPacket(community, oid, version)
<1>1. m \in Nat /\ n \in Nat /\ WirePart!SEQUENCE \in Nat
  BY Tags
<1> HIDE DEF m, n
<1>2. Fits(n + 200) /\ Fits(n + 12) /\ Fits(m + (n + 16) + 31) /\ n + 12 \in Nat
  <2>1. Fits(m + n + 200)
    BY DEF m, n
  <2>2. /\ m + n + 200 \in Nat /\ n + 200 \in Nat /\ n + 12 \in Nat /\ m + (n + 16) + 31 \in Nat
        /\ n + 200 <= m + n + 200 /\ n + 12 <= m + n + 200
        /\ m + (n + 16) + 31 <= m + n + 200
    BY <1>1
  <2> QED
    BY <2>1, <2>2, FitsBelow
<1>3. /\ Holds(Bound(oid), n + 8, <<It(WirePart!OBJECT, WirePart!encodeOid(oid)),
                                    It(WirePart!NULL, <<>>)>>)
      /\ Holds(vb, n + 12, <<It(WirePart!SEQUENCE, Bound(oid))>>)
  <2>1. Len(WirePart!encodeOid(oid)) <= n
    BY <1>1 DEF n
  <2> QED
    BY <1>1, <1>2, <2>1, BindingHolds
<1> HIDE DEF vb
<1>4. vb \in Seq(Nat) /\ Len(vb) <= n + 12
  BY <1>3, HoldsRead
<1>5. Holds(list, n + 16, <<It(WirePart!SEQUENCE, vb)>>)
  <2>1. Holds(list, (n + 12) + 4, <<It(WirePart!SEQUENCE, vb)>>)
    BY <1>1, <1>2, <1>4, HoldsWrapped
  <2>2. (n + 12) + 4 = n + 16
    BY <1>1
  <2> QED
    BY <2>1, <2>2
<1> HIDE DEF list
<1> DEFINE q == WirePart!tlvWrap(WirePart!SEQUENCE,
                    (WirePart!Small(version) \o WirePart!tlvWrap(WirePart!OCTETS, community))
                      \o WirePart!Pdu(list))
<1>6. p = q
  BY DEF WirePart!buildSnmpGetPacket, list, vb
<1>7. /\ WirePart!Shaped(q, <<WirePart!SEQUENCE>>)
      /\ WirePart!Shaped(WirePart!Message(q),
                                <<WirePart!INTEGER, WirePart!OCTETS, WirePart!GET>>)
      /\ WirePart!Inside(WirePart!Message(q), 1) = <<version>>
      /\ WirePart!Inside(WirePart!Message(q), 2) = community
      /\ WirePart!Inside(WirePart!PduOf(q), 4) = vb
      /\ WirePart!Shaped(WirePart!PduOf(q),
                         <<WirePart!INTEGER, WirePart!INTEGER, WirePart!INTEGER,
                           WirePart!SEQUENCE>>)
  <2>1. m \in Nat /\ Len(community) <= m
    BY <1>1 DEF m
  <2>2. Holds(list, n + 16, <<It(WirePart!SEQUENCE, vb)>>) /\ Fits(m + (n + 16) + 31)
    BY <1>2, <1>5
  <2> DEFINE k == n + 16
  <2>3. Holds(list, k, <<It(WirePart!SEQUENCE, vb)>>) /\ Fits(m + k + 31)
    BY <2>2
  <2> HIDE DEF k, q
  <2>4. LET r == WirePart!tlvWrap(WirePart!SEQUENCE,
                    (WirePart!Small(version) \o WirePart!tlvWrap(WirePart!OCTETS, community))
                      \o WirePart!Pdu(list))
        IN  /\ WirePart!Shaped(r, <<WirePart!SEQUENCE>>)
            /\ WirePart!Shaped(WirePart!Message(r),
                               <<WirePart!INTEGER, WirePart!OCTETS, WirePart!GET>>)
            /\ ~WirePart!IsV3(r)
            /\ WirePart!Inside(WirePart!Message(r), 1) = <<version>>
            /\ WirePart!Inside(WirePart!Message(r), 2) = community
            /\ WirePart!Inside(WirePart!PduOf(r), 4) = vb
            /\ WirePart!Shaped(WirePart!PduOf(r),
                               <<WirePart!INTEGER, WirePart!INTEGER, WirePart!INTEGER,
                                 WirePart!SEQUENCE>>)
    BY <2>1, <2>3, MessageRead
  <2> QED
    BY <2>4 DEF q
<1> HIDE DEF q
<1>8. WirePart!Inside(vb, 1) = Bound(oid) /\ WirePart!Shaped(vb, <<WirePart!SEQUENCE>>)
  BY <1>3, OneInside
<1>9. /\ WirePart!Inside(Bound(oid), 1) = WirePart!encodeOid(oid)
      /\ WirePart!Shaped(Bound(oid), <<WirePart!OBJECT, WirePart!NULL>>)
  BY <1>3, TwoInside
<1>10. WirePart!BindingOf(q) = Bound(oid)
  BY <1>7, <1>8 DEF WirePart!BindingOf
<1>11. WirePart!Readable(q)
  BY <1>7, <1>8, <1>9, <1>10 DEF WirePart!Readable
<1> QED
  BY <1>6, <1>7, <1>9, <1>10, <1>11

\* The settings that a form can hold.
LEMMA Settled ==
  ASSUME NEW cfg \in WirePart!Settings
  PROVE  /\ WirePart!Community(cfg.community) \in Seq(Nat) /\ ObjectId(WirePart!Oid(cfg.oid))
         /\ WirePart!encodeOid(WirePart!Oid(cfg.oid)) \in Seq(Nat)
         /\ Fits(Len(WirePart!Community(cfg.community))
                  + Len(WirePart!encodeOid(WirePart!Oid(cfg.oid))) + 200)
<1>1. cfg.community \in Communities /\ cfg.oid \in Oids
  BY DEF WirePart!Settings
<1>2. WirePart!Community(cfg.community) \in Seq(Nat)
  BY <1>1, WireAssumption DEF WirePart!Community
<1>3. ObjectId(WirePart!Oid(cfg.oid))
  BY <1>1, WireAssumption DEF WirePart!Oid
<1>4. Fits(Len(WirePart!Community(cfg.community))
             + Len(WirePart!encodeOid(WirePart!Oid(cfg.oid))) + 200)
  BY <1>1, WireAssumption DEF Fits
<1> QED
  BY <1>2, <1>3, <1>4, EncodedReads

LEMMA OidRead ==
  ASSUME NEW p, NEW oid, ObjectId(oid),
         WirePart!Inside(WirePart!BindingOf(p), 1) = WirePart!encodeOid(oid)
  PROVE  (WirePart!ReadOid(p) = oid) = WirePart!Encodable(oid)
<1> DEFINE s == WirePart!Subidentifiers(WirePart!encodeOid(oid))
           read == IF s = <<>> THEN <<>>
                   ELSE <<First(s[1]), s[1] - Root * First(s[1])>> \o Tail(s)
<1>1. (read = oid) = WirePart!Encodable(oid)
  BY ObjectRead
<1> HIDE DEF s
<1>2. WirePart!ReadOid(p) = read
  BY DEF WirePart!ReadOid, First, s
<1> HIDE DEF read
<1> QED
  BY <1>1, <1>2

\* The request looked at is one that the code builds of some settings.
Sent(by, cfg, packet) == [by |-> by, cfg |-> cfg, packet |-> packet]
WireInv ==
    \/ sent = WirePart!NoRequest
    \/ \E cfg \in WirePart!Settings :
          \/ sent = Sent("monitor", cfg, WirePart!checkSnmp(cfg))
          \/ sent = Sent("library", cfg, WirePart!runSnmpCheck(cfg))
          \/ sent = Sent("tester", cfg, WirePart!checkSnmpUdp(cfg))

LEMMA WireInit == WirePart!Init => WireInv
BY DEF WirePart!Init, WireInv

LEMMA WireStep == WireInv /\ [WirePart!Next]_sent => WireInv'
<1> SUFFICES ASSUME WireInv, [WirePart!Next]_sent PROVE WireInv'
  OBVIOUS
<1>1. CASE sent' = sent
  BY <1>1 DEF WireInv
<1>2. ASSUME NEW cfg \in WirePart!Settings,
             WirePart!Probe(cfg) \/ WirePart!Direct(cfg) \/ WirePart!Test(cfg)
      PROVE  WireInv'
  BY <1>2 DEF WireInv, Sent, WirePart!Probe, WirePart!Direct, WirePart!Test
<1>3. CASE WirePart!Forget
  BY <1>3 DEF WireInv, WirePart!Forget
<1> QED
  BY <1>1, <1>2, <1>3 DEF WirePart!Next

\* What a device reads of a probe's request.
LEMMA ProbeRead ==
  ASSUME NEW by \in {"monitor", "library"}, NEW cfg \in WirePart!Settings,
         NEW version \in Nat,
         sent = Sent(by, cfg, WirePart!buildSnmpGetPacket(WirePart!Community(cfg.community),
                                                          WirePart!Oid(cfg.oid), version)),
         by = "library" => version = WirePart!Number(cfg.version)
  PROVE  WirePart!WireRead
<1> DEFINE c == WirePart!Community(cfg.community)
           o == WirePart!Oid(cfg.oid)
           p == WirePart!buildSnmpGetPacket(c, o, version)
<1>1. /\ c \in Seq(Nat) /\ ObjectId(o) /\ WirePart!encodeOid(o) \in Seq(Nat)
      /\ Fits(Len(c) + Len(WirePart!encodeOid(o)) + 200)
  BY Settled
<1> HIDE DEF c, o
<1>2. /\ WirePart!Readable(p)
      /\ WirePart!Inside(WirePart!Message(p), 1) = <<version>>
      /\ WirePart!Inside(WirePart!Message(p), 2) = c
      /\ WirePart!Inside(WirePart!BindingOf(p), 1) = WirePart!encodeOid(o)
  BY <1>1, GetRead
<1> HIDE DEF p
<1>3. (WirePart!ReadOid(p) = o) = WirePart!Encodable(o)
  BY <1>1, <1>2, OidRead
<1>4. sent.packet = p /\ sent.cfg = cfg /\ sent.by = by
  BY DEF Sent, p, c, o
<1>5. by = "library" => WirePart!Inside(WirePart!Message(p), 1) = <<WirePart!Number(cfg.version)>>
  BY <1>2
<1> QED
  BY <1>2, <1>3, <1>4, <1>5 DEF WirePart!WireRead, c, o

LEMMA AllRead == WireInv => WireRead
<1> SUFFICES ASSUME WireInv PROVE WirePart!WireRead
  BY DEF WireRead
<1>1. CASE sent = WirePart!NoRequest
  BY <1>1 DEF WirePart!WireRead
<1>2. ASSUME NEW cfg \in WirePart!Settings, sent = Sent("monitor", cfg, WirePart!checkSnmp(cfg))
      PROVE  WirePart!WireRead
  <2>1. WirePart!checkSnmp(cfg) = WirePart!buildSnmpGetPacket(
            WirePart!Community(cfg.community), WirePart!Oid(cfg.oid), 1)
    BY DEF WirePart!checkSnmp, WirePart!Passed, WirePart!runSnmpCheck, WirePart!Settings
  <2> QED
    BY <1>2, <2>1, ProbeRead
<1>3. ASSUME NEW cfg \in WirePart!Settings,
             sent = Sent("library", cfg, WirePart!runSnmpCheck(cfg))
      PROVE  WirePart!WireRead
  <2> DEFINE c == WirePart!Community(cfg.community)
             o == WirePart!Oid(cfg.oid)
  <2>1. cfg.version \in {"1", "2c", "3"} /\ sent.by = "library" /\ sent.cfg = cfg
    BY <1>3 DEF Sent, WirePart!Settings
  <2>2. CASE cfg.version = "1"
    <3>1. WirePart!runSnmpCheck(cfg) = WirePart!buildSnmpGetPacket(c, o, 0)
      BY <2>2 DEF WirePart!runSnmpCheck
    <3>2. 0 = WirePart!Number(cfg.version)
      BY <2>2 DEF WirePart!Number
    <3> QED
      BY <1>3, <3>1, <3>2, ProbeRead
  <2>3. CASE cfg.version = "2c"
    <3>1. WirePart!runSnmpCheck(cfg) = WirePart!buildSnmpGetPacket(c, o, 1)
      BY <2>3 DEF WirePart!runSnmpCheck
    <3>2. 1 = WirePart!Number(cfg.version)
      BY <2>3 DEF WirePart!Number
    <3> QED
      BY <1>3, <3>1, <3>2, ProbeRead
  <2>4. CASE cfg.version = "3"
    BY <2>1, <2>4 DEF WirePart!WireRead
  <2> QED
    BY <2>1, <2>2, <2>3, <2>4
<1>4. ASSUME NEW cfg \in WirePart!Settings,
             sent = Sent("tester", cfg, WirePart!checkSnmpUdp(cfg))
      PROVE  WirePart!WireRead
  <2>1. sent.by = "tester"
    BY <1>4 DEF Sent
  <2> QED
    BY <2>1 DEF WirePart!WireRead
<1> QED
  BY <1>1, <1>2, <1>3, <1>4 DEF WireInv

(***************************************************************************)
(* What a device reads of the requests, for octets and numbers of any      *)
(* width, any communities and any object ids: a probe asks for exactly the *)
(* object its form names, when that is one the encoder can tell from       *)
(* others, and the library sends the version 1 or 2c it is asked for.      *)
(***************************************************************************)
THEOREM PacketsRead == WirePart!Spec => []WireRead
<1>1. WirePart!Spec => []WireInv
  BY WireInit, WireStep, PTL DEF WirePart!Spec
<1> QED
  BY <1>1, AllRead, PTL

-----------------------------------------------------------------------------
(***************************************************************************)
(* The parts beside each other.  A step of one leaves the others as they   *)
(* are.                                                                    *)
(***************************************************************************)
LEMMA PartsApart ==
    ASSUME [MCNext]_allVars
    PROVE  /\ topic' = topic
           /\ [Next]_vars /\ [AccountsNext]_accountVars /\ [HistoryNext]_historyVars
           /\ [ReportsPart!Next]_(ReportsPart!vars)
           /\ topic = "scans" => [ScansPart!Next]_(ScansPart!vars)
           /\ topic = "imports" => [ImportsPart!Next]_(ImportsPart!vars)
           /\ [SeedingPart!Next]_(SeedingPart!vars)
           /\ [ProbesPart!Next]_(ProbesPart!vars) /\ [WirePart!Next]_sent
<1> USE DEF allVars, reportVars, discoveryVars, seedVars, snmpVars, probeVars,
            ReportsPart!vars, ScansPart!vars, ImportsPart!vars, SeedingPart!vars,
            ProbesPart!vars
<1>1. CASE UNCHANGED allVars
  BY <1>1
<1>2. ASSUME NEW ids, DeskAt(ids), topic \notin {"scans", "imports"}
      PROVE  /\ Next
             /\ UNCHANGED <<topic, historyVars, reportVars, discoveryVars, accountVars,
                            seedVars, snmpVars>>
  BY <1>2 DEF DeskAt
<1>3. CASE topic = "scans" /\ DiscoveryMoves(ScansPart!Next)
  BY <1>3 DEF DiscoveryMoves
<1>4. CASE topic = "imports" /\ DiscoveryMoves(ImportsPart!Next)
  BY <1>4 DEF DiscoveryMoves
<1>5. CASE topic = "seeding" /\ SeedingAlone /\ SeedingPart!Next
  BY <1>5 DEF SeedingAlone
<1>6. CASE /\ topic = "reports" /\ ReportsPart!Next
           /\ UNCHANGED <<topic, vars, historyVars, discoveryVars, accountVars, seedVars, snmpVars>>
  BY <1>6
<1>7. CASE /\ topic = "history" /\ HistoryNext
           /\ UNCHANGED <<topic, vars, reportVars, discoveryVars, accountVars, seedVars, snmpVars>>
  BY <1>7
<1>8. CASE /\ topic = "accounts" /\ AccountsNext
           /\ UNCHANGED <<topic, vars, historyVars, reportVars, discoveryVars, seedVars, snmpVars>>
  BY <1>8
<1>9. CASE /\ topic = "packets" /\ WirePart!Next
           /\ UNCHANGED <<topic, vars, historyVars, reportVars, discoveryVars, accountVars,
                          seedVars, probeVars>>
  BY <1>9
<1>10. CASE /\ topic = "probes" /\ ProbesPart!Next
            /\ UNCHANGED <<topic, vars, historyVars, reportVars, discoveryVars, accountVars,
                           seedVars, sent>>
  BY <1>10
<1>11. CASE \/ topic = "dashboards" /\ DeskAt(Boards)
            \/ topic = "rules" /\ DeskAt(Rules)
            \/ topic = "incidents" /\ DeskAt(Incidents)
  <2>1. /\ Next /\ topic \notin {"scans", "imports"}
        /\ UNCHANGED <<topic, historyVars, reportVars, discoveryVars, accountVars,
                       seedVars, snmpVars>>
    BY <1>2, <1>11
  <2> QED BY <2>1
<1> QED
  BY <1>1, <1>3, <1>4, <1>5, <1>6, <1>7, <1>8, <1>9, <1>10, <1>11 DEF MCNext, SeedingAlone

\* A scan writes no asset.
NoAssets == asset \in [{} -> {}] /\ overlapped = {}

LEMMA ScansAlone ==
    ASSUME NoAssets, [ScansPart!Next]_(ScansPart!vars)
    PROVE  NoAssets'
<1>1. ASSUME NEW range, NEW step, NEW alive, ScansPart!Ask(range, step, alive)
      PROVE  UNCHANGED <<asset, overlapped>>
  <2>1. UNCHANGED <<asset, import, overlapped>>
    BY <1>1 DEF ScansPart!Ask
  <2> QED BY <2>1
<1>2. ASSUME ScansPart!ScanBatch PROVE UNCHANGED <<asset, overlapped>>
  <2>1. UNCHANGED <<asset, import, overlapped>>
    BY <1>2 DEF ScansPart!ScanBatch
  <2> QED BY <2>1
<1>3. UNCHANGED <<asset, overlapped>>
  BY <1>1, <1>2 DEF ScansPart!Next, ScansPart!vars, ScansPart!Discard
<1> QED BY <1>3 DEF NoAssets

OfficeInv ==
    /\ DeskInv /\ SawRight /\ TogglesCount /\ DeskTypes
    /\ DOMAIN solved = Incidents /\ ResolvedCounted
    /\ EmailInv /\ AdminInv /\ AccountTypes
    /\ ReportInv /\ ReportTypes
    /\ topic = "scans" => ScanInv /\ ScanTyped /\ NoAssets
    /\ topic = "imports" => ImportInv /\ ImportTypes
    /\ SeedInv /\ SeedTypes
    /\ ProbesInv /\ HistoryInv /\ WireInv

LEMMA OfficeInit ==
    ASSUME "none" \notin Emails, "none" \notin Orgs
    PROVE  MCInit => OfficeInv
<1> SUFFICES ASSUME MCInit PROVE OfficeInv
  OBVIOUS
<1>1. /\ Init /\ AccountsInit /\ HistoryInit
      /\ ReportsPart!Init /\ SeedingPart!Init /\ ProbesPart!Init /\ WirePart!Init
      /\ topic = "scans" => ScansPart!Init
      /\ topic = "imports" => ImportsPart!Init
  BY DEF MCInit
<1>2. DOMAIN solved = Incidents /\ ResolvedCounted
  BY <1>1 DEF Init, ResolvedCounted, Gone, Row, Ids
<1>3. EmailInv
  BY <1>1, InitAccounts DEF AccountsInit, EmailInv, EmailFree, EmailApart, NoAccount, NoCall
<1>4. AdminInv
  BY <1>1, InitAccounts DEF AccountsInit, AdminInv, Inside, RemoverStays, AdminRemains,
                            NoAccount, NoCall
<1>5. ReportInv
  BY <1>1 DEF ReportsPart!Init, ReportInv
<1>6. ASSUME topic = "scans" PROVE ScanInv /\ ScanTyped /\ NoAssets
  <2>1. ScansPart!Init
    BY <1>1, <1>6
  <2> QED BY <2>1, ScanInit DEF ScansPart!Init, ScansPart!NoScan, ScanTyped, NoAssets
<1> QED
  BY <1>1, <1>2, <1>3, <1>4, <1>5, <1>6, InitDesk, DeskTypesInit, AccountTypesInit,
     ReportTypesInit, InitImport, ImportTypesInit, SeedInit, SeedTypesInit, ProbesInit,
     HistoryInitInv, WireInit DEF OfficeInv

LEMMA OfficeStep ==
    ASSUME Rules \intersect Boards = {}, "none" \notin Emails, "none" \notin Orgs
    PROVE  OfficeInv /\ [MCNext]_allVars => OfficeInv'
<1> SUFFICES ASSUME OfficeInv, [MCNext]_allVars PROVE OfficeInv'
  OBVIOUS
<1>1. DeskInv /\ SawRight /\ TogglesCount /\ DeskTypes /\ DOMAIN solved = Incidents
      /\ ResolvedCounted /\ Shape /\ TogglesInv /\ ResolvedInv
  BY DEF OfficeInv, DeskInv, TogglesInv, ResolvedInv
<1>2. (DeskInv /\ SawRight /\ TogglesCount /\ DeskTypes /\ DOMAIN solved = Incidents
        /\ ResolvedCounted)'
  BY <1>1, PartsApart, ShapeStep, AloneStep, TogglesStep, ResolvedStep, DeskTypesStep
     DEF DeskInv
<1>3. (EmailInv /\ AdminInv /\ AccountTypes)'
  BY PartsApart, EmailStep, AdminStep, AccountTypesStep DEF OfficeInv
<1>4. (ReportInv /\ ReportTypes)'
  BY PartsApart, ReportStep, ReportTypesStep DEF OfficeInv
<1>5. ASSUME topic' = "scans" PROVE (ScanInv /\ ScanTyped /\ NoAssets)'
  <2>1. [ScansPart!Next]_(ScansPart!vars) /\ ScanInv /\ ScanTyped /\ NoAssets
    BY <1>5, PartsApart DEF OfficeInv
  <2>2. \/ scan' = scan \/ scan' = ScansPart!NoScan \/ ScansPart!ScanBatch
        \/ \E range \in ScansPart!Ranges, step \in Concurrency :
              \E alive \in ScansPart!Alive(range) : ScansPart!Ask(range, step, alive)
    BY <2>1 DEF ScansPart!Next, ScansPart!vars, ScansPart!Discard
  <2>3. ScanTyped'
    BY <2>1, <2>2, ScanTypes
  <2> QED BY <2>1, <2>3, ScanStep, ScansAlone
<1>6. ASSUME topic' = "imports" PROVE (ImportInv /\ ImportTypes)'
  <2>1. [ImportsPart!Next]_(ImportsPart!vars) /\ ImportInv /\ ImportTypes /\ ImportShape
    BY <1>6, PartsApart DEF OfficeInv, ImportInv
  <2> QED BY <2>1, ImportStep, ImportTypesStep
<1>7. (SeedInv /\ SeedTypes)'
  BY PartsApart, SeedStep, SeedTypesStep DEF OfficeInv
<1>8. ProbesInv' /\ HistoryInv' /\ WireInv'
  BY PartsApart, ProbesStep, HistoryStep, WireStep DEF OfficeInv
<1> QED BY <1>2, <1>3, <1>4, <1>5, <1>6, <1>7, <1>8 DEF OfficeInv

LEMMA OfficeTyped == OfficeInv => MCTypeOK
<1> SUFFICES ASSUME OfficeInv PROVE MCTypeOK
  OBVIOUS
<1>1. DeskTypeOK /\ AccountsTypeOK
  BY AccountTypesAre DEF OfficeInv, DeskTypes
<1>2. ASSUME topic = "scans" PROVE ScansPart!DiscoveryTypeOK
  <2>1. ScanTyped /\ NoAssets
    BY <1>2 DEF OfficeInv
  <2>2. asset \in [{} -> [ip : ScansPart!Address \union {ScansPart!None}, active : BOOLEAN,
                          by : {"none", "user", "import"}]]
    BY <2>1 DEF NoAssets
  <2> QED BY <2>1, <2>2 DEF NoAssets, ScanTyped, ScansPart!DiscoveryTypeOK
<1>3. ASSUME topic = "imports" PROVE ImportsPart!DiscoveryTypeOK
  <2>1. ImportTypes /\ ImportScanTyped
    BY <1>3 DEF OfficeInv, ImportTypes
  <2> QED BY <2>1 DEF ImportTypes, ImportScanTyped, ImportRowTyped, AssetRow,
                      ImportsPart!DiscoveryTypeOK
<1>4. ReportsPart!ReportsTypeOK /\ SeedingPart!SeedingTypeOK
  BY ReportTypesAre, SeedTypesAre DEF OfficeInv
<1>5. ProbesPart!ProbesTypeOK
  BY DEF OfficeInv, ProbesInv, ProbeOK, ProbeRow, ProbesPart!ProbesTypeOK
<1> QED BY <1>1, <1>2, <1>3, <1>4, <1>5 DEF MCTypeOK

(***************************************************************************)
(* Types, for any number of rows, requests, callers, imports and           *)
(* restarts, and any size of the address space.  A rule is not a           *)
(* dashboard, and "none" is what an account or a call without an           *)
(* organization or an address holds.                                       *)
(***************************************************************************)
THEOREM OfficeTypes ==
    ASSUME Rules \intersect Boards = {}, "none" \notin Emails, "none" \notin Orgs
    PROVE  MCSpec => []MCTypeOK
<1> USE DEF MCSpec
<1>1. MCInit => OfficeInv
  BY OfficeInit
<1>2. OfficeInv /\ [MCNext]_allVars => OfficeInv'
  BY OfficeStep
<1> QED BY <1>1, <1>2, OfficeTyped, PTL

OfficePromises ==
    /\ OneDefault /\ TogglesCount /\ ResolvedCounted
    /\ EmailOnce /\ AdminRemains /\ TransitionsTell
    /\ ScanExact /\ ImportedOnce
    /\ Coherent /\ SeedWhole /\ ProbesContained /\ WireRead

(***************************************************************************)
(* The back office as a whole keeps what its parts promise one by one:     *)
(* each part's promise, whatever the others' requests do meanwhile.        *)
(***************************************************************************)
THEOREM OfficeKeeps ==
    ASSUME Rules \intersect Boards = {}, "none" \notin Emails, "none" \notin Orgs
    PROVE  MCSpec => []OfficePromises
<1> USE DEF MCSpec
<1>1. MCInit => OfficeInv
  BY OfficeInit
<1>2. OfficeInv /\ [MCNext]_allVars => OfficeInv'
  BY OfficeStep
<1>3. OfficeInv => OfficePromises
  <2> SUFFICES ASSUME OfficeInv PROVE OfficePromises
    OBVIOUS
  <2>1. OneDefault /\ TogglesCount /\ ResolvedCounted
    BY AloneOne DEF OfficeInv, DeskInv
  <2>2. EmailOnce
    BY DEF OfficeInv, EmailInv, EmailApart, EmailOnce, AccountShape
  <2>3. AdminRemains
    BY DEF OfficeInv, AdminInv
  <2>4. ScanExact
    <3>1. topic # "scans" => ScanExact
      BY DEF ScanExact
    <3> QED BY <3>1, ScanTells DEF OfficeInv
  <2>5. ImportedOnce
    BY DEF OfficeInv, ImportInv, ImportedOnce
  <2>6. Coherent /\ SeedWhole
    BY CountsTell, SeedAnswer DEF OfficeInv
  <2>7. ProbesContained
    BY DEF OfficeInv, ProbesInv, ProbesContained, ProbesPart!ProbesContained, ProbeOK, FreeSlot
  <2>8. TransitionsTell
    BY TransitionsRead DEF OfficeInv
  <2>9. WireRead
    BY AllRead DEF OfficeInv
  <2> QED BY <2>1, <2>2, <2>3, <2>4, <2>5, <2>6, <2>7, <2>8, <2>9 DEF OfficePromises
<1> QED BY <1>1, <1>2, <1>3, PTL

=============================================================================
