--------------------------- MODULE SessionsProofs ---------------------------
(***************************************************************************)
(* What the token table and the browser's tabs keep, for any number of     *)
(* tabs, of requests under way, of token pairs and of faults.              *)
(***************************************************************************)
EXTENDS Sessions, TLAPS

USE DEF NoPair

Held == Pairs \union {NoPair}

Types ==
    /\ token \in [Pairs -> {"none", "valid", "revoked", "expired"}]
    /\ store \in Held
    /\ refreshing \in [Tabs -> BOOLEAN]
    /\ request \in [Requests -> Request]
    /\ parent \in [Pairs -> [of : Held, by : Tabs \union {NoPair}]]
    /\ orphans \subseteq Orphan

\* A request that is exchanging a token has raised its tab's flag.
Exchanging == {"reading", "rotating", "issuing", "renewed", "refused"}

Flagged ==
    /\ \A r \in Requests : request[r].pc \in Exchanging => refreshing[TabOf[r]]
    /\ \A r, s \in Requests :
          /\ request[r].pc \in Exchanging /\ request[s].pc \in Exchanging
          /\ TabOf[r] = TabOf[s]
          => r = s

\* It presents a token, and has revoked it before it is given a pair.
Presents ==
    \A r \in Requests :
        /\ request[r].pc \in {"reading", "rotating", "issuing"} => request[r].rt \in Pairs
        /\ request[r].pc = "issuing" => token[request[r].rt] = "revoked"

\* What has been exchanged is revoked, and is nothing else's parent in a tab
\* that is about to exchange it.
ParentsRevoked ==
    \A p \in Pairs : parent[p].of # NoPair => token[parent[p].of] = "revoked"

NotYet ==
    \A r \in Requests, p \in Pairs :
        request[r].pc \in {"rotating", "issuing"}
          => parent[p] # [of |-> request[r].rt, by |-> TabOf[r]]

ExchangeInv == Types /\ Flagged /\ Presents /\ ParentsRevoked /\ NotYet /\ IssuedOnce

-----------------------------------------------------------------------------
LEMMA IdleType == Idle \in Request
BY DEF Idle, Request, PC, Kinds

LEMMA RequestForms ==
    ASSUME NEW x \in Request, NEW pc \in PC, NEW kind \in Kinds, NEW p \in Held, NEW q \in Held
    PROVE  /\ [x EXCEPT !.pc = pc] \in Request
           /\ [x EXCEPT !.pc = pc, !.kind = kind] \in Request
           /\ [x EXCEPT !.pc = pc, !.pair = p] \in Request
           /\ [x EXCEPT !.pc = pc, !.kind = kind, !.pair = p] \in Request
           /\ [x EXCEPT !.pc = pc, !.access = p] \in Request
           /\ [x EXCEPT !.pc = pc, !.retried = TRUE, !.access = q, !.rt = p] \in Request
           /\ [x EXCEPT !.pc = pc, !.access = p, !.rt = NoPair, !.pair = NoPair] \in Request
           /\ [x EXCEPT !.pc = pc, !.kind = kind, !.access = p, !.body = q] \in Request
BY DEF Request, Held

LEMMA BecomeType ==
    ASSUME Types, NEW r \in Requests, NEW q \in Request, Become(r, q)
    PROVE  request' \in [Requests -> Request]
BY DEF Types, Become

LEMMA GotoType ==
    ASSUME Types, NEW r \in Requests, NEW pc \in PC, Goto(r, pc)
    PROVE  request' \in [Requests -> Request]
<1>1. request \in [Requests -> Request]
  BY DEF Types
<1>2. request' = [request EXCEPT ![r] = [request[r] EXCEPT !.pc = pc]]
  BY DEF Goto
<1>3. [request[r] EXCEPT !.pc = pc] \in Request
  <2>1. NoPair \in Held /\ "get" \in Kinds
    BY DEF Held, Kinds
  <2> QED BY <1>1, <2>1, RequestForms
<1> QED BY <1>1, <1>2, <1>3

LEMMA UnderwayType ==
    ASSUME Types, Presents, NEW R \in SUBSET Requests
    PROVE  Underway(R) \subseteq Orphan
<1>1. \A r \in R : request[r].body \in Held
  BY DEF Types, Request, Held
<1>2. \A r \in R : request[r].pc \in {"reading", "rotating"} => request[r].rt \in Pairs
  BY DEF Presents
<1>3. \A r \in R : request[r].body # NoPair => request[r].body \in Pairs
  BY <1>1 DEF Held
<1> QED BY <1>2, <1>3 DEF Underway, Orphan

LEMMA InitTypes == Init => Types
BY IdleType, SessionAssumption DEF Init, Types, Held

\* Rows are issued once: a fresh pair has no row yet.
LEMMA FreshType == ASSUME NEW p \in Fresh PROVE p \in Pairs /\ token[p] = "none"
BY DEF Fresh

LEMMA RejectType ==
    ASSUME Types, NEW r \in Requests, Reject(r)
    PROVE  request' \in [Requests -> Request]
<1>1. NoPair \in Held /\ "closing" \in PC
  BY DEF Held, PC
<1>2. request[r].kind \in Kinds
  BY DEF Types, Request
<1>3. [Idle EXCEPT !.pc = "closing", !.kind = request[r].kind] \in Request
  BY <1>1, <1>2, IdleType, RequestForms
<1> QED BY <1>3, IdleType, BecomeType DEF Reject

LEMMA Rejected ==
    ASSUME Types, NEW r \in Requests, Reject(r)
    PROVE  /\ \A s \in Requests \ {r} : request'[s] = request[s]
           /\ request'[r].pc \in {"closing", "idle"}
<1>1. Idle.pc = "idle" /\ [Idle EXCEPT !.pc = "closing", !.kind = request[r].kind].pc = "closing"
  BY DEF Idle
<1>2. CASE Become(r, Idle)
  BY <1>1, <1>2 DEF Become, Types
<1>3. CASE Become(r, [Idle EXCEPT !.pc = "closing", !.kind = request[r].kind])
  BY <1>1, <1>3 DEF Become, Types
<1> QED BY <1>2, <1>3 DEF Reject

LEMMA AnewType ==
    ASSUME Types, Presents, NEW t \in Tabs, LoadAnew(t)
    PROVE  /\ refreshing' \in [Tabs -> BOOLEAN]
           /\ request' \in [Requests -> Request]
           /\ orphans' \subseteq Orphan
<1>1. OfTab(t) \in SUBSET Requests
  BY DEF OfTab
<1>2. Underway(OfTab(t)) \subseteq Orphan
  BY <1>1, UnderwayType
<1> QED BY <1>2, IdleType DEF Types, LoadAnew

LEMMA FormType ==
    ASSUME Types, Presents, NEW t \in Tabs, ToLoginForm(t)
    PROVE  /\ store' \in Held /\ refreshing' \in [Tabs -> BOOLEAN]
           /\ request' \in [Requests -> Request]
           /\ orphans' \subseteq Orphan
BY AnewType DEF ToLoginForm, Held

LEMMA TypesStep == Types /\ Presents /\ [Next]_vars => Types'
<1> SUFFICES ASSUME Types, Presents, [Next]_vars PROVE Types'
  OBVIOUS
<1> USE SessionAssumption
<1>1. ASSUME NEW p \in Pairs, AccessExpires(p) \/ RefreshExpires(p) PROVE Types'
  BY <1>1 DEF Types, AccessExpires, RefreshExpires, browser, left
<1>2. ASSUME NEW r \in Requests, NEW kind \in Kinds, Send(r, kind) PROVE Types'
  <2> DEFINE pc == IF kind = "logout" /\ store = NoPair THEN "closing" ELSE "sent"
             body == IF kind = "logout" THEN store ELSE NoPair
  <2>0. pc \in PC /\ store \in Held /\ body \in Held
    BY DEF Types, PC, Held
  <2>a. [Idle EXCEPT !.pc = pc, !.kind = kind, !.access = store, !.body = body] \in Request
    <3> HIDE DEF pc, body
    <3> QED BY <2>0, IdleType, RequestForms
  <2>1. request' \in [Requests -> Request]
    BY <1>2, <2>a, BecomeType DEF Send
  <2> QED BY <1>2, <2>1 DEF Types, Send, server, browser, left
<1>3. ASSUME NEW r \in Requests, Deny(r) \/ Serve(r) \/ RefreshRead(r) PROVE Types'
  <2>1. request' \in [Requests -> Request]
    <3>1. \A pc \in {"denied", "rotating", "refused"} : pc \in PC
      BY DEF PC
    <3>2. [request[r] EXCEPT !.pc = "denied", !.access = NoPair] \in Request
      <4>1. request[r] \in Request /\ NoPair \in Held /\ "get" \in Kinds
        BY DEF Types, Held, Kinds
      <4> QED BY <3>1, <4>1, RequestForms
    <3> QED BY <1>3, <3>1, <3>2, IdleType, BecomeType, GotoType DEF Deny, Serve, RefreshRead
  <2> QED BY <1>3, <2>1 DEF Types, Deny, Serve, RefreshRead, server, browser, left
<1>4. ASSUME NEW r \in Requests, ServeLogout(r) \/ RefreshRevoke(r) PROVE Types'
  <2>1. request' \in [Requests -> Request]
    <3>1. "closing" \in PC /\ "issuing" \in PC
      BY DEF PC
    <3> QED BY <1>4, <3>1, GotoType DEF ServeLogout, RefreshRevoke
  <2> QED BY <1>4, <2>1 DEF Types, ServeLogout, RefreshRevoke, browser, left
<1>5. ASSUME NEW r \in Requests, Login(r) PROVE Types'
  <2> PICK p \in Fresh : /\ token' = [token EXCEPT ![p] = "valid"]
                         /\ Become(r, [Idle EXCEPT !.pc = "signedin", !.kind = "login",
                                                   !.pair = p])
    BY <1>5 DEF Login
  <2>1. request' \in [Requests -> Request]
    <3>1. "signedin" \in PC /\ "login" \in Kinds /\ p \in Held
      BY FreshType DEF PC, Kinds, Held
    <3> QED BY <3>1, IdleType, RequestForms, BecomeType
  <2> QED BY <1>5, <2>1, FreshType DEF Types, Login, browser, left
<1>6. ASSUME NEW r \in Requests, RefreshIssue(r) PROVE Types'
  <2>1. CASE Goto(r, "refused") /\ UNCHANGED <<token, parent>>
    <3>1. request' \in [Requests -> Request]
      BY <2>1, GotoType DEF PC
    <3> QED BY <1>6, <2>1, <3>1 DEF Types, RefreshIssue, browser, left
  <2>2. ASSUME NEW p \in Fresh,
               token' = [token EXCEPT ![p] = "valid"],
               parent' = [parent EXCEPT ![p] = [of |-> request[r].rt, by |-> TabOf[r]]],
               Become(r, [request[r] EXCEPT !.pc = "renewed", !.pair = p])
        PROVE  Types'
    <3>1. request' \in [Requests -> Request]
      <4>1. "renewed" \in PC /\ p \in Held /\ "get" \in Kinds /\ request[r] \in Request
        BY FreshType DEF PC, Held, Kinds, Types
      <4>2. [request[r] EXCEPT !.pc = "renewed", !.pair = p] \in Request
        BY <4>1, RequestForms
      <4> QED BY <2>2, <4>2, BecomeType
    <3>2. parent' \in [Pairs -> [of : Held, by : Tabs \union {NoPair}]]
      BY <2>2, FreshType DEF Types, Request, Held
    <3> QED BY <1>6, <2>2, <3>1, <3>2, FreshType DEF Types, RefreshIssue, browser, left
  <2> QED BY <1>6, <2>1, <2>2 DEF RefreshIssue
<1>7. ASSUME NEW r \in Requests, Intercept(r) PROVE Types'
  <2>1. CASE Reject(r) /\ UNCHANGED <<browser, left>>
    BY <1>7, <2>1, RejectType DEF Types, Intercept, browser, server, left
  <2>2. CASE ToLoginForm(TabOf[r])
    BY <1>7, <2>2, FormType DEF Types, Intercept, server
  <2>3. CASE /\ store # NoPair
             /\ refreshing' = [refreshing EXCEPT ![TabOf[r]] = TRUE]
             /\ Become(r, [request[r] EXCEPT !.pc = "reading", !.retried = TRUE,
                                            !.access = NoPair, !.rt = store])
             /\ UNCHANGED <<store, page, left>>
    <3>1. request' \in [Requests -> Request]
      <4>1. /\ "reading" \in PC /\ store \in Held /\ "get" \in Kinds /\ NoPair \in Held
            /\ request[r] \in Request
        BY DEF PC, Kinds, Types, Held
      <4>2. [request[r] EXCEPT !.pc = "reading", !.retried = TRUE, !.access = NoPair,
                               !.rt = store] \in Request
        BY <4>1, RequestForms
      <4> QED BY <2>3, <4>2, BecomeType
    <3> QED BY <1>7, <2>3, <3>1 DEF Types, Intercept, server, left
  <2> QED BY <1>7, <2>1, <2>2, <2>3 DEF Intercept
<1>8. ASSUME NEW r \in Requests, Renewed(r) \/ SignedIn(r) PROVE Types'
  <2>1. request' \in [Requests -> Request] /\ store' \in Held
    <3> DEFINE p == request[r].pair
    <3>1. p \in Held /\ "sent" \in PC /\ "get" \in Kinds /\ request[r] \in Request
      BY DEF PC, Kinds, Types, Request, Held
    <3>2. [request[r] EXCEPT !.pc = "sent", !.access = p, !.rt = NoPair, !.pair = NoPair]
            \in Request
      <4> HIDE DEF p
      <4> QED BY <3>1, RequestForms
    <3> QED BY <1>8, <3>1, <3>2, IdleType, BecomeType DEF Renewed, SignedIn
  <2> QED BY <1>8, <2>1 DEF Types, Renewed, SignedIn, server, left
<1>9. ASSUME NEW r \in Requests, Refused(r) PROVE Types'
  BY <1>9, FormType DEF Types, Refused, server
<1>10. ASSUME NEW r \in Requests, Close(r) PROVE Types'
  BY <1>10, IdleType DEF Types, Close, Become, Held, server, left
<1>11. ASSUME NEW r \in Requests, Lose(r) PROVE Types'
  <2>1. request' \in [Requests -> Request]
    <3>1. CASE Reject(r)
      BY <3>1, RejectType
    <3>2. CASE Goto(r, "refused")
      BY <3>2, GotoType DEF PC
    <3> QED BY <1>11, <3>1, <3>2 DEF Lose
  <2>2. Underway({r}) \subseteq Orphan
    BY UnderwayType
  <2> QED BY <1>11, <2>1, <2>2 DEF Types, Lose, server, browser
<1>12. ASSUME NEW o \in orphans, OrphanStep(o) PROVE Types'
  <2>1. /\ o \in Orphan
        /\ token' = token \/ token' = [token EXCEPT ![o.rt] = "revoked"]
        /\ orphans' \subseteq orphans \union {[o EXCEPT !.at = "revoking"]}
    BY <1>12 DEF Types, OrphanStep
  <2>2. [o EXCEPT !.at = "revoking"] \in Orphan
    BY <2>1 DEF Orphan
  <2>3. token' \in [Pairs -> {"none", "valid", "revoked", "expired"}]
    BY <2>1 DEF Types
  <2> QED BY <1>12, <2>1, <2>2, <2>3 DEF Types, OrphanStep, browser
<1>13. ASSUME NEW t \in Tabs, Leave(t) PROVE Types'
  BY <1>13, AnewType DEF Types, Leave, server
<1>14. CASE UNCHANGED vars
  BY <1>14 DEF Types, vars
<1> QED BY <1>1, <1>2, <1>3, <1>4, <1>5, <1>6, <1>7, <1>8, <1>9, <1>10, <1>11, <1>12, <1>13, <1>14
        DEF Next, ServerStep, TabStep

-----------------------------------------------------------------------------
(***************************************************************************)
(* One request moves without beginning to exchange, and nothing that was   *)
(* revoked comes back.                                                     *)
(***************************************************************************)
LEMMA Bystander ==
    ASSUME ExchangeInv, Types', NEW r \in Requests,
           \A s \in Requests \ {r} : request'[s] = request[s],
           request'[r].pc \notin {"reading", "rotating", "issuing"},
           request'[r].pc \in Exchanging => request[r].pc \in Exchanging,
           refreshing' = refreshing, parent' = parent,
           \A p \in Pairs : token[p] = "revoked" => token'[p] = "revoked"
    PROVE  ExchangeInv'
<1>1. Flagged'
  BY DEF ExchangeInv, Flagged
<1>2. Presents'
  BY DEF ExchangeInv, Presents
<1>3. ParentsRevoked'
  BY DEF ExchangeInv, ParentsRevoked, Types, Held
<1>4. NotYet' /\ IssuedOnce'
  BY DEF ExchangeInv, NotYet, IssuedOnce
<1> QED BY <1>1, <1>2, <1>3, <1>4 DEF ExchangeInv

\* A tab is left: its requests are gone, and its flag.
LEMMA Navigated ==
    ASSUME ExchangeInv, Types', NEW t \in Tabs, LoadAnew(t),
           parent' = parent, token' = token
    PROVE  ExchangeInv'
<1>1. /\ \A s \in Requests : request'[s] = IF TabOf[s] = t THEN Idle ELSE request[s]
      /\ \A u \in Tabs \ {t} : refreshing'[u] = refreshing[u]
      /\ Idle.pc \notin Exchanging
  BY DEF LoadAnew, ExchangeInv, Types, Idle, Exchanging
<1>2. Flagged'
  BY <1>1, SessionAssumption DEF ExchangeInv, Flagged
<1>3. Presents' /\ NotYet'
  BY <1>1 DEF ExchangeInv, Presents, NotYet, Exchanging
<1>4. ParentsRevoked' /\ IssuedOnce'
  BY DEF ExchangeInv, ParentsRevoked, IssuedOnce
<1> QED BY <1>2, <1>3, <1>4 DEF ExchangeInv

LEMMA InterceptExchange ==
    ASSUME ExchangeInv, Types', NEW r \in Requests, Intercept(r)
    PROVE  ExchangeInv'
<1>1. token' = token /\ parent' = parent /\ TabOf[r] \in Tabs
  BY SessionAssumption DEF Intercept, server
<1>2. CASE Reject(r) /\ UNCHANGED <<browser, left>>
  <2> QED BY <1>1, <1>2, Rejected, Bystander DEF ExchangeInv, browser, Exchanging
<1>3. CASE ToLoginForm(TabOf[r])
  BY <1>1, <1>3, Navigated DEF ToLoginForm
<1>4. CASE /\ ~request[r].retried /\ ~refreshing[TabOf[r]] /\ store # NoPair
           /\ refreshing' = [refreshing EXCEPT ![TabOf[r]] = TRUE]
           /\ Become(r, [request[r] EXCEPT !.pc = "reading", !.retried = TRUE,
                                          !.access = NoPair, !.rt = store])
  <2>1. /\ request'[r].pc = "reading" /\ request'[r].rt = store /\ store \in Pairs
        /\ \A s \in Requests \ {r} : request'[s] = request[s]
    <3>1. store \in Pairs
      BY <1>4 DEF ExchangeInv, Types, Held
    <3>2. request[r] \in Request
      BY DEF ExchangeInv, Types
    <3>3. /\ request' = [request EXCEPT ![r] = [request[r] EXCEPT !.pc = "reading", !.retried = TRUE,
                                                !.access = NoPair, !.rt = store]]
          /\ request \in [Requests -> Request]
      BY <1>4 DEF Become, ExchangeInv, Types
    <3>4. LET y == [request[r] EXCEPT !.pc = "reading", !.retried = TRUE, !.access = NoPair,
                                      !.rt = store]
          IN  y.pc = "reading" /\ y.rt = store
      BY <3>2 DEF Request
    <3> QED BY <3>1, <3>3, <3>4
  <2>2. \A s \in Requests : TabOf[s] = TabOf[r] => request[s].pc \notin Exchanging
    BY <1>4 DEF ExchangeInv, Flagged
  <2>3. /\ refreshing'[TabOf[r]]
        /\ \A u \in Tabs \ {TabOf[r]} : refreshing'[u] = refreshing[u]
    BY <1>1, <1>4 DEF ExchangeInv, Types
  <2>4. Flagged'
    BY <2>1, <2>2, <2>3, SessionAssumption DEF ExchangeInv, Flagged
  <2>5. Presents' /\ NotYet'
    BY <1>1, <2>1 DEF ExchangeInv, Presents, NotYet
  <2>6. ParentsRevoked' /\ IssuedOnce'
    BY <1>1 DEF ExchangeInv, ParentsRevoked, IssuedOnce
  <2> QED BY <2>4, <2>5, <2>6 DEF ExchangeInv
<1> QED BY <1>2, <1>3, <1>4 DEF Intercept

LEMMA RenewedExchange ==
    ASSUME ExchangeInv, Types', NEW r \in Requests, Renewed(r)
    PROVE  ExchangeInv'
<1>1. /\ request[r].pc = "renewed" /\ request'[r].pc = "sent"
      /\ \A s \in Requests \ {r} : request'[s] = request[s]
      /\ token' = token /\ parent' = parent
  BY DEF Renewed, Become, server, ExchangeInv, Types, Request
<1>2. \A s \in Requests \ {r} : TabOf[s] = TabOf[r] => request[s].pc \notin Exchanging
  BY <1>1 DEF ExchangeInv, Flagged, Exchanging
<1>3. \A u \in Tabs \ {TabOf[r]} : refreshing'[u] = refreshing[u]
  BY DEF Renewed, ExchangeInv, Types
<1>4. Flagged'
  BY <1>1, <1>2, <1>3, SessionAssumption DEF ExchangeInv, Flagged, Exchanging
<1>5. Presents' /\ NotYet'
  BY <1>1 DEF ExchangeInv, Presents, NotYet
<1>6. ParentsRevoked' /\ IssuedOnce'
  BY <1>1 DEF ExchangeInv, ParentsRevoked, IssuedOnce
<1> QED BY <1>4, <1>5, <1>6 DEF ExchangeInv

(***************************************************************************)
(* refreshTokens: a token that is read as valid has not been exchanged; it *)
(* is revoked before a pair is issued for it; and nobody else of the tab   *)
(* exchanges meanwhile.                                                    *)
(***************************************************************************)
LEMMA ReadExchange ==
    ASSUME ExchangeInv, Types', NEW r \in Requests, RefreshRead(r)
    PROVE  ExchangeInv'
<1>1. /\ \A s \in Requests \ {r} : request'[s] = request[s]
      /\ request[r].pc = "reading" /\ request'[r].rt = request[r].rt
      /\ request'[r].pc = IF token[request[r].rt] = "valid" THEN "rotating" ELSE "refused"
      /\ token' = token /\ parent' = parent /\ refreshing' = refreshing
  BY DEF RefreshRead, Goto, ExchangeInv, Types, Request, server, browser
<1>2. CASE token[request[r].rt] # "valid"
  BY <1>1, <1>2, Bystander DEF Exchanging
<1>3. CASE token[request[r].rt] = "valid"
  <2>1. Flagged' /\ Presents'
    BY <1>1, <1>3 DEF ExchangeInv, Flagged, Presents, Exchanging
  <2>2. \A p \in Pairs : parent[p].of # request[r].rt
    BY <1>1, <1>3 DEF ExchangeInv, ParentsRevoked, Presents, Pairs
  <2>3. NotYet'
    BY <1>1, <1>3, <2>2 DEF ExchangeInv, NotYet
  <2>4. ParentsRevoked' /\ IssuedOnce'
    BY <1>1 DEF ExchangeInv, ParentsRevoked, IssuedOnce
  <2> QED BY <2>1, <2>3, <2>4 DEF ExchangeInv
<1> QED BY <1>2, <1>3

LEMMA RevokeExchange ==
    ASSUME ExchangeInv, Types', NEW r \in Requests, RefreshRevoke(r)
    PROVE  ExchangeInv'
<1>1. /\ \A s \in Requests \ {r} : request'[s] = request[s]
      /\ request[r].pc = "rotating" /\ request'[r].rt = request[r].rt
      /\ request'[r].pc = "issuing" /\ request[r].rt \in Pairs
      /\ parent' = parent /\ refreshing' = refreshing
  BY DEF RefreshRevoke, Goto, ExchangeInv, Types, Request, Presents, browser
<1>2. /\ token'[request[r].rt] = "revoked"
      /\ \A p \in Pairs : token[p] = "revoked" => token'[p] = "revoked"
  BY <1>1 DEF RefreshRevoke, ExchangeInv, Types
<1>3. Flagged' /\ Presents'
  BY <1>1, <1>2 DEF ExchangeInv, Flagged, Presents, Exchanging
<1>4. NotYet' /\ IssuedOnce'
  BY <1>1 DEF ExchangeInv, NotYet, IssuedOnce
<1>5. ParentsRevoked'
  BY <1>1, <1>2 DEF ExchangeInv, ParentsRevoked, Types, Held
<1> QED BY <1>3, <1>4, <1>5 DEF ExchangeInv

LEMMA IssueExchange ==
    ASSUME ExchangeInv, Types', NEW r \in Requests, RefreshIssue(r)
    PROVE  ExchangeInv'
<1>1. /\ request[r].pc = "issuing" /\ request[r].rt \in Pairs
      /\ token[request[r].rt] = "revoked" /\ refreshing' = refreshing
  BY DEF RefreshIssue, ExchangeInv, Presents, browser
<1>2. CASE Goto(r, "refused") /\ UNCHANGED <<token, parent>>
  <2>1. /\ \A s \in Requests \ {r} : request'[s] = request[s]
        /\ request'[r].pc = "refused"
    BY <1>2 DEF Goto, ExchangeInv, Types, Request
  <2> QED BY <1>1, <1>2, <2>1, Bystander DEF Exchanging
<1>3. ASSUME NEW p \in Fresh,
             token' = [token EXCEPT ![p] = "valid"],
             parent' = [parent EXCEPT ![p] = [of |-> request[r].rt, by |-> TabOf[r]]],
             Become(r, [request[r] EXCEPT !.pc = "renewed", !.pair = p])
      PROVE  ExchangeInv'
  <2>1. /\ \A s \in Requests \ {r} : request'[s] = request[s]
        /\ request'[r].pc = "renewed"
    BY <1>3 DEF Become, ExchangeInv, Types, Request
  <2>2. /\ p \in Pairs /\ token[p] = "none"
        /\ \A q \in Pairs : token[q] = "revoked" => token'[q] = "revoked"
    BY <1>3, FreshType DEF ExchangeInv, Types
  <2>3. /\ parent'[p] = [of |-> request[r].rt, by |-> TabOf[r]]
        /\ \A q \in Pairs \ {p} : parent'[q] = parent[q]
    BY <1>3, <2>2 DEF ExchangeInv, Types
  <2>4. Flagged' /\ Presents'
    BY <1>1, <2>1, <2>2 DEF ExchangeInv, Flagged, Presents, Exchanging
  <2>5. ParentsRevoked'
    <3>1. parent'[p].of = request[r].rt
      BY <2>3
    <3>2. ASSUME NEW q \in Pairs, parent'[q].of # NoPair
          PROVE  token'[parent'[q].of] = "revoked"
      <4>1. CASE q = p
        BY <1>1, <2>2, <3>1, <4>1
      <4>2. CASE q # p
        <5>1. parent[q].of \in Pairs /\ token[parent[q].of] = "revoked"
          BY <2>3, <3>2, <4>2 DEF ExchangeInv, ParentsRevoked, Types, Held
        <5> QED BY <2>2, <2>3, <4>2, <5>1
      <4> QED BY <4>1, <4>2
    <3> QED BY <3>2 DEF ParentsRevoked
  <2>6. NotYet'
    <3>1. ASSUME NEW s \in Requests, request'[s].pc \in {"rotating", "issuing"}
          PROVE  parent'[p] # [of |-> request'[s].rt, by |-> TabOf[s]]
      <4>1. s # r /\ request[s].pc \in Exchanging
        BY <2>1, <3>1 DEF Exchanging
      <4>2. TabOf[s] # TabOf[r]
        BY <1>1, <4>1 DEF ExchangeInv, Flagged, Exchanging
      <4> QED BY <2>3, <4>2
    <3> QED BY <2>1, <2>3, <3>1 DEF ExchangeInv, NotYet
  <2>7. IssuedOnce'
    <3>1. \A q \in Pairs \ {p} : parent[q] # parent'[p]
      BY <1>1, <2>3 DEF ExchangeInv, NotYet
    <3> QED BY <2>3, <3>1 DEF ExchangeInv, IssuedOnce
  <2> QED BY <2>4, <2>5, <2>6, <2>7 DEF ExchangeInv
<1> QED BY <1>2, <1>3 DEF RefreshIssue

LEMMA ExchangeStep == ExchangeInv /\ [Next]_vars => ExchangeInv'
<1> SUFFICES ASSUME ExchangeInv, [Next]_vars PROVE ExchangeInv'
  OBVIOUS
<1>t. Types'
  BY TypesStep DEF ExchangeInv
<1>i. Types /\ Idle.pc = "idle"
  BY DEF ExchangeInv, Idle
<1>1. ASSUME NEW p \in Pairs, AccessExpires(p) \/ RefreshExpires(p) PROVE ExchangeInv'
  <2>1. /\ request' = request /\ parent' = parent /\ refreshing' = refreshing
        /\ \A q \in Pairs : token[q] = "revoked" => token'[q] = "revoked"
    BY <1>1, <1>i DEF AccessExpires, RefreshExpires, browser, Types
  <2>2. Flagged' /\ Presents' /\ NotYet' /\ IssuedOnce'
    BY <2>1 DEF ExchangeInv, Flagged, Presents, NotYet, IssuedOnce
  <2>3. ParentsRevoked'
    BY <2>1 DEF ExchangeInv, ParentsRevoked, Types, Held
  <2> QED BY <1>t, <2>2, <2>3 DEF ExchangeInv
<1>2. ASSUME NEW r \in Requests, NEW kind \in Kinds, Send(r, kind) PROVE ExchangeInv'
  <2>1. /\ \A s \in Requests \ {r} : request'[s] = request[s]
        /\ request'[r].pc \in {"closing", "sent"}
        /\ refreshing' = refreshing /\ parent' = parent /\ token' = token
    BY <1>2, <1>i DEF Send, Become, Types, Idle, server, browser
  <2> QED BY <1>t, <2>1, Bystander DEF Exchanging
<1>3. ASSUME NEW r \in Requests, Deny(r) \/ Serve(r) \/ SignedIn(r) \/ Close(r)
      PROVE  ExchangeInv'
  <2>1. /\ \A s \in Requests \ {r} : request'[s] = request[s]
        /\ request'[r].pc \in {"denied", "idle"}
        /\ refreshing' = refreshing /\ parent' = parent /\ token' = token
    <3>1. [request[r] EXCEPT !.pc = "denied", !.access = NoPair].pc = "denied"
      BY <1>i DEF Types, Request
    <3>2. \E q : Become(r, q) /\ q.pc \in {"denied", "idle"}
      BY <1>3, <1>i, <3>1 DEF Deny, Serve, SignedIn, Close
    <3>3. refreshing' = refreshing /\ parent' = parent /\ token' = token
      BY <1>3 DEF Deny, Serve, SignedIn, Close, server, browser
    <3> QED BY <1>i, <3>2, <3>3 DEF Become, Types
  <2> QED BY <1>t, <2>1, Bystander DEF Exchanging
<1>4. ASSUME NEW r \in Requests, ServeLogout(r) PROVE ExchangeInv'
  <2>1. /\ \A s \in Requests \ {r} : request'[s] = request[s]
        /\ request'[r].pc = "closing"
        /\ refreshing' = refreshing /\ parent' = parent
        /\ \A p \in Pairs : token[p] = "revoked" => token'[p] = "revoked"
    BY <1>4, <1>i DEF ServeLogout, Goto, Types, Request, browser
  <2> QED BY <1>t, <2>1, Bystander DEF Exchanging
<1>5. ASSUME NEW r \in Requests, Login(r) PROVE ExchangeInv'
  <2> PICK p \in Fresh : /\ token' = [token EXCEPT ![p] = "valid"]
                         /\ Become(r, [Idle EXCEPT !.pc = "signedin", !.kind = "login",
                                                   !.pair = p])
    BY <1>5 DEF Login
  <2>1. /\ \A s \in Requests \ {r} : request'[s] = request[s]
        /\ request'[r].pc = "signedin"
        /\ refreshing' = refreshing /\ parent' = parent
    BY <1>5, <1>i DEF Login, Become, Types, Idle, browser
  <2>2. \A q \in Pairs : token[q] = "revoked" => token'[q] = "revoked"
    BY <1>i, FreshType DEF Types
  <2> QED BY <1>t, <2>1, <2>2, Bystander DEF Exchanging
<1>6. ASSUME NEW r \in Requests, Refused(r) PROVE ExchangeInv'
  BY <1>6, <1>t, Navigated, SessionAssumption DEF Refused, ToLoginForm, server
<1>7. ASSUME NEW r \in Requests, Lose(r) PROVE ExchangeInv'
  <2>1. refreshing' = refreshing /\ parent' = parent /\ token' = token
    BY <1>7 DEF Lose, server, browser
  <2>2. CASE request[r].pc \in {"sent", "signedin"} /\ Reject(r)
    BY <1>i, <1>t, <2>1, <2>2, Rejected, Bystander DEF Exchanging
  <2>3. CASE /\ request[r].pc \in {"reading", "rotating", "issuing", "renewed"}
             /\ Goto(r, "refused")
    <3>1. /\ \A s \in Requests \ {r} : request'[s] = request[s]
          /\ request'[r].pc = "refused"
      BY <2>3, <1>i DEF Goto, Types, Request
    <3> QED BY <1>t, <2>1, <2>3, <3>1, Bystander DEF Exchanging
  <2> QED BY <1>7, <2>2, <2>3 DEF Lose
<1>8. ASSUME NEW o \in orphans, OrphanStep(o) PROVE ExchangeInv'
  <2>1. /\ request' = request /\ parent' = parent /\ refreshing' = refreshing
        /\ token' = token \/ token' = [token EXCEPT ![o.rt] = "revoked"]
    BY <1>8 DEF OrphanStep, browser
  <2>2. \A q \in Pairs : token[q] = "revoked" => token'[q] = "revoked"
    BY <1>i, <2>1 DEF Types
  <2>3. Flagged' /\ Presents' /\ NotYet' /\ IssuedOnce'
    BY <2>1, <2>2 DEF ExchangeInv, Flagged, Presents, NotYet, IssuedOnce
  <2>4. ParentsRevoked'
    BY <2>1, <2>2 DEF ExchangeInv, ParentsRevoked, Types, Held
  <2> QED BY <1>t, <2>3, <2>4 DEF ExchangeInv
<1>9. ASSUME NEW t \in Tabs, Leave(t) PROVE ExchangeInv'
  BY <1>9, <1>t, Navigated DEF Leave, server
<1>10. CASE UNCHANGED vars
  BY <1>10, <1>t DEF vars, ExchangeInv, Flagged, Presents, ParentsRevoked, NotYet,
                    IssuedOnce
<1> QED BY <1>1, <1>2, <1>3, <1>4, <1>5, <1>6, <1>7, <1>8, <1>9, <1>10, <1>t, InterceptExchange,
           RenewedExchange, ReadExchange, RevokeExchange, IssueExchange
        DEF Next, ServerStep, TabStep

(***************************************************************************)
(* The flag does what it is for, with any number of tabs, requests and     *)
(* faults: of the requests of one tab that come back denied, one exchanges *)
(* the refresh token, and no other does so again later.                    *)
(***************************************************************************)
THEOREM ExchangedOnce == Spec => []ExchangedOncePerTab
<1>1. Init => ExchangeInv
  BY InitTypes DEF Init, ExchangeInv, Flagged, Presents, ParentsRevoked, NotYet,
                   IssuedOnce, Exchanging, Idle
<1>2. ExchangeInv => ExchangedOncePerTab
  BY DEF ExchangeInv, Flagged, NotYet, ExchangedOncePerTab, Rotates, Exchanging, OfTab
<1> QED BY <1>1, <1>2, ExchangeStep, PTL DEF Spec

-----------------------------------------------------------------------------
(***************************************************************************)
(* A pair on its way to the browser is known to nobody else: not to the    *)
(* store, not as the token a refresh presents or a logout names, not to    *)
(* another answer.  So nobody can revoke it before it arrives.             *)
(***************************************************************************)
Bringing == {"renewed", "signedin"}

Issued ==
    /\ store # NoPair => token[store] # "none"
    /\ \A o \in orphans : token[o.rt] # "none"
    /\ \A s \in Requests :
         /\ request[s].rt # NoPair => token[request[s].rt] # "none"
         /\ request[s].body # NoPair => token[request[s].body] # "none"
         /\ request[s].pair # NoPair => token[request[s].pair] # "none"

Unknown(p, r) ==
    /\ p \in Pairs /\ token[p] # "revoked" /\ store # p
    /\ \A o \in orphans : o.rt # p
    /\ \A s \in Requests :
         /\ request[s].rt # p /\ request[s].body # p
         /\ s # r /\ request[s].pc \in Bringing => request[s].pair # p

OnItsWay == \A r \in Requests : request[r].pc \in Bringing => Unknown(request[r].pair, r)

UsableInv == ExchangeInv /\ Issued /\ OnItsWay /\ StoreUsable

\* What is left to the backend is of tokens it, or a request, had already.
Inherited ==
    \A o \in orphans' :
        \/ \E q \in orphans : q.rt = o.rt
        \/ \E s \in Requests : o.rt \in {request[s].rt, request[s].body}

LEMMA UnderwayInherited ==
    ASSUME NEW R \in SUBSET Requests, orphans' = orphans \union Underway(R)
    PROVE  Inherited
BY DEF Inherited, Underway

LEMMA KeptInherited == orphans' = orphans => Inherited
BY DEF Inherited

\* Nothing new is brought, and what a request takes up it takes from the store.
LEMMA NothingNew ==
    ASSUME UsableInv, Types',
           \A p \in Pairs : token[p] # "none" => token'[p] # "none",
           store' \in {store, NoPair}, Inherited,
           \A s \in Requests :
              /\ request'[s].rt \in {request[s].rt, store, NoPair}
              /\ request'[s].body \in {request[s].body, store, NoPair}
              /\ request'[s].pair \in {request[s].pair, NoPair}
              /\ request'[s].pc \in Bringing =>
                    request[s].pc \in Bringing /\ request'[s].pair = request[s].pair
              /\ request[s].pc \in Bringing => token'[request[s].pair] # "revoked"
    PROVE  Issued' /\ OnItsWay'
<1>1. /\ store \in Held
      /\ \A s \in Requests : request[s].rt \in Held /\ request[s].body \in Held
                           /\ request[s].pair \in Held
  BY DEF UsableInv, ExchangeInv, Types, Request, Held
<1>o. \A o \in orphans' : o.rt \in Pairs
  BY DEF Types, Orphan
<1>2. Issued'
  <2>1. \A o \in orphans' : token[o.rt] # "none"
    BY <1>o DEF UsableInv, Issued, Inherited, Pairs
  <2> QED BY <1>1, <1>o, <2>1 DEF UsableInv, Issued, Held
<1>3. ASSUME NEW r \in Requests, request'[r].pc \in Bringing
      PROVE  Unknown(request[r].pair, r)'
  <2>1. Unknown(request[r].pair, r) /\ request'[r].pair = request[r].pair
        /\ token'[request[r].pair] # "revoked"
    BY <1>3 DEF UsableInv, OnItsWay
  <2>2. ASSUME NEW s \in Requests
        PROVE  /\ request'[s].rt # request[r].pair /\ request'[s].body # request[r].pair
               /\ s # r /\ request'[s].pc \in Bringing => request'[s].pair # request[r].pair
    BY <2>1 DEF Unknown, Pairs
  <2>3. \A o \in orphans' : o.rt # request[r].pair
    BY <2>1 DEF Unknown, Inherited
  <2> QED BY <2>1, <2>2, <2>3 DEF Unknown, Pairs
<1>4. OnItsWay'
  BY <1>3 DEF OnItsWay
<1> QED BY <1>2, <1>4

\* The same of a single request that moves; what it revokes is what it
\* presents or names, and is then owed to the store.
LEMMA OneMoves ==
    ASSUME UsableInv, ExchangeInv', NEW r \in Requests, Inherited, cut \subseteq cut',
           \A s \in Requests \ {r} : request'[s] = request[s],
           \A p \in Pairs :
              /\ token[p] # "none" => token'[p] # "none"
              /\ token'[p] = "revoked" =>
                    token[p] = "revoked" \/ p \in {request[r].rt, request[r].body},
           store' \in {store, NoPair},
           request'[r].rt \in {request[r].rt, store, NoPair},
           request'[r].body \in {request[r].body, store, NoPair},
           request'[r].pair \in {request[r].pair, NoPair},
           request'[r].pc \notin Bringing,
           \/ store' = NoPair
           \/ /\ Owed(r) # NoPair => Owed(r)' = Owed(r)
              /\ \A p \in Pairs : token'[p] = "revoked" => token[p] = "revoked" \/ Owed(r)' = p
    PROVE  UsableInv'
<1>1. \A s \in Requests : request[s].pc \in Bringing => token'[request[s].pair] # "revoked"
  BY DEF UsableInv, OnItsWay, Unknown
<1>2. Issued' /\ OnItsWay'
  <2>1. Types'
    BY DEF ExchangeInv
  <2>2. \A s \in Requests :
          /\ request'[s].rt \in {request[s].rt, store, NoPair}
          /\ request'[s].body \in {request[s].body, store, NoPair}
          /\ request'[s].pair \in {request[s].pair, NoPair}
          /\ request'[s].pc \in Bringing =>
                request[s].pc \in Bringing /\ request'[s].pair = request[s].pair
    OBVIOUS
  <2> QED BY <1>1, <2>1, <2>2, NothingNew
<1>3. StoreUsable'
  <2>1. store \in Pairs \union {NoPair}
    BY DEF UsableInv, ExchangeInv, Types, Held
  <2>2. CASE store' = NoPair
    BY <2>2 DEF StoreUsable
  <2>3. CASE /\ Owed(r) # NoPair => Owed(r)' = Owed(r)
             /\ \A p \in Pairs : token'[p] = "revoked" => token[p] = "revoked" \/ Owed(r)' = p
             /\ store' = store
    <3> SUFFICES ASSUME store # NoPair, token'[store] = "revoked", store \notin cut'
                 PROVE  \E s \in Requests : Owed(s)' = store
      BY <2>3 DEF StoreUsable
    <3>1. CASE token[store] # "revoked"
      BY <2>1, <2>3, <3>1
    <3>2. CASE token[store] = "revoked"
      <4>1. PICK s \in Requests : Owed(s) = store
        BY <3>2 DEF UsableInv, StoreUsable
      <4>2. CASE s = r
        BY <2>3, <4>1, <4>2
      <4>3. CASE s # r
        <5>1. Owed(s)' = Owed(s)
          BY <4>3 DEF Owed
        <5> QED BY <4>1, <5>1
      <4> QED BY <4>2, <4>3
    <3> QED BY <3>1, <3>2
  <2> QED BY <2>2, <2>3
<1> QED BY <1>2, <1>3 DEF UsableInv

LEMMA AnewUsable ==
    ASSUME UsableInv, Types', NEW t \in Tabs, LoadAnew(t), store' \in {store, NoPair},
           token' = token
    PROVE  Issued' /\ OnItsWay'
<1>1. /\ \A s \in Requests : request'[s] = IF TabOf[s] = t THEN Idle ELSE request[s]
      /\ Idle.pc \notin Bringing /\ Idle.rt = NoPair /\ Idle.body = NoPair /\ Idle.pair = NoPair
  BY DEF LoadAnew, UsableInv, ExchangeInv, Types, Idle, Bringing
<1>2. Inherited
  <2>1. OfTab(t) \in SUBSET Requests
    BY DEF OfTab
  <2> QED BY <2>1, UnderwayInherited DEF LoadAnew
<1>3. \A s \in Requests :
        /\ request'[s].rt \in {request[s].rt, store, NoPair}
        /\ request'[s].body \in {request[s].body, store, NoPair}
        /\ request'[s].pair \in {request[s].pair, NoPair}
        /\ request'[s].pc \in Bringing =>
              request[s].pc \in Bringing /\ request'[s].pair = request[s].pair
        /\ request[s].pc \in Bringing => token'[request[s].pair] # "revoked"
  BY <1>1 DEF UsableInv, OnItsWay, Unknown
<1> QED BY <1>2, <1>3, NothingNew

LEMMA FormUsable ==
    ASSUME UsableInv, ExchangeInv', NEW t \in Tabs, ToLoginForm(t), token' = token
    PROVE  UsableInv'
<1>1. store' = NoPair /\ LoadAnew(t) /\ Types'
  BY DEF ToLoginForm, ExchangeInv
<1>2. Issued' /\ OnItsWay'
  BY <1>1, AnewUsable
<1> QED BY <1>1, <1>2 DEF UsableInv, StoreUsable

\* What a tab that is left owed to the store is cut.
LEMMA LeaveUsable ==
    ASSUME UsableInv, ExchangeInv', NEW t \in Tabs, Leave(t)
    PROVE  UsableInv'
<1>1. /\ store' = store /\ token' = token /\ LoadAnew(t) /\ Types'
      /\ cut' = cut \union {p \in Pairs : token[p] = "revoked"
                                           /\ \E r \in OfTab(t) : Owed(r) = p}
  BY DEF Leave, server, ExchangeInv
<1>2. Issued' /\ OnItsWay'
  BY <1>1, AnewUsable
<1>3. StoreUsable'
  <2> SUFFICES ASSUME store # NoPair, token[store] = "revoked", store \notin cut'
               PROVE  \E s \in Requests : Owed(s)' = store
    BY <1>1 DEF StoreUsable
  <2>1. store \in Pairs
    BY DEF UsableInv, ExchangeInv, Types, Held
  <2>2. PICK s \in Requests : Owed(s) = store
    BY <1>1 DEF UsableInv, StoreUsable
  <2>3. TabOf[s] # t
    BY <1>1, <2>1, <2>2 DEF OfTab
  <2>4. request'[s] = request[s]
    BY <1>1, <2>3 DEF LoadAnew
  <2>5. Owed(s)' = Owed(s)
    BY <2>4 DEF Owed
  <2> QED BY <2>2, <2>5
<1> QED BY <1>2, <1>3 DEF UsableInv

\* What nobody awaits any more may revoke the stored token: it is cut.
LEMMA OrphanUsable ==
    ASSUME UsableInv, ExchangeInv', NEW o \in orphans, OrphanStep(o)
    PROVE  UsableInv'
<1>1. /\ request' = request /\ store' = store /\ o \in Orphan /\ Types' /\ Types
      /\ \/ token' = token /\ cut' = cut
         \/ token' = [token EXCEPT ![o.rt] = "revoked"] /\ cut' = cut \union {o.rt}
  BY DEF OrphanStep, browser, UsableInv, ExchangeInv, Types
<1>2. Inherited
  <2>1. orphans' \subseteq orphans \union {[o EXCEPT !.at = "revoking"]}
    BY DEF OrphanStep
  <2>2. [o EXCEPT !.at = "revoking"].rt = o.rt
    BY <1>1 DEF Orphan
  <2> QED BY <2>1, <2>2 DEF Inherited
<1>3. /\ \A p \in Pairs : token[p] # "none" => token'[p] # "none"
      /\ \A p \in Pairs : token'[p] = "revoked" => token[p] = "revoked" \/ (p \in cut' /\ p = o.rt)
      /\ cut \subseteq cut'
  <2>1. CASE token' = token /\ cut' = cut
    BY <2>1
  <2>2. CASE token' = [token EXCEPT ![o.rt] = "revoked"] /\ cut' = cut \union {o.rt}
    <3>1. \A p \in Pairs : token'[p] = IF p = o.rt THEN "revoked" ELSE token[p]
      BY <1>1, <2>2 DEF Types
    <3> QED BY <2>2, <3>1
  <2> QED BY <1>1, <2>1, <2>2
<1>4. \A s \in Requests : request[s].pc \in Bringing => token'[request[s].pair] # "revoked"
  BY <1>3 DEF UsableInv, OnItsWay, Unknown
<1>5. Issued' /\ OnItsWay'
  BY <1>1, <1>2, <1>3, <1>4, NothingNew
<1>6. StoreUsable'
  <2>1. store \in Held /\ \A s \in Requests : Owed(s)' = Owed(s)
    BY <1>1 DEF Types, Owed
  <2> QED BY <1>1, <1>3, <2>1 DEF UsableInv, StoreUsable, Held
<1> QED BY <1>5, <1>6 DEF UsableInv

\* The pair that is stored was known to nobody, so it is good.
LEMMA StoredUsable ==
    ASSUME UsableInv, ExchangeInv', NEW r \in Requests,
           request[r].pc \in Bringing, store' = request[r].pair, token' = token,
           \A s \in Requests \ {r} : request'[s] = request[s],
           request'[r].pc \notin Bringing, request'[r].rt = NoPair, request'[r].pair = NoPair,
           request'[r].body \in {request[r].body, NoPair}, orphans' = orphans
    PROVE  UsableInv'
<1>1. Unknown(request[r].pair, r)
  BY DEF UsableInv, OnItsWay
<1>2. Issued'
  BY <1>1 DEF UsableInv, Issued, Unknown, Pairs
<1>3. ASSUME NEW s \in Requests, request'[s].pc \in Bringing PROVE Unknown(request[s].pair, s)'
  <2>1. s # r /\ request'[s] = request[s] /\ Unknown(request[s].pair, s)
    BY <1>3 DEF UsableInv, OnItsWay
  <2>2. request[r].pair # request[s].pair
    BY <2>1 DEF Unknown
  <2>3. \A u \in Requests :
          /\ request'[u].rt # request[s].pair /\ request'[u].body # request[s].pair
          /\ u # s /\ request'[u].pc \in Bringing => request'[u].pair # request[s].pair
    BY <2>1 DEF Unknown, Pairs
  <2> QED BY <2>1, <2>2, <2>3 DEF Unknown
<1>4. StoreUsable'
  BY <1>1 DEF Unknown, StoreUsable
<1> QED BY <1>2, <1>3, <1>4 DEF UsableInv, OnItsWay

\* A pair that has just been issued is known to nobody.
LEMMA IssuedUsable ==
    ASSUME UsableInv, ExchangeInv', NEW r \in Requests, NEW p \in Fresh,
           token' = [token EXCEPT ![p] = "valid"], store' = store,
           \A s \in Requests \ {r} : request'[s] = request[s],
           request'[r].pc \in Bringing, request'[r].pair = p,
           request'[r].rt \in {request[r].rt, NoPair},
           request'[r].body \in {request[r].body, NoPair},
           request[r].pc \notin Bringing, orphans' = orphans, cut' = cut,
           Owed(r) # NoPair => Owed(r)' = Owed(r)
    PROVE  UsableInv'
<1>1. p \in Pairs /\ token[p] = "none" /\ token'[p] = "valid"
      /\ \A q \in Pairs \ {p} : token'[q] = token[q]
  BY FreshType DEF UsableInv, ExchangeInv, Types
<1>2. /\ store \in Held
      /\ \A s \in Requests : request[s].rt \in Held /\ request[s].body \in Held
                           /\ request[s].pair \in Held
  BY DEF UsableInv, ExchangeInv, Types, Request, Held
<1>o. \A o \in orphans : o.rt \in Pairs /\ o.rt # p
  BY <1>1 DEF UsableInv, ExchangeInv, Types, Orphan, Issued
<1>3. /\ store # p
      /\ \A s \in Requests : request[s].rt # p /\ request[s].body # p /\ request[s].pair # p
  BY <1>1 DEF UsableInv, Issued, Pairs
<1>4. Issued'
  BY <1>1, <1>2, <1>3, <1>o DEF UsableInv, Issued, Held
<1>5. Unknown(request[r].pair, r)'
  <2>1. \A s \in Requests :
          /\ request'[s].rt # p /\ request'[s].body # p
          /\ s # r => request'[s].pair # p
    BY <1>1, <1>3 DEF Pairs
  <2> QED BY <1>1, <1>3, <1>o, <2>1 DEF Unknown
<1>6. ASSUME NEW s \in Requests \ {r}, request'[s].pc \in Bringing PROVE Unknown(request[s].pair, s)'
  <2>1. request'[s] = request[s] /\ Unknown(request[s].pair, s)
    BY <1>6 DEF UsableInv, OnItsWay
  <2>2. request[s].pair # p
    BY <1>3
  <2>3. \A u \in Requests :
          /\ request'[u].rt # request[s].pair /\ request'[u].body # request[s].pair
          /\ u # s /\ request'[u].pc \in Bringing => request'[u].pair # request[s].pair
    BY <2>1, <2>2 DEF Unknown, Pairs
  <2> QED BY <1>1, <2>1, <2>2, <2>3 DEF Unknown
<1>7. StoreUsable'
  <2>1. store # NoPair => token'[store] = token[store]
    BY <1>1, <1>2, <1>3 DEF Held
  <2>2. \A s \in Requests \ {r} : Owed(s)' = Owed(s)
    BY DEF Owed
  <2>3. \A s \in Requests : Owed(s) # NoPair => Owed(s)' = Owed(s)
    BY <2>2
  <2> QED BY <2>1, <2>3 DEF UsableInv, StoreUsable
<1> QED BY <1>4, <1>5, <1>6, <1>7 DEF UsableInv, OnItsWay

\* What rejecting a request and moving it on leave of its fields.
LEMMA RejectedFields ==
    ASSUME Types, NEW r \in Requests, Reject(r)
    PROVE  request'[r].rt = NoPair /\ request'[r].body = NoPair /\ request'[r].pair = NoPair
<1> DEFINE closing == [Idle EXCEPT !.pc = "closing", !.kind = request[r].kind]
<1>1. /\ Idle.rt = NoPair /\ Idle.body = NoPair /\ Idle.pair = NoPair
      /\ closing.rt = NoPair /\ closing.body = NoPair /\ closing.pair = NoPair
  BY DEF Idle
<1>2. request'[r] = Idle \/ request'[r] = closing
  <2> HIDE DEF closing
  <2>1. Become(r, Idle) \/ Become(r, closing)
    BY DEF Reject, closing
  <2> QED BY <2>1 DEF Become, Types
<1> QED BY <1>1, <1>2

LEMMA MovedOn ==
    ASSUME Types, NEW r \in Requests, NEW pc \in PC, Goto(r, pc)
    PROVE  /\ request'[r].pc = pc /\ request'[r].rt = request[r].rt
           /\ request'[r].body = request[r].body /\ request'[r].pair = request[r].pair
           /\ \A s \in Requests \ {r} : request'[s] = request[s]
BY DEF Goto, Types, Request

LEMMA OwesNothing ==
    ASSUME NEW r \in Requests,
           request[r].pc \notin {"issuing", "renewed", "refused", "closing"}
    PROVE  Owed(r) = NoPair
BY DEF Owed

LEMMA InterceptUsable ==
    ASSUME UsableInv, ExchangeInv', NEW r \in Requests, Intercept(r)
    PROVE  UsableInv'
<1>1. token' = token /\ TabOf[r] \in Tabs /\ request[r].pc = "denied" /\ Types
  BY SessionAssumption DEF Intercept, server, UsableInv, ExchangeInv
<1>o. Owed(r) = NoPair
  BY <1>1, OwesNothing
<1>2. CASE Reject(r) /\ UNCHANGED <<browser, left>>
  <2>1. Inherited /\ cut' = cut /\ store' = store
    BY <1>2, KeptInherited DEF left, browser
  <2> QED BY <1>1, <1>2, <1>o, <2>1, Rejected, RejectedFields, OneMoves DEF Bringing
<1>3. CASE ToLoginForm(TabOf[r])
  BY <1>1, <1>3, FormUsable
<1>4. CASE /\ Become(r, [request[r] EXCEPT !.pc = "reading", !.retried = TRUE,
                                          !.access = NoPair, !.rt = store])
           /\ store' = store /\ UNCHANGED left
  <2>1. LET y == [request[r] EXCEPT !.pc = "reading", !.retried = TRUE, !.access = NoPair,
                                    !.rt = store]
        IN  /\ y.pc = "reading" /\ y.rt = store
            /\ y.body = request[r].body /\ y.pair = request[r].pair
    BY <1>1 DEF Types, Request
  <2>2. /\ request'[r].pc = "reading" /\ request'[r].rt = store
        /\ request'[r].body = request[r].body /\ request'[r].pair = request[r].pair
        /\ \A s \in Requests \ {r} : request'[s] = request[s]
    BY <1>1, <1>4, <2>1 DEF Become, Types
  <2>3. Inherited /\ cut' = cut
    BY <1>4, KeptInherited DEF left
  <2> QED BY <1>1, <1>4, <1>o, <2>2, <2>3, OneMoves DEF Bringing
<1> QED BY <1>2, <1>3, <1>4 DEF Intercept

LEMMA IssueUsable ==
    ASSUME UsableInv, ExchangeInv', NEW r \in Requests, RefreshIssue(r)
    PROVE  UsableInv'
<1>1. /\ request[r].pc = "issuing" /\ store' = store /\ Types
      /\ orphans' = orphans /\ cut' = cut /\ Inherited
  BY KeptInherited DEF RefreshIssue, browser, left, UsableInv, ExchangeInv
<1>2. CASE Goto(r, "refused") /\ UNCHANGED <<token, parent>>
  <2>1. /\ request'[r].pc = "refused" /\ request'[r].rt = request[r].rt
        /\ request'[r].body = request[r].body /\ request'[r].pair = request[r].pair
        /\ \A s \in Requests \ {r} : request'[s] = request[s]
    BY <1>1, <1>2, MovedOn DEF PC
  <2>2. Owed(r)' = Owed(r)
    BY <1>1, <2>1 DEF Owed
  <2> QED BY <1>1, <1>2, <2>1, <2>2, OneMoves DEF Bringing
<1>3. ASSUME NEW p \in Fresh, token' = [token EXCEPT ![p] = "valid"],
             Become(r, [request[r] EXCEPT !.pc = "renewed", !.pair = p])
      PROVE  UsableInv'
  <2>1. LET y == [request[r] EXCEPT !.pc = "renewed", !.pair = p]
        IN  y.pc = "renewed" /\ y.pair = p /\ y.rt = request[r].rt /\ y.body = request[r].body
    BY <1>1 DEF Types, Request
  <2>2. /\ request'[r].pc = "renewed" /\ request'[r].pair = p
        /\ request'[r].rt = request[r].rt /\ request'[r].body = request[r].body
        /\ \A s \in Requests \ {r} : request'[s] = request[s]
    BY <1>1, <1>3, <2>1 DEF Become, Types
  <2>3. Owed(r)' = Owed(r)
    BY <1>1, <2>2 DEF Owed
  <2> QED BY <1>1, <1>3, <2>2, <2>3, IssuedUsable DEF Bringing
<1> QED BY <1>2, <1>3 DEF RefreshIssue

LEMMA UsableStep == UsableInv /\ [Next]_vars => UsableInv'
<1> SUFFICES ASSUME UsableInv, [Next]_vars PROVE UsableInv'
  OBVIOUS
<1>e. ExchangeInv'
  BY ExchangeStep DEF UsableInv
<1>t. Types
  BY DEF UsableInv, ExchangeInv
<1>i. Idle.pc = "idle" /\ Idle.rt = NoPair /\ Idle.body = NoPair /\ Idle.pair = NoPair
  BY DEF Idle
<1>1. ASSUME NEW p \in Pairs, AccessExpires(p) \/ RefreshExpires(p) PROVE UsableInv'
  <2>1. /\ request' = request /\ store' = store /\ orphans' = orphans /\ cut' = cut
        /\ \A q \in Pairs : /\ token[q] # "none" => token'[q] # "none"
                            /\ token'[q] = "revoked" => token[q] = "revoked"
    BY <1>1, <1>t DEF AccessExpires, RefreshExpires, browser, left, Types
  <2>2. Issued' /\ OnItsWay'
    <3>1. Types' /\ \A s \in Requests : request[s].pc \in Bringing => token'[request[s].pair] # "revoked"
      BY <1>e, <2>1 DEF UsableInv, OnItsWay, Unknown, ExchangeInv
    <3>2. Inherited
      BY <2>1, KeptInherited
    <3> QED BY <2>1, <3>1, <3>2, NothingNew
  <2>3. StoreUsable'
    BY <1>t, <2>1 DEF UsableInv, StoreUsable, Owed, Types, Held
  <2> QED BY <1>e, <2>2, <2>3 DEF UsableInv
<1>2. ASSUME NEW r \in Requests, NEW kind \in Kinds, Send(r, kind) PROVE UsableInv'
  <2>1. /\ \A s \in Requests \ {r} : request'[s] = request[s]
        /\ request'[r].pc \in {"closing", "sent"} /\ request'[r].rt = NoPair
        /\ request'[r].body \in {store, NoPair} /\ request'[r].pair = NoPair
        /\ request[r].pc = "idle" /\ store' = store /\ token' = token
        /\ orphans' = orphans /\ cut' = cut
    BY <1>2, <1>t DEF Send, Become, Types, Idle, server, browser, left
  <2>2. Owed(r) = NoPair /\ Inherited
    BY <2>1, OwesNothing, KeptInherited
  <2> QED BY <1>e, <2>1, <2>2, OneMoves DEF Bringing
<1>3. ASSUME NEW r \in Requests, Serve(r) \/ Close(r) PROVE UsableInv'
  <2>1. /\ \A s \in Requests \ {r} : request'[s] = request[s]
        /\ request'[r] = Idle /\ token' = token /\ orphans' = orphans /\ cut' = cut
    BY <1>3, <1>t DEF Serve, Close, Become, Types, server, left
  <2>2. store' = NoPair \/ (store' = store /\ Owed(r) = NoPair)
    BY <1>3, OwesNothing DEF Serve, Close, browser
  <2>3. Inherited
    BY <2>1, KeptInherited
  <2> QED BY <1>e, <1>i, <2>1, <2>2, <2>3, OneMoves DEF Bringing
<1>4. ASSUME NEW r \in Requests, Deny(r) \/ RefreshRead(r) PROVE UsableInv'
  <2>1. /\ request[r].pc \in {"sent", "reading"} /\ token' = token /\ store' = store
        /\ orphans' = orphans /\ cut' = cut
    BY <1>4 DEF Deny, RefreshRead, server, browser, left
  <2>2. /\ request'[r].rt = request[r].rt /\ request'[r].body = request[r].body
        /\ request'[r].pair = request[r].pair
        /\ request'[r].pc \in {"denied", "rotating", "refused"}
        /\ \A s \in Requests \ {r} : request'[s] = request[s]
    <3>1. CASE Deny(r)
      <4>1. LET y == [request[r] EXCEPT !.pc = "denied", !.access = NoPair]
            IN  /\ y.pc = "denied" /\ y.rt = request[r].rt
                /\ y.body = request[r].body /\ y.pair = request[r].pair
        BY <1>t DEF Types, Request
      <4> QED BY <1>t, <3>1, <4>1 DEF Deny, Become, Types
    <3>2. CASE RefreshRead(r)
      <4>1. \E pc \in {"rotating", "refused"} : Goto(r, pc) /\ pc \in PC
        BY <3>2 DEF RefreshRead, PC
      <4> QED BY <1>t, <4>1, MovedOn
    <3> QED BY <1>4, <3>1, <3>2
  <2>3. Owed(r) = NoPair /\ Inherited
    BY <2>1, OwesNothing, KeptInherited
  <2> QED BY <1>e, <2>1, <2>2, <2>3, OneMoves DEF Bringing
<1>5. ASSUME NEW r \in Requests, ServeLogout(r) \/ RefreshRevoke(r) PROVE UsableInv'
  <2>1. /\ store' = store /\ orphans' = orphans /\ cut' = cut
        /\ request[r].pc \in {"sent", "rotating"}
    BY <1>5 DEF ServeLogout, RefreshRevoke, browser, left
  <2>2. \E x \in {request[r].rt, request[r].body} :
          token' = [token EXCEPT ![x] = "revoked"] /\ Owed(r)' = x
    <3>1. CASE ServeLogout(r)
      <4>1. Goto(r, "closing") /\ "closing" \in PC
        BY <3>1 DEF ServeLogout, PC
      <4>2. request'[r].pc = "closing" /\ request'[r].body = request[r].body
        BY <1>t, <4>1, MovedOn
      <4> QED BY <3>1, <4>2 DEF ServeLogout, Owed
    <3>2. CASE RefreshRevoke(r)
      <4>1. Goto(r, "issuing") /\ "issuing" \in PC
        BY <3>2 DEF RefreshRevoke, PC
      <4>2. request'[r].pc = "issuing" /\ request'[r].rt = request[r].rt
        BY <1>t, <4>1, MovedOn
      <4> QED BY <3>2, <4>2 DEF RefreshRevoke, Owed
    <3> QED BY <1>5, <3>1, <3>2
  <2>3. \A p \in Pairs :
          /\ token[p] # "none" => token'[p] # "none"
          /\ token'[p] = "revoked" => token[p] = "revoked" \/ p \in {request[r].rt, request[r].body}
          /\ token'[p] = "revoked" => token[p] = "revoked" \/ Owed(r)' = p
    BY <1>t, <2>2 DEF Types
  <2>4. \E pc \in {"closing", "issuing"} : Goto(r, pc)
    BY <1>5 DEF ServeLogout, RefreshRevoke
  <2> PICK pc \in {"closing", "issuing"} : Goto(r, pc)
    BY <2>4
  <2>5. pc \in PC
    BY DEF PC
  <2>6. Owed(r) = NoPair /\ Inherited
    BY <2>1, OwesNothing, KeptInherited
  <2>7. /\ request'[r].rt = request[r].rt /\ request'[r].body = request[r].body
        /\ request'[r].pair = request[r].pair /\ request'[r].pc = pc
        /\ \A s \in Requests \ {r} : request'[s] = request[s]
    BY <1>t, <2>5, MovedOn
  <2> QED BY <1>e, <2>1, <2>3, <2>6, <2>7, OneMoves DEF Bringing
<1>6. ASSUME NEW r \in Requests, Login(r) PROVE UsableInv'
  <2> PICK p \in Fresh : /\ token' = [token EXCEPT ![p] = "valid"]
                         /\ Become(r, [Idle EXCEPT !.pc = "signedin", !.kind = "login",
                                                   !.pair = p])
    BY <1>6 DEF Login
  <2>1. /\ \A s \in Requests \ {r} : request'[s] = request[s]
        /\ request'[r].pc = "signedin" /\ request'[r].pair = p
        /\ request'[r].rt = NoPair /\ request'[r].body = NoPair
        /\ request[r].pc = "sent" /\ store' = store /\ orphans' = orphans /\ cut' = cut
    BY <1>6, <1>t DEF Login, Become, Types, Idle, browser, left
  <2>2. Owed(r) = NoPair
    BY <2>1, OwesNothing
  <2> QED BY <1>e, <2>1, <2>2, IssuedUsable DEF Bringing
<1>7. ASSUME NEW r \in Requests, Renewed(r) PROVE UsableInv'
  <2>1. LET y == [request[r] EXCEPT !.pc = "sent", !.access = request[r].pair,
                                    !.rt = NoPair, !.pair = NoPair]
        IN  y.pc = "sent" /\ y.rt = NoPair /\ y.pair = NoPair /\ y.body = request[r].body
    BY <1>t DEF Types, Request
  <2>2. /\ \A s \in Requests \ {r} : request'[s] = request[s]
        /\ request'[r].pc = "sent" /\ request'[r].rt = NoPair
        /\ request'[r].pair = NoPair /\ request'[r].body = request[r].body
        /\ request[r].pc = "renewed" /\ store' = request[r].pair /\ token' = token
        /\ orphans' = orphans
    BY <1>7, <1>t, <2>1 DEF Renewed, Become, Types, server, left
  <2> QED BY <1>e, <2>2, StoredUsable DEF Bringing
<1>8. ASSUME NEW r \in Requests, SignedIn(r) PROVE UsableInv'
  <2>1. /\ \A s \in Requests \ {r} : request'[s] = request[s]
        /\ request'[r] = Idle /\ token' = token
        /\ request[r].pc = "signedin" /\ store' = request[r].pair /\ orphans' = orphans
    BY <1>8, <1>t DEF SignedIn, Become, Types, server, left
  <2> QED BY <1>e, <1>i, <2>1, StoredUsable DEF Bringing
<1>9. ASSUME NEW r \in Requests, Refused(r) PROVE UsableInv'
  BY <1>9, <1>e, FormUsable, SessionAssumption DEF Refused, server
<1>10. ASSUME NEW r \in Requests, Lose(r) PROVE UsableInv'
  <2>1. store' = store /\ token' = token /\ cut' = cut /\ Inherited
    BY <1>10, UnderwayInherited DEF Lose, server, browser
  <2>2. CASE request[r].pc \in {"sent", "signedin"} /\ Reject(r)
    <3>1. Owed(r) = NoPair
      BY <2>2, OwesNothing
    <3> QED BY <1>e, <1>t, <2>1, <2>2, <3>1, Rejected, RejectedFields, OneMoves DEF Bringing
  <2>3. CASE /\ request[r].pc \in {"reading", "rotating", "issuing", "renewed"}
             /\ Goto(r, "refused")
    <3>1. /\ request'[r].pc = "refused" /\ request'[r].rt = request[r].rt
          /\ request'[r].body = request[r].body /\ request'[r].pair = request[r].pair
          /\ \A s \in Requests \ {r} : request'[s] = request[s]
      BY <1>t, <2>3, MovedOn DEF PC
    <3>2. Owed(r) # NoPair => Owed(r)' = Owed(r)
      BY <2>3, <3>1 DEF Owed
    <3> QED BY <1>e, <2>1, <3>1, <3>2, OneMoves DEF Bringing
  <2> QED BY <1>10, <2>2, <2>3 DEF Lose
<1>11. ASSUME NEW o \in orphans, OrphanStep(o) PROVE UsableInv'
  BY <1>11, <1>e, OrphanUsable
<1>12. ASSUME NEW t \in Tabs, Leave(t) PROVE UsableInv'
  BY <1>12, <1>e, LeaveUsable
<1>13. CASE UNCHANGED vars
  BY <1>13, <1>e DEF vars, UsableInv, Issued, OnItsWay, Unknown, StoreUsable, Owed
<1> QED BY <1>1, <1>2, <1>3, <1>4, <1>5, <1>6, <1>7, <1>8, <1>9, <1>10, <1>11, <1>12, <1>13, <1>e,
           InterceptUsable, IssueUsable
        DEF Next, ServerStep, TabStep

(***************************************************************************)
(* A revoked token in the store is about to be replaced or cleared by the  *)
(* call that revoked it, or that call has lost its tab: whatever the order *)
(* of refreshes, logouts, logins, lost answers, crashes and reloads, in    *)
(* however many tabs.                                                      *)
(***************************************************************************)
THEOREM StoreStaysUsable == Spec => []StoreUsable
<1>1. Init => ExchangeInv
  BY InitTypes DEF Init, ExchangeInv, Flagged, Presents, ParentsRevoked, NotYet,
                   IssuedOnce, Exchanging, Idle
<1>2. Init => UsableInv
  BY <1>1 DEF Init, UsableInv, Issued, OnItsWay, StoreUsable, Bringing, Idle
<1>3. UsableInv => StoreUsable
  BY DEF UsableInv
<1> QED BY <1>2, <1>3, UsableStep, PTL DEF Spec
=============================================================================
