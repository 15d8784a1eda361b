------------------------------ MODULE Sessions ------------------------------
(***************************************************************************)
(* One user's sessions: AuthService with its table RefreshToken, and the   *)
(* browser whose tabs share one token store (frontend/src/lib/api.ts).     *)
(*                                                                         *)
(* issueTokens makes a pair, an access token and a refresh token; both     *)
(* carry the number of the pair here.  Each tab has a flag `refreshing` of *)
(* its own, the store (cookies and localStorage) belongs to all of them.   *)
(*                                                                         *)
(* A request of a tab is at one of these points:                           *)
(*   "sent"      on its way to the backend                                 *)
(*   "denied"    answered 401, the response interceptor is next            *)
(*   "reading"   refreshTokens is about to read the presented token        *)
(*   "rotating"  ... has found it valid and is about to revoke it          *)
(*   "issuing"   ... is about to create the new pair                       *)
(*   "renewed"   the new pair is on its way to the tab                     *)
(*   "refused"   the refresh has failed, the catch of api.ts is next       *)
(*   "signedin"  the answer to a login is on its way                       *)
(*   "closing"   tokenStore.clear() of logout, or of a failed getMe        *)
(***************************************************************************)
EXTENDS Naturals

CONSTANTS
    Tabs,
    Requests,       \* bound: requests under way at once
    TabOf,          \* the tab each belongs to
    MaxPairs,       \* bound: token pairs issued; beyond it the backend fails
    MaxFaults       \* bound: lost calls, crashes of the backend, tabs left

ASSUME SessionAssumption ==
    /\ TabOf \in [Requests -> Tabs]
    /\ MaxPairs \in Nat /\ MaxFaults \in Nat

Pairs == 1 .. MaxPairs
NoPair == 0

VARIABLES
    token,          \* the RefreshToken table: the state of each pair's row
    expired,        \* pairs whose access token has expired (15 min)
    store,          \* the pair in the browser's token store, or NoPair
    page,           \* what a tab shows: the application or the login form
    refreshing,     \* the flag of api.ts, one per tab
    request,
    faults,
    parent,         \* history: what each pair was exchanged for, in which tab
    orphans,        \* what the backend still does for calls nobody awaits
    cut             \* history: tokens revoked by a call that had lost its tab
                    \* by then, or lost it before it could mend the store

vars == <<token, expired, store, page, refreshing, request, faults, parent, orphans, cut>>
server == <<token, expired, parent>>
browser == <<store, page, refreshing>>
left == <<orphans, cut>>

Kinds == {"get", "me", "logout", "login"}
PC == {"idle", "sent", "denied", "reading", "rotating", "issuing", "renewed",
       "refused", "signedin", "closing"}

Request ==
    [pc      : PC,
     kind    : Kinds,
     retried : BOOLEAN,                 \* orig._retry
     access  : Pairs \union {NoPair},   \* the Authorization header
     body    : Pairs \union {NoPair},   \* the refresh token a logout names
     rt      : Pairs \union {NoPair},   \* the refresh token it presents
     pair    : Pairs \union {NoPair}]   \* the pair it brings back

Orphan == [at : {"reading", "revoking"}, rt : Pairs]

Idle == [pc |-> "idle", kind |-> "get", retried |-> FALSE, access |-> NoPair,
         body |-> NoPair, rt |-> NoPair, pair |-> NoPair]

TypeOK ==
    /\ token \in [Pairs -> {"none", "valid", "revoked", "expired"}]
    /\ expired \subseteq Pairs
    /\ store \in Pairs \union {NoPair}
    /\ page \in [Tabs -> {"app", "login"}]
    /\ refreshing \in [Tabs -> BOOLEAN]
    /\ request \in [Requests -> Request]
    /\ faults \in 0 .. MaxFaults
    /\ parent \in [Pairs -> [of : Pairs \union {NoPair}, by : Tabs \union {NoPair}]]
    /\ orphans \subseteq Orphan /\ cut \subseteq Pairs

Become(r, q) == request' = [request EXCEPT ![r] = q]
Goto(r, pc)  == request' = [request EXCEPT ![r].pc = pc]
Fault == faults < MaxFaults /\ faults' = faults + 1

\* The rows are created in the order of their numbers.
Fresh == {p \in Pairs : token[p] = "none" /\ \A q \in Pairs : q < p => token[q] # "none"}

Init ==
    /\ token = [p \in Pairs |-> "none"]
    /\ expired = {}
    /\ store = NoPair
    /\ page = [t \in Tabs |-> "login"]
    /\ refreshing = [t \in Tabs |-> FALSE]
    /\ request = [r \in Requests |-> Idle]
    /\ faults = 0
    /\ parent = [p \in Pairs |-> [of |-> NoPair, by |-> NoPair]]
    /\ orphans = {} /\ cut = {}

(***************************************************************************)
(* Time: access tokens last 15 minutes, refresh tokens seven days.         *)
(***************************************************************************)
AccessExpires(p) ==
    /\ token[p] # "none" /\ p \notin expired
    /\ expired' = expired \union {p}
    /\ UNCHANGED <<token, parent, browser, request, faults, left>>

RefreshExpires(p) ==
    /\ token[p] = "valid" /\ p \in expired
    /\ token' = [token EXCEPT ![p] = "expired"]
    /\ UNCHANGED <<expired, parent, browser, request, faults, left>>

-----------------------------------------------------------------------------
(***************************************************************************)
(* AuthService and the guard in front of it.                               *)
(***************************************************************************)
Authorized(r) == request[r].access # NoPair /\ request[r].access \notin expired

\* The guard refuses; the route of the login is public, but may refuse too.
\* (The header of a refused request is written anew if it is sent again.)
Deny(r) ==
    /\ request[r].pc = "sent"
    /\ request[r].kind = "login" \/ ~Authorized(r)
    /\ Become(r, [request[r] EXCEPT !.pc = "denied", !.access = NoPair])
    /\ UNCHANGED <<server, browser, faults, left>>

Serve(r) ==
    /\ request[r].pc = "sent" /\ Authorized(r)
    /\ request[r].kind \in {"get", "me"}
    /\ Become(r, Idle)
    /\ UNCHANGED <<server, browser, faults, left>>

\* logout revokes the token named in the body, in whatever state it is.
ServeLogout(r) ==
    /\ request[r].pc = "sent" /\ Authorized(r)
    /\ request[r].kind = "logout"
    /\ token' = [token EXCEPT ![request[r].body] = "revoked"]
    /\ Goto(r, "closing")
    /\ UNCHANGED <<expired, parent, browser, faults, left>>

Login(r) ==
    /\ request[r].pc = "sent"
    /\ request[r].kind = "login"
    /\ \E p \in Fresh :
         /\ token' = [token EXCEPT ![p] = "valid"]
         /\ Become(r, [Idle EXCEPT !.pc = "signedin", !.kind = "login", !.pair = p])
    /\ UNCHANGED <<expired, parent, browser, faults, left>>

RefreshRead(r) ==
    /\ request[r].pc = "reading"
    /\ Goto(r, IF token[request[r].rt] = "valid" THEN "rotating" ELSE "refused")
    /\ UNCHANGED <<server, browser, faults, left>>

\* The update is by id: it does not look whether the row is still valid.
RefreshRevoke(r) ==
    /\ request[r].pc = "rotating"
    /\ token' = [token EXCEPT ![request[r].rt] = "revoked"]
    /\ Goto(r, "issuing")
    /\ UNCHANGED <<expired, parent, browser, faults, left>>

RefreshIssue(r) ==
    /\ request[r].pc = "issuing"
    /\ \/ \E p \in Fresh :
            /\ token' = [token EXCEPT ![p] = "valid"]
            /\ parent' = [parent EXCEPT ![p] = [of |-> request[r].rt, by |-> TabOf[r]]]
            /\ Become(r, [request[r] EXCEPT !.pc = "renewed", !.pair = p])
       \/ /\ Fresh = {}
          /\ Goto(r, "refused")
          /\ UNCHANGED <<token, parent>>
    /\ UNCHANGED <<expired, browser, faults, left>>

\* The same statements for a call whose tab has given it up or is gone.  The
\* pair they issue in the end reaches nobody: no row is kept of it.
OrphanStep(o) ==
    /\ \/ /\ o.at = "reading"
          /\ orphans' = (orphans \ {o}) \union
                           (IF token[o.rt] = "valid" THEN {[o EXCEPT !.at = "revoking"]} ELSE {})
          /\ UNCHANGED <<token, cut>>
       \/ /\ o.at = "revoking"
          /\ orphans' = orphans \ {o}
          /\ token' = [token EXCEPT ![o.rt] = "revoked"]
          /\ cut' = cut \union {o.rt}
    /\ UNCHANGED <<expired, parent, browser, request, faults>>

-----------------------------------------------------------------------------
(***************************************************************************)
(* The browser.  A tab that is left, by a full navigation (window.location *)
(* or the user's), a reload or for good, loses its requests and its flag;  *)
(* the backend goes on with what it has of them.                           *)
(***************************************************************************)
Send(r, kind) ==
    /\ request[r].pc = "idle"
    /\ page[TabOf[r]] = IF kind = "login" THEN "login" ELSE "app"
    /\ kind = "me" => store # NoPair
    /\ Become(r, [Idle EXCEPT
                    !.pc = IF kind = "logout" /\ store = NoPair THEN "closing" ELSE "sent",
                    !.kind = kind,
                    !.access = store,
                    !.body = IF kind = "logout" THEN store ELSE NoPair])
    /\ UNCHANGED <<server, browser, faults, left>>

Underway(R) ==
    {[at |-> "reading", rt |-> request[r].rt] : r \in {q \in R : request[q].pc = "reading"}}
    \union
    {[at |-> "revoking", rt |-> request[r].rt] : r \in {q \in R : request[q].pc = "rotating"}}
    \union
    {[at |-> "revoking", rt |-> request[r].body] :
        r \in {q \in R : request[q].pc = "sent" /\ request[q].body # NoPair /\ Authorized(q)}}

OfTab(t) == {r \in Requests : TabOf[r] = t}

LoadAnew(t) ==
    /\ refreshing' = [refreshing EXCEPT ![t] = FALSE]
    /\ request' = [r \in Requests |-> IF TabOf[r] = t THEN Idle ELSE request[r]]
    /\ orphans' = orphans \union Underway(OfTab(t))

ToLoginForm(t) ==
    /\ store' = NoPair
    /\ page' = [page EXCEPT ![t] = "login"]
    /\ LoadAnew(t)
    /\ UNCHANGED cut

\* The token a call has revoked, while its tab is still to store another or to
\* clear it.
Owed(r) ==
    CASE request[r].pc \in {"issuing", "renewed", "refused"} -> request[r].rt
      [] request[r].pc = "closing" -> request[r].body
      [] OTHER -> NoPair

\* The user reloads a tab, closes it (and opens another), or goes elsewhere.
Leave(t) ==
    /\ Fault
    /\ \E p \in {"app", "login"} : page' = [page EXCEPT ![t] = p]
    /\ LoadAnew(t)
    /\ cut' = cut \union {p \in Pairs : token[p] = "revoked"
                                         /\ \E r \in OfTab(t) : Owed(r) = p}
    /\ UNCHANGED <<server, store>>

\* What the caller of a failed request does.
Reject(r) ==
    IF request[r].kind \in {"me", "logout"}
    THEN Become(r, [Idle EXCEPT !.pc = "closing", !.kind = request[r].kind])
    ELSE Become(r, Idle)

\* Variant: the interceptor does not look at `refreshing`.
InterceptAnyway(r) ==
    /\ request[r].pc = "denied"
    /\ \/ /\ request[r].retried
          /\ Reject(r)
          /\ UNCHANGED <<browser, left>>
       \/ /\ ~request[r].retried
          /\ store = NoPair
          /\ ToLoginForm(TabOf[r])
       \/ /\ ~request[r].retried
          /\ store # NoPair
          /\ refreshing' = [refreshing EXCEPT ![TabOf[r]] = TRUE]
          /\ Become(r, [request[r] EXCEPT !.pc = "reading", !.retried = TRUE, !.rt = store])
          /\ UNCHANGED <<store, page, left>>
    /\ UNCHANGED <<server, faults>>

Intercept(r) ==
    LET mayRefresh == ~request[r].retried /\ ~refreshing[TabOf[r]]
    IN  /\ request[r].pc = "denied"
        /\ \/ /\ ~mayRefresh
              /\ Reject(r)
              /\ UNCHANGED <<browser, left>>
           \/ /\ mayRefresh /\ store = NoPair
              /\ ToLoginForm(TabOf[r])
           \/ /\ mayRefresh /\ store # NoPair
              /\ refreshing' = [refreshing EXCEPT ![TabOf[r]] = TRUE]
              /\ Become(r, [request[r] EXCEPT !.pc = "reading", !.retried = TRUE,
                                              !.access = NoPair, !.rt = store])
              /\ UNCHANGED <<store, page, left>>
        /\ UNCHANGED <<server, faults>>

\* Variant: the flag is lowered on failure only.
RenewedFlagKept(r) ==
    /\ request[r].pc = "renewed"
    /\ store' = request[r].pair
    /\ Become(r, [request[r] EXCEPT !.pc = "sent", !.access = request[r].pair,
                                    !.rt = NoPair, !.pair = NoPair])
    /\ UNCHANGED <<server, page, refreshing, faults, left>>

\* The tokens are stored and the request is sent again, body and all; the
\* finally runs as soon as it is on its way.
Renewed(r) ==
    /\ request[r].pc = "renewed"
    /\ store' = request[r].pair
    /\ refreshing' = [refreshing EXCEPT ![TabOf[r]] = FALSE]
    /\ Become(r, [request[r] EXCEPT !.pc = "sent", !.access = request[r].pair,
                                    !.rt = NoPair, !.pair = NoPair])
    /\ UNCHANGED <<server, page, faults, left>>

\* Variant: a refused refresh leaves the tokens where they are.
RefusedKeepsStore(r) ==
    /\ request[r].pc = "refused"
    /\ page' = [page EXCEPT ![TabOf[r]] = "login"]
    /\ refreshing' = [refreshing EXCEPT ![TabOf[r]] = FALSE]
    /\ request' = [q \in Requests |-> IF TabOf[q] = TabOf[r] THEN Idle ELSE request[q]]
    /\ UNCHANGED <<server, store, faults, left>>

Refused(r) ==
    /\ request[r].pc = "refused"
    /\ ToLoginForm(TabOf[r])
    /\ UNCHANGED <<server, faults>>

SignedIn(r) ==
    /\ request[r].pc = "signedin"
    /\ store' = request[r].pair
    /\ page' = [page EXCEPT ![TabOf[r]] = "app"]
    /\ Become(r, Idle)
    /\ UNCHANGED <<server, refreshing, faults, left>>

\* logout goes to the login form without leaving the page: whatever else the
\* tab has under way goes on.
Close(r) ==
    /\ request[r].pc = "closing"
    /\ store' = NoPair
    /\ page' = IF request[r].kind = "logout"
               THEN [page EXCEPT ![TabOf[r]] = "login"] ELSE page
    /\ Become(r, Idle)
    /\ UNCHANGED <<server, refreshing, faults, left>>

(***************************************************************************)
(* The call or its answer is lost, or the backend stops in the middle: it  *)
(* may go on with the call.                                                *)
(***************************************************************************)
Lose(r) ==
    /\ Fault
    /\ \/ request[r].pc \in {"sent", "signedin"} /\ Reject(r)
       \/ /\ request[r].pc \in {"reading", "rotating", "issuing", "renewed"}
          /\ Goto(r, "refused")
    /\ orphans' = orphans \union Underway({r})
    /\ UNCHANGED <<server, browser, cut>>

-----------------------------------------------------------------------------
ServerStep(r) ==
    \/ Deny(r) \/ Serve(r) \/ ServeLogout(r) \/ Login(r)
    \/ RefreshRead(r) \/ RefreshRevoke(r) \/ RefreshIssue(r)

TabStep(r) ==
    \/ Intercept(r) \/ Renewed(r) \/ Refused(r) \/ SignedIn(r) \/ Close(r)

Next ==
    \/ \E p \in Pairs : AccessExpires(p) \/ RefreshExpires(p)
    \/ \E r \in Requests :
         \/ \E kind \in Kinds : Send(r, kind)
         \/ ServerStep(r) \/ TabStep(r) \/ Lose(r)
    \/ \E o \in orphans : OrphanStep(o)
    \/ \E t \in Tabs : Leave(t)

Spec == Init /\ [][Next]_vars

\* The backend answers and the tab's event loop runs; time and users are free.
Fairness == \A r \in Requests : WF_vars(ServerStep(r)) /\ WF_vars(TabStep(r))

FairSpec == Spec /\ Fairness

-----------------------------------------------------------------------------
(***************************************************************************)
(* A revoked token in the store is not left there: the call that revoked   *)
(* it still has its tab, which is about to store another or to clear it.   *)
(* The exception is a call that lost its tab (`cut`): closed or reloaded   *)
(* between the revoke of auth.service.ts and tokenStore.set, or before the *)
(* answer to a logout.  No order of refreshes, logouts, lost answers and   *)
(* crashes in any of the tabs does it without that.                        *)
(***************************************************************************)
StoreUsable ==
    store # NoPair /\ token[store] = "revoked" =>
        store \in cut \/ \E r \in Requests : Owed(r) = store

(***************************************************************************)
(* One tab does not exchange the same refresh token twice, however many of *)
(* its requests come back denied at once: that is what `refreshing` is     *)
(* for.  No two pairs come of one token, and a token that is found valid   *)
(* is in no other exchange, past or present.  (Two tabs may, and a tab     *)
(* beside the orphan of what it was before a reload.)                      *)
(***************************************************************************)
IssuedOnce ==
    \A p, q \in Pairs :
        p # q /\ parent[p].of # NoPair => parent[p] # parent[q]

Rotates(r) == request[r].pc \in {"rotating", "issuing"}

ExchangedOncePerTab ==
    /\ IssuedOnce
    /\ \A r \in Requests : Rotates(r) =>
          /\ \A p \in Pairs : parent[p] # [of |-> request[r].rt, by |-> TabOf[r]]
          /\ \A s \in OfTab(TabOf[r]) \ {r} :
                Rotates(s) => request[s].rt # request[r].rt

(***************************************************************************)
(* The flag of a tab comes down again, or the tab could never refresh its  *)
(* tokens any more.                                                        *)
(***************************************************************************)
FlagReleased == \A t \in Tabs : refreshing[t] ~> ~refreshing[t]
=============================================================================
