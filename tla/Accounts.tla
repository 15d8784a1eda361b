------------------------------ MODULE Accounts ------------------------------
(***************************************************************************)
(* Organizations and their users: AuthService.register, and UsersService's *)
(* create, update and remove behind JwtStrategy.validate and RolesGuard.   *)
(* Every statement is a step of its own; requests run beside each other,   *)
(* and a statement may fail after others were written.                     *)
(*                                                                         *)
(* Of the roles only admin (or higher) and the others are told apart.      *)
(***************************************************************************)
EXTENDS Naturals, FiniteSets

CONSTANTS Orgs, Accounts, Emails, Callers    \* bounds; Callers: requests at once

VARIABLES
    org,            \* the organizations
    account,        \* the users
    call,           \* the requests being handled
    excused,        \* history: organizations that may be without an admin
    doubled         \* history: e-mails that may have several accounts

accountVars == <<org, account, call, excused, doubled>>

NoAccount == [org |-> "none", email |-> "none", admin |-> FALSE, active |-> FALSE]
NoCall == [op |-> "none", org |-> "none", on |-> "none", at |-> "none"]

AccountsTypeOK ==
    /\ org \subseteq Orgs /\ excused \subseteq Orgs /\ doubled \subseteq Emails
    /\ \A a \in Accounts : account[a] = NoAccount
          \/ /\ account[a].org \in org /\ account[a].email \in Emails
             /\ account[a].admin \in BOOLEAN /\ account[a].active \in BOOLEAN
    /\ \A r \in Callers : call[r] = NoCall
          \/ /\ call[r].op = "register" /\ call[r].on \in Emails
             /\ call[r].at \in {"org", "user"}
          \/ /\ call[r].op = "create" /\ call[r].on \in Emails
             /\ call[r].at \in {"find", "write"}
          \/ /\ call[r].op \in {"update", "remove"} /\ call[r].on \in Accounts
             /\ call[r].at \in {"find", "write"}

AccountsInit ==
    /\ org = {}
    /\ account = [a \in Accounts |-> NoAccount]
    /\ call = [r \in Callers |-> NoCall]
    /\ excused = {} /\ doubled = {}

-----------------------------------------------------------------------------
Members(o) == {a \in Accounts : account[a].org = o}

\* Others that are about to make an account with this e-mail.
Beside(r, e) == {q \in Callers \ {r} : call[q].on = e}

\* Variant: only active users are looked for, as login does.
EmailTakenActive(e) == \E a \in Accounts : account[a].email = e /\ account[a].active

EmailTaken(e) == \E a \in Accounts : account[a].email = e

\* register: the e-mail is looked up (409 if it is there), then two rows
\* are created.
Register(r, e) ==
    /\ call[r] = NoCall
    /\ call' = [call EXCEPT ![r] =
                  IF EmailTaken(e) THEN NoCall
                  ELSE [NoCall EXCEPT !.op = "register", !.on = e, !.at = "org"]]
    /\ UNCHANGED <<org, account, excused, doubled>>

RegisterOrg(r, o) ==
    /\ call[r].op = "register" /\ call[r].at = "org"
    /\ o \notin org
    /\ org' = org \union {o}
    /\ call' = [call EXCEPT ![r].org = o, ![r].at = "user"]
    /\ UNCHANGED <<account, excused, doubled>>

RegisterUser(r, a) ==
    LET q == call[r] IN
    /\ q.op = "register" /\ q.at = "user"
    /\ account[a] = NoAccount
    /\ account' = [account EXCEPT ![a] = [org |-> q.org, email |-> q.on,
                                          admin |-> TRUE, active |-> TRUE]]
    /\ call' = [call EXCEPT ![r] = NoCall]
    /\ doubled' = IF Beside(r, q.on) # {} THEN doubled \union {q.on} ELSE doubled
    /\ UNCHANGED <<org, excused>>

-----------------------------------------------------------------------------
\* Variant: a token is good until it expires, whatever became of its user.
ValidNot(a) == account[a] # NoAccount

\* JwtStrategy.validate.
Valid(a) == account[a].active

\* RolesGuard on create and remove; update asks for it unless one edits oneself.
Allowed(op, a, on) == account[a].admin \/ (op = "update" /\ on = a)

Removable(a, on) == a # on

Enter(r, a, op, on) ==
    /\ call[r] = NoCall
    /\ Valid(a) /\ Allowed(op, a, on)
    /\ op = "remove" => Removable(a, on)
    /\ call' = [call EXCEPT ![r] = [op |-> op, org |-> account[a].org, on |-> on,
                                    at |-> "find"]]
    /\ UNCHANGED <<org, account, excused, doubled>>

\* findFirst within the organization: create goes on if there is none, the
\* others if there is one.
Found(q) ==
    IF q.op = "create" THEN \A a \in Members(q.org) : account[a].email # q.on
    ELSE q.on \in Members(q.org)

FindUser(r) ==
    LET q == call[r] IN
    /\ q.at = "find"
    /\ call' = [call EXCEPT ![r] = IF Found(q) THEN [q EXCEPT !.at = "write"]
                                   ELSE NoCall]
    /\ UNCHANGED <<org, account, excused, doubled>>

\* create: never an admin's equal; (orgId, email) is unique.
CreateUser(r, a) ==
    LET q == call[r] IN
    /\ q.op = "create" /\ q.at = "write"
    /\ Found(q)
    /\ account[a] = NoAccount
    /\ account' = [account EXCEPT ![a] = [org |-> q.org, email |-> q.on,
                                          admin |-> FALSE, active |-> TRUE]]
    /\ call' = [call EXCEPT ![r] = NoCall]
    /\ doubled' = doubled \union {q.on}
    /\ UNCHANGED <<org, excused>>

Admin(a) == account[a].admin /\ account[a].active

\* update writes the fields it is given.
UpdateUser(r, admin, active, e) ==
    LET q == call[r] IN
    /\ q.op = "update" /\ q.at = "write"
    /\ \A a \in Members(q.org) \ {q.on} : account[a].email # e
    /\ account' = [account EXCEPT ![q.on] = [org |-> @.org, email |-> e,
                                             admin |-> admin, active |-> active]]
    /\ call' = [call EXCEPT ![r] = NoCall]
    /\ excused' = IF Admin(q.on) /\ ~(admin /\ active) THEN excused \union {q.org}
                  ELSE excused
    /\ doubled' = IF e = account[q.on].email THEN doubled ELSE doubled \union {e}
    /\ UNCHANGED org

RemovesInside(r) ==
    {q \in Callers \ {r} : call[q].op = "remove" /\ call[q].org = call[r].org}

RemoveUser(r) ==
    LET q == call[r] IN
    /\ q.op = "remove" /\ q.at = "write"
    /\ account' = [account EXCEPT ![q.on].active = FALSE]
    /\ call' = [call EXCEPT ![r] = NoCall]
    /\ excused' = IF RemovesInside(r) # {} THEN excused \union {q.org} ELSE excused
    /\ UNCHANGED <<org, doubled>>

\* A statement fails; an organization that was created stays.
FailCall(r) ==
    /\ call[r] # NoCall
    /\ call' = [call EXCEPT ![r] = NoCall]
    /\ excused' = IF call[r].op = "register" THEN excused \union ({call[r].org} \ {"none"})
                  ELSE excused
    /\ UNCHANGED <<org, account, doubled>>

AccountsNext ==
    \/ \E r \in Callers, e \in Emails : Register(r, e)
    \/ \E r \in Callers, o \in Orgs : RegisterOrg(r, o)
    \/ \E r \in Callers, a \in Accounts : RegisterUser(r, a) \/ CreateUser(r, a)
    \/ \E r \in Callers, a \in Accounts :
          \/ \E e \in Emails : Enter(r, a, "create", e)
          \/ \E on \in Accounts, op \in {"update", "remove"} : Enter(r, a, op, on)
    \/ \E r \in Callers : FindUser(r) \/ RemoveUser(r) \/ FailCall(r)
    \/ \E r \in Callers, admin, active \in BOOLEAN, e \in Emails :
          UpdateUser(r, admin, active, e)

AccountsSpec == AccountsInit /\ [][AccountsNext]_accountVars

-----------------------------------------------------------------------------
Registering(o) == \E r \in Callers : call[r].op = "register" /\ call[r].org = o

(***************************************************************************)
(* An organization keeps an admin who can sign in: whoever removes users   *)
(* is an active admin and not the one removed.  The exceptions: its        *)
(* registration failed halfway, two admins removed each other at once, or  *)
(* an edit took the role or the access of an active admin away.            *)
(***************************************************************************)
AdminRemains ==
    \A o \in org \ excused :
        Registering(o) \/ \E a \in Members(o) : Admin(a)

(***************************************************************************)
(* An e-mail that only registrations used has one account, unless two of   *)
(* them looked before either wrote: only (orgId, email) is unique, and     *)
(* every registration makes an organization of its own.                    *)
(***************************************************************************)
EmailOnce ==
    \A a, b \in Accounts :
        /\ a # b /\ account[a] # NoAccount /\ account[a].email = account[b].email
        => account[a].email \in doubled
=============================================================================
