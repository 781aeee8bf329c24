----------------------------- MODULE Membership -----------------------------
(***************************************************************************)
(* Accounts, organisation membership, roles and invitations: the handlers  *)
(* of handlers/handlers.go and handlers/admin_handlers.go over org/ and    *)
(* auth/, as requests that run at the same time against one SQLite file.   *)
(*                                                                         *)
(* net/http serves every request in a goroutine of its own and database/   *)
(* sql gives it any pooled connection, so the unit of atomicity is one SQL *)
(* statement (they autocommit) or one explicit transaction.  A step below  *)
(* is one statement, or a read whose result the request keeps; what a      *)
(* request knows between two steps may be stale.                           *)
(*                                                                         *)
(* Not represented: the answers; names, passwords, tokens and URLs; tables *)
(* no code reads back (sessions, workspace_members.role and the setting    *)
(* admin_bootstrap_complete); requests refused before the first statement. *)
(***************************************************************************)
EXTENDS Integers, FiniteSets

CONSTANTS
  User,         \* e-mail addresses: one account each
  Org,          \* organisations, the seeded default one among them
  Inv,          \* invitation tokens that may be issued (bound)
  DefaultOrg, NoOrg, NoInv,
  Req,          \* requests that may be in flight at once (bound)
  Requests,     \* what clients and Identity may ask for (bound)
  Failing,      \* whether a statement may fail, and the process crash
  Unreadable,   \* whether a query may fail where the code ignores the error
  Seed          \* how many of workspace and channel the seed of the default
                \* organisation may have written; it is not taken up again

Role == {"owner", "admin", "member"}
AdminRole == {"owner", "admin"}

\* What a request asks for.  "sync" is a request that carries an Identity
\* token, one per matching membership Identity returned; "fallback" the same
\* when Identity could not be asked; "link" a registration of the server with
\* Identity, "relink" one that does not ask whether it is linked (start-up).
Op == [kind : {"register"}, user : User, inv : Inv \cup {NoInv}]
      \cup [kind : {"login", "fallback"}, user : User]
      \cup [kind : {"accept"}, user : User, inv : Inv]
      \cup [kind : {"bootstrap"}, user : User]
      \cup [kind : {"setRole"}, user : User, target : User, role : Role]
      \cup [kind : {"create"}, user : User, role : Role, max : Nat]
      \cup [kind : {"revoke"}, user : User, inv : Inv]
      \cup [kind : {"sync"}, user : User, org : Org \ {DefaultOrg}, role : Role]
      \cup [kind : {"link", "relink"}, org : Org \ {DefaultOrg}]
NoOp == [kind |-> "none"]

ASSUME NamesAssumption ==
  DefaultOrg \in Org /\ NoOrg \notin Org /\ NoInv \notin Inv
ASSUME RequestsAssumption == Requests \subseteq Op /\ IsFiniteSet(Req)
ASSUME FaultAssumption == Failing \in BOOLEAN /\ Unreadable \in BOOLEAN
ASSUME SeedAssumption == Seed \subseteq 0..2
ASSUME OriginAssumption == User \cap {"self", "first", "identity"} = {}

VARIABLES
  users,      \* rows of users
  sentinel,   \* those with identityPasswordSentinel for a password
  role,       \* org_members: the role of a user in an organisation, or "none"
  wsMember,   \* workspace_members: <<user, org>>, for the default workspace
  chMember,   \* channel_members: <<user, org>>, for its public channel
  linked,     \* server_settings identity_org_id, NoOrg when absent
  wsOf, chOf, \* organisations whose default workspace, channel exist
  invite,     \* org_invitations: terms and state of a token
  used,       \* org_invitations.use_count
  at,         \* the statement a request runs next; "idle" once it has answered
  op,         \* what the request asked for
  org,        \* the organisation it works on
  via, by,    \* history: the invitation that inserted a member's row, and who
              \* ordered the role it holds
  everAdmin   \* history: <<user, org>> that someone else made administrators

accountVars == <<users, sentinel>>
memberVars == <<role, via, by, everAdmin>>
placeVars == <<wsMember, chMember>>
linkVars == <<linked, wsOf, chOf>>
inviteVars == <<invite, used>>
vars == <<users, sentinel, role, wsMember, chMember, linked, wsOf, chOf, invite, used,
          at, op, org, via, by, everAdmin>>

\* EnsureDefaultOrgForUser with addUserToOrg, and AcceptInvitation.
Adding == {"ensure", "count", "addOrg", "addWs", "addCh"}
Accepting == {"lookup", "exists", "join"}
Point == Adding \cup Accepting
         \cup {"idle", "account", "session", "first", "again", "target",
               "auth", "auth2", "has", "setOrg", "insert", "revoke",
               "resolve", "provision", "linkedOrg", "check", "upWs", "upCh",
               "setLink"}

Terms == [state : {"open", "expired", "revoked"}, org : Org,
          role : {"admin", "member"}, max : Nat, by : User]
Unissued == [state |-> "unissued"]
Origin == User \cup {"self", "first", "identity"}

TypeOK ==
  /\ users \subseteq User /\ sentinel \subseteq User
  /\ role \in [User \X Org -> Role \cup {"none"}]
  /\ wsMember \subseteq User \X Org /\ chMember \subseteq User \X Org
  /\ linked \in Org \cup {NoOrg}
  /\ wsOf \subseteq Org /\ chOf \subseteq Org
  /\ invite \in [Inv -> Terms \cup {Unissued}] /\ used \in [Inv -> Nat]
  /\ at \in [Req -> Point] /\ op \in [Req -> Op \cup {NoOp}]
  /\ org \in [Req -> Org \cup {NoOrg}]
  /\ via \in [User \X Org -> Inv \cup {NoInv}]
  /\ by \in [User \X Org -> Origin]
  /\ everAdmin \subseteq User \X Org

-----------------------------------------------------------------------------
\* A fresh database, after seedDefaultOrg; or after one that was cut short and
\* a start that found the organisation and left it at that.
Init ==
  /\ users = {} /\ sentinel = {} /\ everAdmin = {}
  /\ role = [m \in User \X Org |-> "none"]
  /\ via = [m \in User \X Org |-> NoInv]
  /\ by = [m \in User \X Org |-> "self"]
  /\ wsMember = {} /\ chMember = {}
  /\ linked = NoOrg
  /\ \E s \in Seed : /\ wsOf = {o \in {DefaultOrg} : s >= 1}
                    /\ chOf = {o \in {DefaultOrg} : s = 2}
  /\ invite = [i \in Inv |-> Unissued]
  /\ used = [i \in Inv |-> 0]
  /\ at = [r \in Req |-> "idle"] /\ op = [r \in Req |-> NoOp]
  /\ org = [r \in Req |-> NoOrg]

-----------------------------------------------------------------------------
\* The user a request adds to an organisation, and the role it adds.
Subject(r) == IF op[r].kind = "setRole" THEN op[r].target ELSE op[r].user
Wanted(r) == CASE op[r].kind \in {"setRole", "sync"} -> op[r].role
               [] op[r].kind = "bootstrap" -> "owner"
               [] OTHER -> "member"
Orderer(r) == CASE op[r].kind = "setRole" -> op[r].user
                [] op[r].kind = "bootstrap" -> "first"
                [] op[r].kind = "sync" -> "identity"
                [] OTHER -> "self"

MemberOf(u, o) == role[<<u, o>>] # "none"
IsAdmin(u, o) == role[<<u, o>>] \in AdminRole
\* Mutant of HasAnyOrgAdmin: only the organisation of Identity is asked.
HasAnyOrgAdmin_Linked == \E u \in User : linked # NoOrg /\ IsAdmin(u, linked)
HasAnyOrgAdmin == \E u \in User, o \in Org : IsAdmin(u, o)

\* Every caller of getLinkedIdentityOrgID but EnsureLinkedOrgMember takes an
\* error for "not linked"; HasAnyOrgAdmin takes one for "no administrator".
LinkSeen == {linked} \cup {o \in {NoOrg} : Unreadable}
AdminSeen == {HasAnyOrgAdmin} \cup {b \in {FALSE} : Unreadable}
AdminOrgID(l) == IF l = NoOrg THEN DefaultOrg ELSE l
\* Mutant of UserIsOrgAdmin: any row counts, whatever its role.
UserIsOrgAdmin_Member(u, l) ==
  IF l = NoOrg THEN \E o \in Org : MemberOf(u, o) ELSE MemberOf(u, l)
UserIsOrgAdmin(u, l) ==
  IF l = NoOrg THEN \E o \in Org : IsAdmin(u, o) ELSE IsAdmin(u, l)
Admitted(r) == \E l \in LinkSeen : UserIsOrgAdmin(op[r].user, l)
Refusable(r) == Unreadable \/ \E l \in LinkSeen : ~UserIsOrgAdmin(op[r].user, l)

\* Mutant of Usable: > for >= in the comparison with max_uses.
Usable_OneMore(i) == /\ invite[i].state = "open"
                     /\ invite[i].max = 0 \/ used[i] <= invite[i].max
\* invalidInviteReason, on a token lookupInvitation finds.
Usable(i) == /\ invite[i].state = "open"
             /\ invite[i].max = 0 \/ used[i] < invite[i].max

\* Where a request goes when addUserToOrg, or the handler's call to
\* EnsureDefaultOrgForUser, has returned nil, and when a call returned an error.
AfterAdd(r) == IF op[r].kind = "register" /\ op[r].inv # NoInv
               THEN "lookup" ELSE "idle"
AfterError(r) == IF op[r].kind \in {"register", "login"} /\ at[r] \in Adding
                 THEN AfterAdd(r) ELSE "idle"

\* The request's next statement, in organisation o; what it knew is gone once
\* it has answered.
GotoIn(r, p, o) ==
  /\ at' = [at EXCEPT ![r] = p]
  /\ op' = [op EXCEPT ![r] = IF p = "idle" THEN NoOp ELSE @]
  /\ org' = [org EXCEPT ![r] = IF p = "idle" THEN NoOrg ELSE o]
Goto(r, p) == GotoIn(r, p, org[r])
Answer(r) == Goto(r, "idle")

\* The row of u in o now holds role ro, by order of w; the invitation that
\* inserted it is i.
Grant(u, o, ro, w, i) ==
  /\ role' = [role EXCEPT ![<<u, o>>] = ro]
  /\ by' = [by EXCEPT ![<<u, o>>] = w]
  /\ via' = [via EXCEPT ![<<u, o>>] = i]
  /\ everAdmin' = everAdmin \cup {m \in {<<u, o>>} : ro \in AdminRole /\ w # u}

Entry(o) == CASE o.kind = "register" -> "account"
              [] o.kind = "login" -> "ensure"
              [] o.kind = "accept" -> "lookup"
              [] o.kind = "bootstrap" -> "first"
              [] o.kind \in {"setRole", "create", "revoke"} -> "auth"
              [] o.kind \in {"sync", "fallback"} -> "resolve"
              [] o.kind = "link" -> "check"
              [] o.kind = "relink" -> "upWs"

\* A call with a token needs an account, and signing in one with a password.
KnownCaller(o) ==
  o.kind \in {"accept", "setRole", "create", "revoke"} => o.user \in users
SignsIn(o) == o.kind = "login" => o.user \in users \ sentinel

\* A request arrives.
Arrive(r, o) ==
  /\ at[r] = "idle"
  /\ KnownCaller(o) /\ SignsIn(o)
  /\ o.kind \in {"accept", "revoke"} => invite[o.inv] # Unissued
  /\ at' = [at EXCEPT ![r] = Entry(o)]
  /\ op' = [op EXCEPT ![r] = o]
  /\ org' = [org EXCEPT ![r] = NoOrg]
  /\ UNCHANGED <<accountVars, memberVars, placeVars, linkVars, inviteVars>>

-----------------------------------------------------------------------------
(* Accounts: auth/service.go *)

\* INSERT INTO users; e-mail and user name are UNIQUE.  The COUNT before it
\* refuses the same requests and no others.
Account(r) ==
  /\ at[r] = "account"
  /\ IF op[r].user \in users
       THEN Answer(r) /\ UNCHANGED users
       ELSE Goto(r, "session") /\ users' = users \cup {op[r].user}
  /\ UNCHANGED <<sentinel, memberVars, placeVars, linkVars, inviteVars>>

\* INSERT INTO sessions: nothing reads the row, but when it fails the account
\* stays and the request ends.
Session(r) ==
  /\ at[r] = "session"
  /\ Goto(r, IF op[r].kind = "register" THEN "ensure" ELSE "again")
  /\ UNCHANGED <<accountVars, memberVars, placeVars, linkVars, inviteVars>>

\* resolveIdentityUser looks the account up, then provisionIdentityUser
\* inserts it: the loser of two first requests is refused.
Resolved(r) == IF op[r].kind = "sync" THEN "upWs" ELSE "linkedOrg"
Resolve(r) ==
  /\ at[r] = "resolve"
  /\ Goto(r, IF op[r].user \in users THEN Resolved(r) ELSE "provision")
  /\ UNCHANGED <<accountVars, memberVars, placeVars, linkVars, inviteVars>>
Provision(r) ==
  /\ at[r] = "provision"
  /\ IF op[r].user \in users
       THEN Answer(r) /\ UNCHANGED accountVars
       ELSE /\ Goto(r, Resolved(r))
            /\ users' = users \cup {op[r].user}
            /\ sentinel' = sentinel \cup {op[r].user}
  /\ UNCHANGED <<memberVars, placeVars, linkVars, inviteVars>>

-----------------------------------------------------------------------------
(* Joining: EnsureDefaultOrgForUser, EnsureLinkedOrgMember, addUserToOrg *)

Ensure(r) ==
  /\ at[r] = "ensure"
  /\ \E l \in LinkSeen :
       IF l = NoOrg THEN Goto(r, "count") ELSE GotoIn(r, "addOrg", l)
  /\ UNCHANGED <<accountVars, memberVars, placeVars, linkVars, inviteVars>>

LinkedOrg(r) ==
  /\ at[r] = "linkedOrg"
  /\ IF linked = NoOrg THEN Answer(r) ELSE GotoIn(r, "addOrg", linked)
  /\ UNCHANGED <<accountVars, memberVars, placeVars, linkVars, inviteVars>>

\* A row in any organisation is taken for a complete membership.
Count(r) ==
  /\ at[r] = "count"
  /\ IF \E o \in Org : MemberOf(op[r].user, o)
       THEN Goto(r, AfterAdd(r))
       ELSE GotoIn(r, "addOrg", DefaultOrg)
  /\ UNCHANGED <<accountVars, memberVars, placeVars, linkVars, inviteVars>>

\* Mutant of AddOrg: the error of the INSERT is dropped.
AddOrg_ErrorDropped(r) ==
  /\ at[r] = "addOrg"
  /\ IF Failing \/ MemberOf(Subject(r), org[r])
       THEN UNCHANGED memberVars
       ELSE Grant(Subject(r), org[r], Wanted(r), Orderer(r), NoInv)
  /\ Goto(r, "addWs")
  /\ UNCHANGED <<accountVars, placeVars, linkVars, inviteVars>>
\* INSERT OR IGNORE INTO org_members.
AddOrg(r) ==
  /\ at[r] = "addOrg"
  /\ IF MemberOf(Subject(r), org[r])
       THEN UNCHANGED memberVars
       ELSE Grant(Subject(r), org[r], Wanted(r), Orderer(r), NoInv)
  /\ Goto(r, "addWs")
  /\ UNCHANGED <<accountVars, placeVars, linkVars, inviteVars>>

\* SELECT the default workspace, INSERT OR IGNORE INTO workspace_members.
AddWs(r) ==
  /\ at[r] = "addWs"
  /\ IF org[r] \in wsOf
       THEN /\ wsMember' = wsMember \cup {<<Subject(r), org[r]>>}
            /\ Goto(r, "addCh")
       ELSE Goto(r, AfterError(r)) /\ UNCHANGED wsMember
  /\ UNCHANGED <<accountVars, memberVars, chMember, linkVars, inviteVars>>

\* INSERT OR IGNORE INTO channel_members, one row per public channel.
AddCh(r) ==
  /\ at[r] = "addCh"
  /\ chMember' = chMember \cup {m \in {<<Subject(r), org[r]>>} : org[r] \in chOf}
  /\ Goto(r, AfterAdd(r))
  /\ UNCHANGED <<accountVars, memberVars, wsMember, linkVars, inviteVars>>

-----------------------------------------------------------------------------
(* Administration: org/admin.go behind handlers/admin_handlers.go *)

\* BootstrapAdmin asks before it creates the account, BootstrapFirstAdmin
\* once more after.
First(r) ==
  /\ at[r] = "first"
  /\ \E b \in AdminSeen : Goto(r, IF b THEN "idle" ELSE "account")
  /\ UNCHANGED <<accountVars, memberVars, placeVars, linkVars, inviteVars>>
Again(r) ==
  /\ at[r] = "again"
  /\ \E b \in AdminSeen : Goto(r, IF b THEN "idle" ELSE "target")
  /\ UNCHANGED <<accountVars, memberVars, placeVars, linkVars, inviteVars>>

\* The handler admits the caller; AdminOrgID; the service admits it again.
Auth(r) ==
  /\ at[r] = "auth"
  /\ \/ Admitted(r) /\ Goto(r, "target")
     \/ Refusable(r) /\ Answer(r)
  /\ UNCHANGED <<accountVars, memberVars, placeVars, linkVars, inviteVars>>
Target(r) ==
  /\ at[r] = "target"
  /\ \E l \in LinkSeen :
       GotoIn(r, IF op[r].kind = "bootstrap" THEN "has" ELSE "auth2",
              AdminOrgID(l))
  /\ UNCHANGED <<accountVars, memberVars, placeVars, linkVars, inviteVars>>

\* Mutant of DemotesItself: the check is dropped.
DemotesItself_Never(r) == FALSE
DemotesItself(r) == /\ op[r].kind = "setRole"
                    /\ op[r].target = op[r].user
                    /\ op[r].role \notin AdminRole
Granted(r) == CASE op[r].kind = "setRole" -> "has"
                [] op[r].kind = "create" -> "insert"
                [] op[r].kind = "revoke" -> "revoke"
\* Mutant of Auth2: the service trusts the handler's admission check.
Auth2_Trusts(r) ==
  /\ at[r] = "auth2"
  /\ \/ ~DemotesItself(r) /\ Goto(r, Granted(r))
     \/ DemotesItself(r) /\ Answer(r)
  /\ UNCHANGED <<accountVars, memberVars, placeVars, linkVars, inviteVars>>
Auth2(r) ==
  /\ at[r] = "auth2"
  /\ \/ Admitted(r) /\ ~DemotesItself(r) /\ Goto(r, Granted(r))
     \/ (Refusable(r) \/ DemotesItself(r)) /\ Answer(r)
  /\ UNCHANGED <<accountVars, memberVars, placeVars, linkVars, inviteVars>>

\* setOrgMemberRole: COUNT, then addUserToOrg or UPDATE.  The target need not
\* be an account.
Has(r) ==
  /\ at[r] = "has"
  /\ Goto(r, IF MemberOf(Subject(r), org[r]) THEN "setOrg" ELSE "addOrg")
  /\ UNCHANGED <<accountVars, memberVars, placeVars, linkVars, inviteVars>>
SetOrg(r) ==
  /\ at[r] = "setOrg"
  /\ Grant(Subject(r), org[r], Wanted(r), Orderer(r), via[<<Subject(r), org[r]>>])
  /\ Goto(r, IF org[r] \in wsOf THEN "addCh" ELSE AfterError(r))
  /\ UNCHANGED <<accountVars, placeVars, linkVars, inviteVars>>

-----------------------------------------------------------------------------
(* Invitations: org/invitations.go *)

\* Mutant of Insert: the role is not validated.
Insert_AnyRole(r) ==
  /\ at[r] = "insert"
  /\ \E i \in Inv :
       /\ invite[i] = Unissued
       /\ invite' = [invite EXCEPT ![i] =
            [state |-> "open", org |-> org[r], role |-> op[r].role,
             max |-> op[r].max, by |-> op[r].user]]
  /\ Answer(r)
  /\ UNCHANGED <<accountVars, memberVars, placeVars, linkVars, used>>
Insert(r) ==
  /\ at[r] = "insert"
  /\ IF op[r].role = "owner"
       THEN Answer(r) /\ UNCHANGED invite
       ELSE \E i \in Inv :
              /\ invite[i] = Unissued
              /\ invite' = [invite EXCEPT ![i] =
                   [state |-> "open", org |-> org[r], role |-> op[r].role,
                    max |-> op[r].max, by |-> op[r].user]]
              /\ Answer(r)
  /\ UNCHANGED <<accountVars, memberVars, placeVars, linkVars, used>>

Revoke(r) ==
  /\ at[r] = "revoke"
  /\ IF invite[op[r].inv].org = org[r]
       THEN /\ invite' = [invite EXCEPT ![op[r].inv].state = "revoked"]
            /\ Answer(r)
       ELSE Answer(r) /\ UNCHANGED invite
  /\ UNCHANGED <<accountVars, memberVars, placeVars, linkVars, used>>

\* The token's time passes.
Expire(i) ==
  /\ invite[i].state = "open"
  /\ invite' = [invite EXCEPT ![i].state = "expired"]
  /\ UNCHANGED <<accountVars, memberVars, placeVars, linkVars, used, at, op, org>>

\* AcceptInvitation reads the token, then whether the user is a member.
Lookup(r) ==
  /\ at[r] = "lookup"
  /\ IF Usable(op[r].inv)
       THEN GotoIn(r, "exists", invite[op[r].inv].org)
       ELSE Goto(r, AfterError(r))
  /\ UNCHANGED <<accountVars, memberVars, placeVars, linkVars, inviteVars>>
Exists(r) ==
  /\ at[r] = "exists"
  /\ \/ MemberOf(op[r].user, org[r]) /\ Answer(r)
     \/ (~MemberOf(op[r].user, org[r]) \/ Unreadable) /\ Goto(r, "join")
  /\ UNCHANGED <<accountVars, memberVars, placeVars, linkVars, inviteVars>>

\* The transaction: a plain INSERT, so the primary key refuses a member who
\* has joined meanwhile and everything is rolled back.
\* Mutant of Join: INSERT OR IGNORE, so a use is counted for a member too.
Join_OrIgnore(r) ==
  /\ at[r] = "join"
  /\ LET i == op[r].inv
         m == <<op[r].user, org[r]>>
     IN /\ IF MemberOf(op[r].user, org[r])
             THEN UNCHANGED memberVars
             ELSE Grant(op[r].user, org[r], invite[i].role, invite[i].by, i)
        /\ wsMember' = wsMember \cup {m}
        /\ chMember' = chMember \cup {c \in {m} : org[r] \in chOf}
        /\ used' = [used EXCEPT ![i] = @ + 1]
  /\ Answer(r)
  /\ UNCHANGED <<accountVars, linkVars, invite>>
Join(r) ==
  /\ at[r] = "join"
  /\ LET i == op[r].inv
         m == <<op[r].user, org[r]>>
     IN IF ~MemberOf(op[r].user, org[r]) /\ org[r] \in wsOf
          THEN /\ Grant(op[r].user, org[r], invite[i].role, invite[i].by, i)
               /\ wsMember' = wsMember \cup {m}
               /\ chMember' = chMember \cup {c \in {m} : org[r] \in chOf}
               /\ used' = [used EXCEPT ![i] = @ + 1]
               /\ Answer(r)
          ELSE Goto(r, AfterError(r)) /\ UNCHANGED <<memberVars, placeVars, used>>
  /\ UNCHANGED <<accountVars, linkVars, invite>>

-----------------------------------------------------------------------------
(* Identity: TryLinkIdentityOrg and EnsureIdentityOrg *)

Check(r) ==
  /\ at[r] = "check"
  /\ \E l \in LinkSeen : Goto(r, IF l = NoOrg THEN "upWs" ELSE "idle")
  /\ UNCHANGED <<accountVars, memberVars, placeVars, linkVars, inviteVars>>
\* Mutant of UpWs: the setting is written before the workspace and channel.
UpWs_LinkFirst(r) ==
  /\ at[r] = "upWs"
  /\ linked' = op[r].org
  /\ wsOf' = wsOf \cup {op[r].org}
  /\ Goto(r, "upCh")
  /\ UNCHANGED <<accountVars, memberVars, placeVars, chOf, inviteVars>>
UpWs(r) ==
  /\ at[r] = "upWs"
  /\ wsOf' = wsOf \cup {op[r].org}
  /\ Goto(r, "upCh")
  /\ UNCHANGED <<accountVars, memberVars, placeVars, linked, chOf, inviteVars>>
UpCh(r) ==
  /\ at[r] = "upCh"
  /\ chOf' = chOf \cup {op[r].org}
  /\ Goto(r, "setLink")
  /\ UNCHANGED <<accountVars, memberVars, placeVars, linked, wsOf, inviteVars>>
SetLink(r) ==
  /\ at[r] = "setLink"
  /\ linked' = op[r].org
  /\ GotoIn(r, IF op[r].kind = "sync" THEN "addOrg" ELSE "idle", op[r].org)
  /\ UNCHANGED <<accountVars, memberVars, placeVars, wsOf, chOf, inviteVars>>

-----------------------------------------------------------------------------
\* A statement fails (SQLITE_BUSY, a full disk) where the code looks at the
\* error.
Unchecked == {"first", "again", "auth", "auth2", "target", "exists"}
Fail(r) ==
  /\ Failing
  /\ at[r] \notin Unchecked \cup {"idle"}
  /\ Goto(r, AfterError(r))
  /\ UNCHANGED <<accountVars, memberVars, placeVars, linkVars, inviteVars>>

\* The process stops: the database keeps what has been committed.
Crash ==
  /\ Failing
  /\ at' = [r \in Req |-> "idle"] /\ op' = [r \in Req |-> NoOp]
  /\ org' = [r \in Req |-> NoOrg]
  /\ UNCHANGED <<accountVars, memberVars, placeVars, linkVars, inviteVars>>

AccountNext(r) == Account(r) \/ Session(r) \/ Resolve(r) \/ Provision(r)
JoinNext(r) == Ensure(r) \/ LinkedOrg(r) \/ Count(r) \/ AddOrg(r) \/ AddWs(r)
               \/ AddCh(r)
AdminNext(r) == First(r) \/ Again(r) \/ Auth(r) \/ Target(r) \/ Auth2(r)
                \/ Has(r) \/ SetOrg(r)
InviteNext(r) == Insert(r) \/ Revoke(r) \/ Lookup(r) \/ Exists(r) \/ Join(r)
LinkNext(r) == Check(r) \/ UpWs(r) \/ UpCh(r) \/ SetLink(r)

Next ==
  \/ \E r \in Req : \/ \E o \in Requests : Arrive(r, o)
                    \/ AccountNext(r) \/ JoinNext(r) \/ AdminNext(r)
                    \/ InviteNext(r) \/ LinkNext(r) \/ Fail(r)
  \/ \E i \in Inv : Expire(i)
  \/ Crash

Spec == Init /\ [][Next]_vars
-----------------------------------------------------------------------------
(* Properties *)

\* use_count is the number of member rows the invitation has inserted, however
\* accepts of one token race, fail or are cut short (AcceptInvitation).
UseCountExact ==
  \A i \in Inv : used[i] = Cardinality({m \in User \X Org : via[m] = i})

\* max_uses is read before the transaction and not again in it, so it can be
\* overrun, but by no more than the other requests in flight: with one request
\* at a time it is exact (invalidInviteReason, AcceptInvitation).
UsesBounded ==
  \A i \in Inv : invite[i] # Unissued /\ invite[i].max > 0
                   => used[i] <= invite[i].max + Cardinality(Req) - 1

\* An administrator's role comes from the first bootstrap, from Identity, or
\* from someone who has been an administrator somewhere, also through an
\* invitation, whatever changed between check and write, and even when the
\* checks cannot read the tables (UserIsOrgAdmin, setOrgMemberRole).
GrantsAreAuthorised ==
  \A m \in User \X Org :
    role[m] \in AdminRole
      => \/ by[m] \in {"first", "identity"}
         \/ \E o \in Org : <<by[m], o>> \in everAdmin

\* With one organisation of Identity, and tables that can be read, it was an
\* administrator of that very organisation, also when the server is linked
\* between the two admission checks (the second one is what prevents it).
GrantsStayInside ==
  \A m \in User \X Org :
    role[m] \in AdminRole
      => by[m] \in {"first", "identity"} \/ <<by[m], m[2]>> \in everAdmin

\* Nobody can enter a workspace or its channel without a row in the
\* organisation, whichever statement of a request fails (addUserToOrg).
NoStrayAccess == \A m \in wsMember \cup chMember : role[m] # "none"

\* When no statement fails and nothing is in flight every member can enter the
\* workspace and the channel, however link, sync, accept and register
\* interleave (EnsureIdentityOrg creates them before it links); only a default
\* organisation whose seed was cut short has members it cannot place.
Quiet == \A r \in Req : at[r] = "idle"
Whole == wsOf \cap chOf
Placeable(m) == m[2] = DefaultOrg => DefaultOrg \in Whole
MembersAreComplete ==
  Quiet => \A m \in User \X Org :
             role[m] # "none" /\ Placeable(m) => m \in wsMember \cap chMember

\* Nobody takes the role of the last administrator from itself.  It is lost only
\* to a request that was overtaken: its caller was an administrator when it was
\* let in, and another request has demoted it since.  With one request in flight
\* there is always an administrator ("cannot demote yourself").
SomeAdmin == \E m \in User \X Org : role[m] \in AdminRole
Overtaken(r) ==
  /\ at[r] = "setOrg" /\ op[r].kind = "setRole" /\ op[r].target # op[r].user
  /\ \E o \in Org : <<op[r].user, o>> \in everAdmin
  /\ \A o \in Org : ~IsAdmin(op[r].user, o)
AdminStays ==
  [][SomeAdmin => SomeAdmin' \/ \E r \in Req : Overtaken(r) /\ Req # {r}]_vars

\* If the tables can be read, the bootstrap makes no more owners than requests
\* may overlap (HasAnyOrgAdmin is asked twice, but not again before the row is
\* written): one, when they do not (BootstrapFirstAdmin).
Founders == {m \in User \X Org : by[m] = "first"}
FoundersBounded == Cardinality(Founders) <= Cardinality(Req)

\* Requests that do not overlap have the effect of one atomic operation each,
\* wherever they fail or are cut short.
Dir == INSTANCE Directory
ImplementsDirectory == Dir!Spec
=============================================================================
