--------------------------- MODULE DirectoryProofs ---------------------------
(***************************************************************************)
(* Who administers.  However requests overlap, the last administrator is   *)
(* lost, and a second founder found, only in the ways Membership.tla       *)
(* names.  Requests that do not overlap implement the atomic operations of *)
(* Directory.tla, whichever statement fails and wherever the process       *)
(* stops; the theorems about them assume OneAtATime.                       *)
(***************************************************************************)
EXTENDS MembershipProofs

\* Requests do not overlap.
OneAtATime == \A r, q \in Req : r = q

-----------------------------------------------------------------------------
(* Steps of a request that runs alone *)

\* What has written to the tables is the request itself, or the clock.
LEMMA Alone ==
  ASSUME OneAtATime, TypeOK, [Next]_vars, NEW r \in Req
  PROVE  \/ OwnStep(r)
         \/ at'[r] = "idle"
         \/ Stays(r) /\ UNCHANGED vars
         \/ Stays(r) /\ UNCHANGED <<role, used>> /\ \E i \in Inv : Expire(i)
<1>1. ASSUME NEW q \in Req, OwnStep(q)
      PROVE  OwnStep(r)
  <2>1. q = r
    BY DEF OneAtATime
  <2> QED
    BY <1>1, <2>1
<1>2. ASSUME NEW i \in Inv, Expire(i)
      PROVE  Stays(r) /\ UNCHANGED <<role, used>>
  BY <1>2 DEF Expire, Stays, memberVars
<1>3. Crash => at'[r] = "idle"
  BY DEF Crash
<1>4. UNCHANGED vars => Stays(r)
  BY DEF vars, Stays
<1> QED
  BY <1>1, <1>2, <1>3, <1>4 DEF Next, OwnStep

\* What the admin API does for an administrator, behind both checks.
CallerInv ==
  \A r \in Req :
    at[r] \in BehindBoth /\ op[r].kind \in AdminKind
      => (\E o \in Org : IsAdmin(op[r].user, o)) /\ ~DemotesItself(r)

\* Alone, a caller that was admitted stays an administrator until it has ended.
LEMMA CallerStep ==
  ASSUME OneAtATime, TypeOK, ControlInv, CallerInv, [Next]_vars
  PROVE  CallerInv'
<1> SUFFICES ASSUME NEW r \in Req, at'[r] \in BehindBoth, op'[r].kind \in AdminKind
             PROVE  (\E o \in Org : IsAdmin(op[r].user, o))' /\ ~DemotesItself(r)'
  BY DEF CallerInv
<1>1. ASSUME UNCHANGED role, op'[r] = op[r],
             \E o \in Org : IsAdmin(op[r].user, o), ~DemotesItself(r)
      PROVE  (\E o \in Org : IsAdmin(op[r].user, o))' /\ ~DemotesItself(r)'
  BY <1>1 DEF IsAdmin, DemotesItself
<1>2. CASE Stays(r) /\ UNCHANGED role
  BY <1>1, <1>2 DEF Stays, CallerInv
<1>3. CASE \E o \in Requests : Arrive(r, o)
  <2>1. PICK o \in Op : at'[r] = Entry(o)
    BY <1>3, RequestsAssumption DEF Arrive, TypeOK
  <2> QED
    BY <2>1, OpFields DEF Entry, BehindBoth
<1>4. CASE OwnStep(r) /\ ~\E o \in Requests : Arrive(r, o)
  <2>1. at[r] # "idle" /\ op'[r] = op[r] /\ op[r].kind \in Kinds(at[r])
    BY <1>4, Keeps DEF ControlInv, Legal, BehindBoth
  <2>2. Auth2(r) \/ Has(r)
    BY <1>4, <2>1, Origins
    DEF BehindBoth, Target, Ensure, LinkedOrg, Count, SetLink, Goto, GotoIn, TypeOK,
        Kinds, Accepting, AdminKind
  <2>3. CASE Has(r)
    BY <1>1, <2>1, <2>3 DEF Has, memberVars, BehindBoth, CallerInv
  <2>4. CASE Auth2(r)
    <3>1. Admitted(r) /\ ~DemotesItself(r) /\ UNCHANGED role
      BY <2>4 DEF Auth2, Answer, Goto, GotoIn, TypeOK, BehindBoth, memberVars
    <3>2. PICK l \in Org \cup {NoOrg} : UserIsOrgAdmin(op[r].user, l)
      BY <3>1 DEF Admitted, LinkSeen, TypeOK
    <3>3. \E o \in Org : IsAdmin(op[r].user, o)
      BY <3>2 DEF UserIsOrgAdmin
    <3> QED
      BY <1>1, <2>1, <3>1, <3>3
  <2> QED
    BY <2>2, <2>3, <2>4
<1> QED
  BY <1>2, <1>3, <1>4, Alone DEF BehindBoth, vars

\* What a bootstrap has asked about twice stays so while it runs alone.
FounderInv ==
  \A r \in Req :
    at[r] \in BehindBoth \cup {"target"} /\ op[r].kind = "bootstrap" => ~HasAnyOrgAdmin

\* Alone, nobody becomes an administrator between the question and the row.
LEMMA FounderStep ==
  ASSUME OneAtATime, ~Unreadable, TypeOK, ControlInv, FounderInv, [Next]_vars
  PROVE  FounderInv'
<1> SUFFICES ASSUME NEW r \in Req, at'[r] \in BehindBoth \cup {"target"},
                    op'[r].kind = "bootstrap"
             PROVE  ~HasAnyOrgAdmin'
  BY DEF FounderInv
<1>1. UNCHANGED role => HasAnyOrgAdmin' = HasAnyOrgAdmin
  BY DEF HasAnyOrgAdmin, IsAdmin
<1>2. CASE Stays(r) /\ UNCHANGED role
  BY <1>1, <1>2 DEF Stays, FounderInv
<1>3. CASE \E o \in Requests : Arrive(r, o)
  <2>1. PICK o \in Op : at'[r] = Entry(o)
    BY <1>3, RequestsAssumption DEF Arrive, TypeOK
  <2> QED
    BY <2>1, OpFields DEF Entry, BehindBoth
<1>4. CASE OwnStep(r) /\ ~\E o \in Requests : Arrive(r, o)
  <2>1. at[r] # "idle" /\ op'[r] = op[r] /\ op[r].kind \in Kinds(at[r])
    BY <1>4, Keeps DEF ControlInv, Legal, BehindBoth
  <2>2. Again(r) \/ Target(r) \/ Has(r)
    BY <1>4, <2>1, Origins
    DEF BehindBoth, Auth, Auth2, Ensure, LinkedOrg, Count, SetLink, Kinds, Accepting,
        AdminKind
  <2>3. CASE Again(r)
    <3>1. AdminSeen = {HasAnyOrgAdmin}
      BY DEF AdminSeen
    <3>2. ~HasAnyOrgAdmin /\ UNCHANGED role
      BY <2>3, <3>1 DEF Again, Goto, GotoIn, TypeOK, BehindBoth, memberVars
    <3> QED
      BY <1>1, <3>2
  <2>4. CASE Target(r) \/ Has(r)
    BY <1>1, <2>1, <2>4 DEF Target, Has, memberVars, BehindBoth, FounderInv
  <2> QED
    BY <2>2, <2>3, <2>4
<1> QED
  BY <1>2, <1>3, <1>4, Alone DEF BehindBoth, vars

\* The token a request has looked up can at most expire while it runs alone.
UsableInv ==
  \A r \in Req : at[r] \in {"exists", "join"} =>
    /\ invite[op[r].inv].state \in {"open", "expired"}
    /\ invite[op[r].inv].max > 0 => used[op[r].inv] < invite[op[r].inv].max

\* Nobody else revokes the token or takes its uses.
LEMMA UsableStep ==
  ASSUME OneAtATime, TypeOK, ControlInv, TokenInv, UsableInv, [Next]_vars
  PROVE  UsableInv'
<1> SUFFICES ASSUME NEW r \in Req, at'[r] \in {"exists", "join"}
             PROVE  /\ invite'[op'[r].inv].state \in {"open", "expired"}
                    /\ invite'[op'[r].inv].max > 0
                         => used'[op'[r].inv] < invite'[op'[r].inv].max
  BY DEF UsableInv
<1>1. CASE Stays(r) /\ UNCHANGED vars
  BY <1>1 DEF Stays, vars, UsableInv
<1>2. CASE Stays(r) /\ UNCHANGED <<role, used>> /\ \E i \in Inv : Expire(i)
  <2>1. /\ op[r].inv \in Inv /\ invite[op[r].inv] # Unissued
        /\ at[r] \in {"exists", "join"}
    BY <1>2, JoinFields DEF Stays, Accepting, TokenInv
  <2>2. invite'[op[r].inv].max = invite[op[r].inv].max
    BY <2>1, IssuedStays
  <2>3. invite'[op[r].inv].state \in {"open", "expired"}
    <3>1. \/ invite'[op[r].inv] = invite[op[r].inv]
          \/ invite'[op[r].inv] = [invite[op[r].inv] EXCEPT !.state = "expired"]
      BY <1>2, <2>1 DEF Expire, TypeOK
    <3>2. invite[op[r].inv] \in Terms
      BY <2>1, IssuedTerm
    <3> QED
      BY <2>1, <3>1, <3>2 DEF UsableInv, Terms
  <2> QED
    BY <1>2, <2>1, <2>2, <2>3 DEF Stays, UsableInv
<1>3. CASE Exists(r)
  BY <1>3 DEF Exists, Goto, Answer, GotoIn, TypeOK, inviteVars, UsableInv
<1>4. CASE Lookup(r)
  <2>1. Usable(op[r].inv)
    BY <1>4 DEF Lookup, Goto, GotoIn, AfterError, Adding, TypeOK
  <2>2. op'[r] = op[r] /\ UNCHANGED <<invite, used>>
    BY <1>4, <2>1 DEF Lookup, GotoIn, TypeOK, inviteVars
  <2>3. op[r].inv \in Inv
    BY <1>4, JoinFields DEF Lookup, Accepting
  <2>4. /\ invite[op[r].inv].state = "open"
        /\ invite[op[r].inv].max = 0 \/ used[op[r].inv] < invite[op[r].inv].max
    BY <2>1 DEF Usable
  <2>5. invite[op[r].inv].max \in Nat
    BY <2>3, <2>4, TermFields DEF TypeOK
  <2> QED
    BY <2>2, <2>4, <2>5
<1> QED
  BY <1>1, <1>2, <1>3, <1>4, Alone, Origins

\* A membership Identity asserts is written in the organisation it names.
AssertedInv ==
  \A r \in Req : at[r] = "addOrg" /\ op[r].kind = "sync" => org[r] = op[r].org

\* The step that links the server names the organisation.
LEMMA AssertedStep ==
  ASSUME TypeOK, ControlInv, AssertedInv, [Next]_vars
  PROVE  AssertedInv'
<1> SUFFICES ASSUME NEW r \in Req, at'[r] = "addOrg", op'[r].kind = "sync"
             PROVE  org'[r] = op'[r].org
  BY DEF AssertedInv
<1>1. CASE Stays(r)
  BY <1>1 DEF Stays, AssertedInv
<1>2. CASE OwnStep(r)
  <2>1. ~\E o \in Requests : Arrive(r, o)
    <3>1. ASSUME NEW o \in Requests, Arrive(r, o)
          PROVE  at'[r] = Entry(o) /\ o \in Op
      BY <3>1, RequestsAssumption DEF Arrive, TypeOK
    <3> QED
      BY <3>1, OpFields DEF Entry
  <2>2. at[r] # "idle" /\ op'[r] = op[r] /\ op[r].kind \in Kinds(at[r])
    BY <1>2, <2>1, Keeps DEF ControlInv, Legal
  <2>3. SetLink(r)
    BY <1>2, <2>2, Origins DEF Ensure, LinkedOrg, Count, Has, Kinds, Accepting
  <2> QED
    BY <2>2, <2>3 DEF SetLink, GotoIn, TypeOK
<1> QED
  BY <1>1, <1>2, OthersStay

-----------------------------------------------------------------------------
(* There is always an administrator *)

\* Behind both checks nobody is about to take the role from itself.
SelfInv ==
  \A r \in Req : at[r] \in BehindBoth /\ op[r].kind = "setRole" => ~DemotesItself(r)

\* What a request asked for does not change.
LEMMA SelfStep ==
  ASSUME TypeOK, ControlInv, SelfInv, [Next]_vars
  PROVE  SelfInv'
<1> SUFFICES ASSUME NEW r \in Req, at'[r] \in BehindBoth, op'[r].kind = "setRole"
             PROVE  ~DemotesItself(r)'
  BY DEF SelfInv
<1>1. op'[r] = op[r] => DemotesItself(r)' = DemotesItself(r)
  BY DEF DemotesItself
<1>2. CASE Stays(r)
  BY <1>1, <1>2 DEF Stays, SelfInv
<1>3. CASE \E o \in Requests : Arrive(r, o)
  <2>1. PICK o \in Op : at'[r] = Entry(o)
    BY <1>3, RequestsAssumption DEF Arrive, TypeOK
  <2> QED
    BY <2>1, OpFields DEF Entry, BehindBoth
<1>4. CASE OwnStep(r) /\ ~\E o \in Requests : Arrive(r, o)
  <2>1. at[r] # "idle" /\ op'[r] = op[r] /\ op[r].kind \in Kinds(at[r])
    BY <1>4, Keeps DEF ControlInv, Legal, BehindBoth
  <2>2. Auth2(r) \/ Has(r)
    BY <1>4, <2>1, Origins
    DEF BehindBoth, Target, Ensure, LinkedOrg, Count, SetLink, Goto, GotoIn, TypeOK,
        Kinds, Accepting, AdminKind
  <2>3. CASE Has(r)
    BY <1>1, <2>1, <2>3 DEF Has, BehindBoth, SelfInv
  <2>4. CASE Auth2(r)
    BY <1>1, <2>1, <2>4 DEF Auth2, Answer, Goto, GotoIn, TypeOK, BehindBoth
  <2> QED
    BY <2>2, <2>3, <2>4
<1> QED
  BY <1>2, <1>3, <1>4, OthersStay DEF BehindBoth

\* Rows that are inserted take no role away.  One that is updated is not the
\* caller's, or stays an administrator's: if nobody is left, the caller, who was
\* one when it was let in, was none any more.
LEMMA SomeAdminStep ==
  ASSUME TypeOK, ControlInv, TokenInv, AuthorityInv, SelfInv, [Next]_vars, SomeAdmin
  PROVE  SomeAdmin' \/ \E r \in Req : Overtaken(r)
<1>1. PICK a \in User \X Org : role[a] \in AdminRole
  BY DEF SomeAdmin
<1>2. CASE role'[a] = role[a]
  BY <1>1, <1>2 DEF SomeAdmin
<1>3. ASSUME NEW r \in Req, AddOrg(r)
      PROVE  role'[a] = role[a]
  BY <1>1, <1>3, GrantFields DEF AddOrg, Grant, MemberOf, memberVars, TypeOK, AdminRole
<1>4. ASSUME NEW r \in Req, Join(r)
      PROVE  role'[a] = role[a]
  BY <1>1, <1>4, JoinTerms DEF Join, Grant, MemberOf, memberVars, TypeOK, AdminRole
<1>5. ASSUME NEW r \in Req, SetOrg(r)
      PROVE  SomeAdmin' \/ Overtaken(r)
  <2>1. /\ <<Subject(r), org[r]>> \in User \X Org /\ Wanted(r) \in Role
        /\ role' = [role EXCEPT ![<<Subject(r), org[r]>>] = Wanted(r)]
        /\ op[r].kind \in {"bootstrap", "setRole"} /\ at[r] = "setOrg" /\ op[r] \in Op
    BY <1>5, GrantFields DEF SetOrg, Grant, ControlInv, Legal, Kinds, Accepting
  <2>2. role'[<<Subject(r), org[r]>>] = Wanted(r)
    BY <2>1 DEF TypeOK
  <2>3. CASE Wanted(r) \in AdminRole
    BY <2>1, <2>2, <2>3 DEF SomeAdmin
  <2>4. CASE Wanted(r) \notin AdminRole
    <3>1. op[r].kind = "setRole" /\ op[r].role \notin AdminRole
      BY <2>1, <2>4 DEF Wanted, AdminRole
    <3>2. op[r].target # op[r].user
      BY <2>1, <3>1 DEF SelfInv, BehindBoth, DemotesItself
    <3>3. \E o \in Org : <<op[r].user, o>> \in everAdmin
      BY <2>1, <3>1 DEF AuthorityInv, Behind, BehindBoth, AdminKind, Vouched
    <3>4. CASE \A o \in Org : ~IsAdmin(op[r].user, o)
      BY <2>1, <3>1, <3>2, <3>3, <3>4 DEF Overtaken
    <3>5. ASSUME NEW o \in Org, IsAdmin(op[r].user, o)
          PROVE  SomeAdmin'
      <4>1. <<op[r].user, o>> \in User \X Org /\ <<op[r].user, o>> # <<Subject(r), org[r]>>
        BY <2>1, <3>1, <3>2, OpFields DEF Subject
      <4>2. role'[<<op[r].user, o>>] = role[<<op[r].user, o>>]
        BY <2>1, <4>1 DEF TypeOK
      <4> QED
        BY <3>5, <4>1, <4>2 DEF SomeAdmin, IsAdmin
    <3> QED
      BY <3>4, <3>5
  <2> QED
    BY <2>3, <2>4
<1> QED
  BY <1>2, <1>3, <1>4, <1>5, MemberWriters DEF memberVars

\* A request that is alone is never overtaken.
LEMMA AloneIsAhead ==
  ASSUME OneAtATime => CallerInv, NEW r \in Req, Overtaken(r)
  PROVE  Req # {r}
<1> SUFFICES ASSUME Req = {r}
             PROVE  FALSE
  OBVIOUS
<1>1. OneAtATime
  BY DEF OneAtATime
<1>2. CallerInv
  BY <1>1
<1> QED
  BY <1>2 DEF CallerInv, Overtaken, BehindBoth, AdminKind

-----------------------------------------------------------------------------
(* One step of the directory *)

\* A row inserted by an order.
LEMMA AddImplements ==
  ASSUME TypeOK, ControlInv, CallerInv, FounderInv, AssertedInv,
         NEW r \in Req, AddOrg(r), ~UNCHANGED role
  PROVE  \E m \in User \X Org :
           \/ Dir!Enrol(m) \/ Dir!Found(m)
           \/ \E a \in User, ro \in Role : Dir!Appoint(a, m, ro) \/ Dir!Assert(m, ro)
<1> DEFINE m == <<Subject(r), org[r]>>
<1>1. /\ m \in User \X Org /\ Wanted(r) \in Role /\ op[r] \in Op
      /\ role[m] = "none" /\ role' = [role EXCEPT ![m] = Wanted(r)]
      /\ UNCHANGED <<invite, used>> /\ at[r] = "addOrg"
      /\ op[r].kind \in Kinds("addOrg")
  BY GrantFields DEF AddOrg, Grant, MemberOf, memberVars, inviteVars, ControlInv, Legal
<1>2. CASE op[r].kind \in {"register", "login", "fallback"}
  <2>1. Wanted(r) = "member"
    BY <1>2 DEF Wanted
  <2> QED
    BY <1>1, <2>1 DEF Dir!Enrol
<1>3. CASE op[r].kind = "bootstrap"
  <2>1. Wanted(r) = "owner" /\ ~HasAnyOrgAdmin
    BY <1>1, <1>3 DEF Wanted, FounderInv, BehindBoth
  <2>2. Dir!Admins = {}
    BY <2>1 DEF Dir!Admins, HasAnyOrgAdmin, IsAdmin, AdminRole
  <2> QED
    BY <1>1, <2>1, <2>2 DEF Dir!Found
<1>4. CASE op[r].kind = "setRole"
  <2>1. /\ op[r].user \in User /\ Wanted(r) = op[r].role /\ m[1] = op[r].target
        /\ op[r].user \in Dir!Admins
    BY <1>1, <1>4, OpFields
    DEF Wanted, Subject, CallerInv, BehindBoth, AdminKind, Dir!Admins, IsAdmin, AdminRole
  <2>2. m[1] = op[r].user => Wanted(r) # "member"
    BY <1>1, <1>4, <2>1 DEF CallerInv, BehindBoth, AdminKind, DemotesItself, AdminRole
  <2>3. Dir!Appoint(op[r].user, m, Wanted(r))
    BY <1>1, <2>1, <2>2 DEF Dir!Appoint
  <2> QED
    BY <1>1, <2>1, <2>3
<1>5. CASE op[r].kind = "sync"
  <2>1. m[2] # DefaultOrg
    <3>1. org[r] = op[r].org
      BY <1>1, <1>5 DEF AssertedInv
    <3>2. op[r].org # DefaultOrg
      BY <1>1, <1>5 DEF Op
    <3> QED
      BY <3>1, <3>2
  <2>2. Dir!Assert(m, Wanted(r))
    BY <1>1, <2>1 DEF Dir!Assert
  <2>3. \E a \in User : TRUE
    BY <1>1
  <2> QED
    BY <1>1, <2>2, <2>3
<1> QED
  BY <1>1, <1>2, <1>3, <1>4, <1>5 DEF Kinds, Accepting

\* A row updated by an order.
LEMMA SetImplements ==
  ASSUME TypeOK, ControlInv, CallerInv, FounderInv, NEW r \in Req, SetOrg(r)
  PROVE  \E m \in User \X Org :
           \/ Dir!Found(m)
           \/ \E a \in User, ro \in Role : Dir!Appoint(a, m, ro)
<1> DEFINE m == <<Subject(r), org[r]>>
<1>1. /\ m \in User \X Org /\ Wanted(r) \in Role /\ op[r] \in Op
      /\ role' = [role EXCEPT ![m] = Wanted(r)]
      /\ UNCHANGED <<invite, used>> /\ at[r] = "setOrg"
      /\ op[r].kind \in {"bootstrap", "setRole"}
  BY GrantFields DEF SetOrg, Grant, inviteVars, ControlInv, Legal, Kinds, Accepting
<1>2. CASE op[r].kind = "bootstrap"
  <2>1. Wanted(r) = "owner" /\ ~HasAnyOrgAdmin
    BY <1>1, <1>2 DEF Wanted, FounderInv, BehindBoth
  <2>2. Dir!Admins = {}
    BY <2>1 DEF Dir!Admins, HasAnyOrgAdmin, IsAdmin, AdminRole
  <2> QED
    BY <1>1, <2>1, <2>2 DEF Dir!Found
<1>3. CASE op[r].kind = "setRole"
  <2>1. /\ op[r].user \in User /\ Wanted(r) = op[r].role /\ m[1] = op[r].target
        /\ op[r].user \in Dir!Admins
    BY <1>1, <1>3, OpFields
    DEF Wanted, Subject, CallerInv, BehindBoth, AdminKind, Dir!Admins, IsAdmin, AdminRole
  <2>2. m[1] = op[r].user => Wanted(r) # "member"
    BY <1>1, <1>3, <2>1 DEF CallerInv, BehindBoth, AdminKind, DemotesItself, AdminRole
  <2>3. Dir!Appoint(op[r].user, m, Wanted(r))
    BY <1>1, <2>1, <2>2 DEF Dir!Appoint
  <2> QED
    BY <1>1, <2>1, <2>3
<1> QED
  BY <1>1, <1>2, <1>3

\* A row inserted by a token.
LEMMA JoinImplements ==
  ASSUME TypeOK, ControlInv, TokenInv, JoinInv, UsableInv,
         NEW r \in Req, Join(r), ~UNCHANGED <<role, used>>
  PROVE  \E m \in User \X Org, i \in Inv : Dir!Redeem(m, i)
<1> DEFINE m == <<op[r].user, org[r]>>
<1> DEFINE i == op[r].inv
<1>1. /\ m \in User \X Org /\ i \in Inv /\ at[r] = "join"
  BY JoinTerms DEF Join
<1>2. /\ role[m] = "none" /\ role' = [role EXCEPT ![m] = invite[i].role]
      /\ used' = [used EXCEPT ![i] = @ + 1] /\ UNCHANGED invite
  BY DEF Join, Grant, MemberOf, memberVars
<1>3. /\ invite[i].state \in {"open", "expired"} /\ m[2] = invite[i].org
      /\ invite[i].max > 0 => used[i] < invite[i].max
  BY <1>1 DEF JoinInv, UsableInv
<1>4. Dir!Redeem(m, i)
  BY <1>2, <1>3 DEF Dir!Redeem
<1> QED
  BY <1>1, <1>4

\* A token is issued or revoked by an administrator.
LEMMA TokenImplements ==
  ASSUME TypeOK, ControlInv, TokenInv, CallerInv,
         NEW r \in Req, Insert(r) \/ Revoke(r), ~UNCHANGED invite
  PROVE  \E i \in Inv, a \in User :
           \/ Dir!Revoke(a, i)
           \/ \E o \in Org, ro \in {"admin", "member"} :
                Dir!Issue(a, i, o, ro, invite'[i].max)
<1>1. /\ at[r] \in {"insert", "revoke"} /\ op[r] \in Op /\ op[r].kind \in Kinds(at[r])
      /\ org[r] \in Org /\ UNCHANGED <<role, used>>
  BY DEF Insert, Revoke, ControlInv, Legal, Placed, memberVars
<1>2. op[r].kind = IF at[r] = "insert" THEN "create" ELSE "revoke"
  BY <1>1 DEF Kinds, Accepting
<1>3. op[r].user \in Dir!Admins /\ op[r].user \in User
  BY <1>1, <1>2, OpFields
  DEF CallerInv, BehindBoth, AdminKind, Dir!Admins, IsAdmin, AdminRole
<1>4. CASE Insert(r)
  <2>1. PICK i \in Inv :
          /\ invite[i] = Unissued
          /\ invite' = [invite EXCEPT ![i] =
               [state |-> "open", org |-> org[r], role |-> op[r].role,
                max |-> op[r].max, by |-> op[r].user]]
    BY <1>4 DEF Insert
  <2>2. op[r].role \in {"admin", "member"}
    BY <1>1, <1>2, <1>4, OpFields DEF Insert, Role
  <2>3. invite'[i].max = op[r].max
    BY <2>1 DEF TypeOK
  <2>4. Dir!Issue(op[r].user, i, org[r], op[r].role, invite'[i].max)
    <3>1. invite[i].state = "unissued"
      BY <2>1 DEF Unissued
    <3>2. invite' = [invite EXCEPT ![i] =
            [state |-> "open", org |-> org[r], role |-> op[r].role,
             max |-> invite'[i].max, by |-> op[r].user]]
      BY <2>1, <2>3, Zenon
    <3> QED
      BY <1>1, <1>3, <3>1, <3>2 DEF Dir!Issue
  <2> QED
    BY <1>1, <1>3, <2>2, <2>4
<1>5. CASE Revoke(r)
  <2>1. op[r].inv \in Inv /\ invite[op[r].inv] # Unissued
    BY <1>1, <1>2, <1>5, OpFields DEF Revoke, TokenInv
  <2>2. Dir!Issued(op[r].inv)
    BY <2>1, IssuedTerm DEF Dir!Issued, Terms
  <2>3. invite' = [invite EXCEPT ![op[r].inv].state = "revoked"]
    BY <1>5 DEF Revoke
  <2> QED
    BY <1>1, <1>3, <2>1, <2>2, <2>3 DEF Dir!Revoke
<1> QED
  BY <1>4, <1>5

\* What is true of requests that run alone.
SerialInv == IInv /\ CallerInv /\ FounderInv /\ UsableInv /\ AssertedInv

\* Every statement is a step of the directory or leaves it as it is.
LEMMA StepImplements ==
  ASSUME SerialInv, [Next]_vars
  PROVE  [Dir!Next]_<<role, invite, used>>
<1> USE DEF SerialInv, IInv
<1>1. CASE \E r \in Req : AddOrg(r)
  <2>1. UNCHANGED <<invite, used>>
    BY <1>1 DEF AddOrg, inviteVars
  <2>2. CASE ~UNCHANGED role
    BY <1>1, <2>2, AddImplements DEF Dir!Next, Role
  <2> QED
    BY <2>1, <2>2
<1>2. CASE \E r \in Req : SetOrg(r)
  BY <1>2, SetImplements DEF Dir!Next, Role
<1>3. CASE \E r \in Req : Join(r)
  <2>1. UNCHANGED invite
    BY <1>3 DEF Join
  <2>2. CASE ~UNCHANGED <<role, used>>
    BY <1>3, <2>2, JoinImplements DEF Dir!Next
  <2> QED
    BY <2>1, <2>2
<1>4. CASE \E r \in Req : Insert(r) \/ Revoke(r)
  <2>1. UNCHANGED <<role, used>>
    BY <1>4 DEF Insert, Revoke, memberVars
  <2>2. CASE ~UNCHANGED invite
    BY <1>4, <2>2, TokenImplements DEF Dir!Next
  <2> QED
    BY <2>1, <2>2
<1>5. CASE \E i \in Inv : Expire(i)
  <2>1. PICK i \in Inv : Expire(i)
    BY <1>5
  <2>2. Dir!Expire(i)
    BY <2>1 DEF Expire, Dir!Expire, memberVars
  <2> QED
    BY <2>2 DEF Dir!Next
<1>6. CASE UNCHANGED memberVars /\ UNCHANGED inviteVars
  BY <1>6 DEF memberVars, inviteVars
<1> QED
  BY <1>1, <1>2, <1>3, <1>4, <1>5, <1>6, MemberWriters, InviteWriters

-----------------------------------------------------------------------------
(* Theorems *)

\* A fresh database satisfies each of them.
LEMMA SerialInit == Init => CallerInv /\ FounderInv /\ UsableInv /\ AssertedInv
BY DEF Init, CallerInv, FounderInv, UsableInv, AssertedInv, BehindBoth

\* However requests overlap, fail or are cut short, and whether or not tables can be
\* read, the last administrator is lost only to a request whose caller was demoted by
\* another one while it ran: never to one that runs alone.
THEOREM AdminsRemain == Spec => AdminStays
<1> DEFINE Serial == OneAtATime => CallerInv
<1>1. Init => SelfInv /\ Serial
  BY SerialInit DEF Init, SelfInv, BehindBoth
<1>2. IInv /\ SelfInv /\ [Next]_vars => SelfInv'
  BY SelfStep DEF IInv
<1>3. IInv /\ Serial /\ [Next]_vars => Serial'
  BY CallerStep DEF IInv, OneAtATime
<1>4. IInv /\ SelfInv /\ Serial /\ [Next]_vars
      => [SomeAdmin => SomeAdmin' \/ \E r \in Req : Overtaken(r) /\ Req # {r}]_vars
  BY SomeAdminStep, AloneIsAhead DEF IInv
<1> QED
  BY <1>1, <1>2, <1>3, <1>4, Invariant, PTL DEF Spec, AdminStays

\* Requests that do not overlap, against tables that can be read, implement the
\* atomic operations of the directory.
THEOREM SerialImplements ==
  ASSUME OneAtATime, Unreadable = FALSE
  PROVE  Spec => ImplementsDirectory
<1>1. Init => Dir!Init
  BY DEF Init, Dir!Init, Unissued
<1>2. Init => SerialInv
  BY SerialInit, InitInv DEF SerialInv
<1>3. SerialInv /\ [Next]_vars => SerialInv'
  BY StepInv, CallerStep, FounderStep, UsableStep, AssertedStep DEF SerialInv, IInv
<1>4. SerialInv /\ [Next]_vars => [Dir!Next]_<<role, invite, used>>
  BY StepImplements
<1> QED
  BY <1>1, <1>2, <1>3, <1>4, PTL DEF Spec, ImplementsDirectory, Dir!Spec

\* max_uses is not overrun at all (invitations.go).
SerialUses ==
  \A i \in Inv : invite[i] # Unissued /\ invite[i].max > 0 => used[i] <= invite[i].max

\* The bound of UsesBounded is exact when requests do not overlap, whatever fails.
THEOREM UsesNeverOverrun ==
  ASSUME OneAtATime
  PROVE  Spec => []SerialUses
<1>1. Cardinality(Req) <= 1
  <2>1. CASE Req = {}
    BY <2>1, FS_EmptySet
  <2>2. CASE Req # {}
    <3>1. PICK r \in Req : Req = {r}
      BY <2>2 DEF OneAtATime
    <3> QED
      BY <3>1, FS_Singleton
  <2> QED
    BY <2>1, <2>2
<1>2. TypeOK /\ UsesBounded => SerialUses
  <2> SUFFICES ASSUME TypeOK, UsesBounded,
                      NEW i \in Inv, invite[i] # Unissued, invite[i].max > 0
               PROVE  used[i] <= invite[i].max
    BY DEF SerialUses
  <2>1. used[i] <= invite[i].max + Cardinality(Req) - 1
    BY DEF UsesBounded
  <2>2. used[i] \in Nat /\ invite[i].max \in Nat /\ Cardinality(Req) \in Nat
    BY TermFields, RequestsAssumption, FS_CardinalityType DEF TypeOK
  <2> QED
    BY <1>1, <2>1, <2>2
<1> QED
  BY <1>2, TypeCorrect, UsesStayBounded, PTL

-----------------------------------------------------------------------------
(* Founders *)

\* Whoever holds a role by the bootstrap is an owner.
FirstOwns == \A m \in User \X Org : by[m] = "first" => role[m] = "owner"

\* Bootstraps that have asked twice and have not written their row yet.
Founding == {r \in Req : /\ at[r] \in BehindBoth \cup {"target"}
                         /\ op[r].kind = "bootstrap"}

FoundInv == /\ FirstOwns /\ IsFiniteSet(Founders)
            /\ Cardinality(Founders) + Cardinality(Founding) <= Cardinality(Req)

\* A bootstrap passes its second question when there is no founder, and leaves with
\* the row; nothing else joins those on their way.
LEMMA FoundingMoves ==
  ASSUME ~Unreadable, TypeOK, ControlInv, FirstOwns, [Next]_vars
  PROVE  \/ Founding' \subseteq Founding
         \/ Founders = {} /\ UNCHANGED memberVars
<1> SUFFICES ASSUME NEW r \in Req, r \in Founding', r \notin Founding
             PROVE  Founders = {} /\ UNCHANGED memberVars
  BY DEF Founding
<1>1. /\ at'[r] \in BehindBoth \cup {"target"} /\ op'[r].kind = "bootstrap"
      /\ ~(at[r] \in BehindBoth \cup {"target"} /\ op[r].kind = "bootstrap")
  BY DEF Founding
<1>2. ~Stays(r)
  BY <1>1 DEF Stays
<1>3. ~\E o \in Requests : Arrive(r, o)
  <2>1. ASSUME NEW o \in Requests, Arrive(r, o)
        PROVE  at'[r] = Entry(o) /\ o \in Op
    BY <2>1, RequestsAssumption DEF Arrive, TypeOK
  <2> QED
    BY <1>1, <2>1, OpFields DEF Entry, BehindBoth
<1>4. OwnStep(r)
  BY <1>1, <1>2, OthersStay DEF BehindBoth
<1>5. at[r] # "idle" /\ op'[r] = op[r] /\ op[r].kind \in Kinds(at[r])
  BY <1>1, <1>3, <1>4, Keeps DEF ControlInv, Legal, BehindBoth
<1>6. Again(r)
  BY <1>1, <1>4, <1>5, Origins
  DEF BehindBoth, Auth, Auth2, Target, Has, Ensure, LinkedOrg, Count, SetLink, Kinds,
      Accepting, AdminKind
<1>7. ~HasAnyOrgAdmin /\ UNCHANGED memberVars
  <2>1. AdminSeen = {HasAnyOrgAdmin}
    BY DEF AdminSeen
  <2> QED
    BY <1>1, <1>6, <2>1 DEF Again, Goto, GotoIn, TypeOK, BehindBoth
<1> QED
  BY <1>7 DEF Founders, FirstOwns, HasAnyOrgAdmin, IsAdmin, AdminRole

\* A row that goes back to the bootstrap is written by one of those on their way,
\* which then is on its way no more.
LEMMA FounderRow ==
  ASSUME TypeOK, ControlInv, TokenInv, FirstOwns, [Next]_vars
  PROVE  /\ FirstOwns'
         /\ \/ Founders' \subseteq Founders
            \/ \E r \in Founding, m \in User \X Org :
                 Founders' \subseteq Founders \cup {m} /\ r \notin Founding'
<1>1. CASE UNCHANGED memberVars
  BY <1>1 DEF memberVars, FirstOwns, Founders
<1>2. ASSUME NEW r \in Req, AddOrg(r) \/ SetOrg(r), ~UNCHANGED memberVars
      PROVE  /\ FirstOwns'
             /\ \/ Founders' \subseteq Founders
                \/ \E m \in User \X Org :
                     /\ r \in Founding /\ r \notin Founding'
                     /\ Founders' \subseteq Founders \cup {m}
  <2> DEFINE m == <<Subject(r), org[r]>>
  <2>1. /\ m \in User \X Org /\ op[r] \in Op /\ at[r] \in {"addOrg", "setOrg"}
        /\ role' = [role EXCEPT ![m] = Wanted(r)] /\ by' = [by EXCEPT ![m] = Orderer(r)]
    BY <1>2, GrantFields DEF AddOrg, SetOrg, Grant
  <2>2. \A n \in User \X Org : n # m => role'[n] = role[n] /\ by'[n] = by[n]
    BY <2>1 DEF TypeOK
  <2>3. role'[m] = Wanted(r) /\ by'[m] = Orderer(r)
    BY <2>1 DEF TypeOK
  <2>4. CASE op[r].kind = "bootstrap"
    <3>1. Wanted(r) = "owner" /\ r \in Founding
      BY <2>1, <2>4 DEF Wanted, Founding, BehindBoth
    <3>2. at'[r] \in {"addWs", "addCh", "idle"}
      BY <1>2, <2>4 DEF AddOrg, SetOrg, AfterError, Goto, GotoIn, TypeOK
    <3>3. r \notin Founding'
      BY <3>2 DEF Founding, BehindBoth
    <3>4. Founders' \subseteq Founders \cup {m}
      BY <2>2 DEF Founders
    <3> QED
      BY <2>1, <2>2, <2>3, <3>1, <3>3, <3>4 DEF FirstOwns
  <2>5. CASE op[r].kind # "bootstrap"
    <3>1. Orderer(r) # "first"
      BY <2>1, <2>5, OpFields, OriginAssumption DEF Orderer
    <3> QED
      BY <2>2, <2>3, <3>1 DEF FirstOwns, Founders
  <2> QED
    BY <2>4, <2>5
<1>3. ASSUME NEW r \in Req, Join(r), ~UNCHANGED memberVars
      PROVE  FirstOwns' /\ Founders' \subseteq Founders
  <2> DEFINE m == <<op[r].user, org[r]>>
  <2>1. /\ m \in User \X Org /\ invite[op[r].inv].by \in User
        /\ \E ro : role' = [role EXCEPT ![m] = ro]
        /\ by' = [by EXCEPT ![m] = invite[op[r].inv].by]
    BY <1>3, JoinTerms DEF Join, Grant
  <2>2. \A n \in User \X Org : n # m => role'[n] = role[n] /\ by'[n] = by[n]
    BY <2>1 DEF TypeOK
  <2>3. by'[m] # "first"
    BY <2>1, OriginAssumption DEF TypeOK
  <2> QED
    BY <2>2, <2>3 DEF FirstOwns, Founders
<1> QED
  BY <1>1, <1>2, <1>3, MemberWriters

\* Founders and those on their way never outnumber the requests in flight.
LEMMA FoundStep ==
  ASSUME ~Unreadable, TypeOK, ControlInv, TokenInv, FoundInv, [Next]_vars
  PROVE  FoundInv'
<1>1. FirstOwns /\ IsFiniteSet(Founders) /\ IsFiniteSet(Req)
  BY RequestsAssumption DEF FoundInv
<1>2. /\ IsFiniteSet(Founding) /\ Cardinality(Founding) \in Nat
      /\ IsFiniteSet(Founding') /\ Cardinality(Founding') \in Nat
      /\ Cardinality(Founding') <= Cardinality(Req)
      /\ Cardinality(Founders) \in Nat /\ Cardinality(Req) \in Nat
  <2>1. Founding \subseteq Req /\ Founding' \subseteq Req
    BY DEF Founding
  <2> QED
    BY <1>1, <2>1, FS_Subset, FS_CardinalityType
<1>3. CASE Founders' \subseteq Founders /\ Founding' \subseteq Founding
  <2>1. /\ IsFiniteSet(Founders') /\ Cardinality(Founders') <= Cardinality(Founders)
        /\ Cardinality(Founders') \in Nat
        /\ Cardinality(Founding') <= Cardinality(Founding)
    BY <1>1, <1>2, <1>3, FS_Subset, FS_CardinalityType
  <2>2. Cardinality(Founders') + Cardinality(Founding') <= Cardinality(Req)
    BY <1>2, <2>1 DEF FoundInv
  <2> QED
    BY <1>1, <2>1, <2>2, FounderRow DEF FoundInv
<1>4. CASE Founders = {} /\ UNCHANGED memberVars
  <2>1. Founders' = {}
    BY <1>4 DEF memberVars, Founders
  <2>2. IsFiniteSet(Founders') /\ Cardinality(Founders') = 0
    BY <2>1, FS_EmptySet
  <2>3. Cardinality(Founders') + Cardinality(Founding') <= Cardinality(Req)
    BY <1>2, <2>2
  <2> QED
    BY <1>1, <2>2, <2>3, FounderRow DEF FoundInv
<1>5. ASSUME NEW r \in Founding, NEW m \in User \X Org, r \notin Founding',
             Founders' \subseteq Founders \cup {m}, Founding' \subseteq Founding
      PROVE  FoundInv'
  <2>1. /\ IsFiniteSet(Founders \cup {m})
        /\ Cardinality(Founders \cup {m}) \in Nat
        /\ Cardinality(Founders \cup {m}) <= Cardinality(Founders) + 1
    <3>1. /\ IsFiniteSet(Founders \cup {m})
          /\ Cardinality(Founders \cup {m}) =
               IF m \in Founders THEN Cardinality(Founders) ELSE Cardinality(Founders) + 1
      BY <1>1, FS_AddElement
    <3> QED
      BY <1>2, <3>1
  <2>2. /\ IsFiniteSet(Founders') /\ Cardinality(Founders') \in Nat
        /\ Cardinality(Founders') <= Cardinality(Founders \cup {m})
    BY <1>5, <2>1, FS_Subset, FS_CardinalityType
  <2>3. IsFiniteSet(Founding \ {r}) /\ Cardinality(Founding \ {r}) = Cardinality(Founding) - 1
    BY <1>2, FS_RemoveElement
  <2>4. Cardinality(Founding') <= Cardinality(Founding \ {r})
    <3>1. Founding' \subseteq Founding \ {r}
      BY <1>5
    <3> QED
      BY <2>3, <3>1, FS_Subset
  <2>5. Cardinality(Founders') + Cardinality(Founding') <= Cardinality(Req)
    BY <1>2, <2>1, <2>2, <2>3, <2>4 DEF FoundInv
  <2> QED
    BY <1>1, <2>2, <2>5, FounderRow DEF FoundInv
<1> QED
  BY <1>1, <1>3, <1>4, <1>5, FoundingMoves, FounderRow

\* If tables can be read, bootstraps make no more owners than requests may overlap,
\* however they race, fail or are cut short: one administration is founded when they
\* do not overlap, and a later one is refused.
THEOREM FoundersStayBounded ==
  ASSUME Unreadable = FALSE
  PROVE  Spec => []FoundersBounded
<1>1. Init => FoundInv
  <2> SUFFICES ASSUME Init
               PROVE  FoundInv
    OBVIOUS
  <2>1. Founders = {} /\ Founding = {} /\ FirstOwns
    BY DEF Init, Founders, Founding, FirstOwns, BehindBoth
  <2> QED
    BY <2>1, FS_EmptySet, RequestsAssumption, FS_CardinalityType DEF FoundInv
<1>2. IInv /\ FoundInv /\ [Next]_vars => FoundInv'
  BY FoundStep DEF IInv
<1>3. FoundInv => FoundersBounded
  <2> SUFFICES ASSUME FoundInv
               PROVE  FoundersBounded
    OBVIOUS
  <2>1. Founding \subseteq Req
    BY DEF Founding
  <2>2. /\ Cardinality(Founding) \in Nat /\ Cardinality(Founders) \in Nat
        /\ Cardinality(Req) \in Nat
    BY <2>1, RequestsAssumption, FS_Subset, FS_CardinalityType DEF FoundInv
  <2> QED
    BY <2>2 DEF FoundInv, FoundersBounded
<1> QED
  BY <1>1, <1>2, <1>3, Invariant, PTL DEF Spec
=============================================================================
