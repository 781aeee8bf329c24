-------------------------- MODULE MembershipProofs --------------------------
(***************************************************************************)
(* Theorems about Membership.tla for any sets of accounts, organisations,  *)
(* tokens and requests in flight, whichever statements fail; two theorems  *)
(* name the assumption they need.                                          *)
(***************************************************************************)
EXTENDS Membership, FiniteSetTheorems, TLAPS

AdminKind == {"setRole", "create", "revoke"}

\* The kinds of request that run a statement.
Kinds(p) ==
  CASE p \in {"account", "session"} -> {"register", "bootstrap"}
    [] p \in {"first", "again"} -> {"bootstrap"}
    [] p \in {"ensure", "count"} -> {"register", "login"}
    [] p \in {"addOrg", "addWs", "addCh"} ->
         {"register", "login", "fallback", "bootstrap", "setRole", "sync"}
    [] p \in Accepting -> {"register", "accept"}
    [] p = "target" -> {"bootstrap"} \cup AdminKind
    [] p \in {"auth", "auth2"} -> AdminKind
    [] p \in {"has", "setOrg"} -> {"bootstrap", "setRole"}
    [] p = "insert" -> {"create"}
    [] p = "revoke" -> {"revoke"}
    [] p \in {"resolve", "provision"} -> {"sync", "fallback"}
    [] p = "linkedOrg" -> {"fallback"}
    [] p = "check" -> {"link"}
    [] p \in {"upWs", "upCh", "setLink"} -> {"sync", "link", "relink"}
    [] OTHER -> {}

\* Statements that need to know the organisation.
Placed == {"addOrg", "addWs", "addCh", "auth2", "has", "setOrg", "insert",
           "revoke", "exists", "join"}

\* Request r may run p in organisation o.
Legal(r, p, o) ==
  p # "idle" =>
    /\ op[r].kind \in Kinds(p)
    /\ p \in Placed => o \in Org
    /\ p \in Accepting => op[r].inv \in Inv

ControlType ==
  /\ at \in [Req -> Point] /\ op \in [Req -> Op \cup {NoOp}]
  /\ org \in [Req -> Org \cup {NoOrg}]

ControlInv ==
  \A r \in Req : /\ at[r] # "idle" => op[r] \in Op
                 /\ Legal(r, at[r], org[r])

-----------------------------------------------------------------------------
(* Control *)

\* What a request carries, by its kind.
LEMMA OpFields ==
  ASSUME NEW o \in Op
  PROVE  /\ o.kind \notin {"link", "relink"} => o.user \in User
         /\ o.kind = "register" => o.inv \in Inv \cup {NoInv}
         /\ o.kind \in {"accept", "revoke"} => o.inv \in Inv
         /\ o.kind = "setRole" => o.target \in User
         /\ o.kind \in {"setRole", "create", "sync"} => o.role \in Role
         /\ o.kind = "create" => o.max \in Nat
         /\ o.kind \in {"sync", "link", "relink"} => o.org \in Org
         /\ o.kind \in {"register", "login", "fallback", "accept", "bootstrap",
                        "setRole", "create", "revoke", "sync", "link", "relink"}
BY DEF Op

\* A request in flight keeps what it asked for, and the others their place.
LEMMA MoveKeeps ==
  ASSUME ControlType, ControlInv, NEW r \in Req, NEW p \in Point,
         NEW o \in Org \cup {NoOrg}, at[r] # "idle", Legal(r, p, o),
         GotoIn(r, p, o)
  PROVE  ControlType' /\ ControlInv'
<1>1. ControlType'
  BY DEF ControlType, GotoIn
<1>2. ASSUME NEW q \in Req
      PROVE  (at'[q] # "idle" => op'[q] \in Op) /\ Legal(q, at[q], org[q])'
  <2>1. CASE q = r
    BY <2>1 DEF ControlType, ControlInv, GotoIn, Legal
  <2>2. CASE q # r
    BY <2>2 DEF ControlType, ControlInv, GotoIn, Legal
  <2> QED
    BY <2>1, <2>2
<1> QED
  BY <1>1, <1>2 DEF ControlInv

\* A request that arrives is where its kind begins.
LEMMA ControlArrive ==
  ASSUME ControlType, ControlInv, NEW r \in Req, NEW o \in Requests, Arrive(r, o)
  PROVE  ControlType' /\ ControlInv'
<1>1. o \in Op
  BY RequestsAssumption
<1>2. Entry(o) \in Point \ {"idle"} /\ o.kind \in Kinds(Entry(o))
  BY <1>1, OpFields DEF Entry, Point, Adding, Accepting, Kinds, AdminKind
<1>3. Entry(o) \notin Placed /\ (Entry(o) \in Accepting => o.inv \in Inv)
  BY <1>1, OpFields DEF Entry, Placed, Accepting
<1>4. ControlType'
  BY <1>1, <1>2 DEF Arrive, ControlType
<1>5. ASSUME NEW q \in Req
      PROVE  (at'[q] # "idle" => op'[q] \in Op) /\ Legal(q, at[q], org[q])'
  <2>1. CASE q = r
    BY <2>1, <1>1, <1>2, <1>3 DEF ControlType, Arrive, Legal
  <2>2. CASE q # r
    BY <2>2 DEF ControlType, ControlInv, Arrive, Legal
  <2> QED
    BY <2>1, <2>2
<1> QED
  BY <1>4, <1>5 DEF ControlInv

\* What an invitation that has been issued carries.
LEMMA TermFields ==
  ASSUME NEW t \in Terms \cup {Unissued}, t # Unissued \/ t.state # "unissued"
  PROVE  /\ t.org \in Org /\ t.role \in {"admin", "member"} /\ t.max \in Nat
         /\ t.by \in User /\ t.state \in {"open", "expired", "revoked"}
         /\ t \in Terms
BY DEF Terms, Unissued

\* A request's own statements, and one that fails, take it where it may be.
LEMMA ControlRequest ==
  ASSUME TypeOK, ControlInv, NEW r \in Req,
         AccountNext(r) \/ JoinNext(r) \/ AdminNext(r) \/ InviteNext(r)
           \/ LinkNext(r) \/ Fail(r)
  PROVE  ControlType' /\ ControlInv'
<1> DEFINE Goes(p, o) == /\ p \in Point /\ o \in Org \cup {NoOrg}
                         /\ Legal(r, p, o) /\ GotoIn(r, p, o)
<1>1. SUFFICES \E p, o : at[r] # "idle" /\ Goes(p, o)
  BY MoveKeeps DEF TypeOK, ControlType
<1>2. /\ at[r] \in Point /\ org[r] \in Org \cup {NoOrg}
      /\ at[r] # "idle" => op[r] \in Op
      /\ Legal(r, at[r], org[r])
  BY DEF TypeOK, ControlInv
<1>3. op[r] \in Op => /\ op[r].kind = "register" => op[r].inv \in Inv \cup {NoInv}
                      /\ op[r].kind \in {"sync", "link", "relink"} => op[r].org \in Org
  BY OpFields
<1>t. linked \in Org \cup {NoOrg}
  BY DEF TypeOK
<1>u. ASSUME NEW i \in Inv, Usable(i)
      PROVE  invite[i].org \in Org
  BY <1>u, TermFields DEF TypeOK, Usable
<1> USE <1>2, <1>3 DEF Goto, Answer, Legal, Point, Placed, Adding, Accepting, Kinds, AdminKind
<1>4. CASE Account(r)
  BY <1>4 DEF Account
<1>5. CASE Session(r)
  BY <1>5 DEF Session
<1>6. CASE Resolve(r)
  BY <1>6 DEF Resolve, Resolved
<1>7. CASE Provision(r)
  BY <1>7 DEF Provision, Resolved
<1>8. CASE Ensure(r)
  BY <1>t, <1>8 DEF Ensure, LinkSeen
<1>9. CASE LinkedOrg(r)
  BY <1>t, <1>9 DEF LinkedOrg
<1>10. CASE Count(r)
  BY NamesAssumption, <1>10 DEF Count, AfterAdd
<1>11. CASE AddOrg(r)
  BY <1>11 DEF AddOrg
<1>12. CASE AddWs(r)
  BY <1>12 DEF AddWs, AfterError, AfterAdd
<1>13. CASE AddCh(r)
  BY <1>13 DEF AddCh, AfterAdd
<1>14. CASE First(r)
  BY <1>14 DEF First
<1>15. CASE Again(r)
  BY <1>15 DEF Again
<1>16. CASE Auth(r)
  BY <1>16 DEF Auth
<1>17. CASE Target(r)
  BY <1>t, NamesAssumption, <1>17 DEF Target, AdminOrgID, LinkSeen
<1>18. CASE Auth2(r)
  BY <1>18 DEF Auth2, Granted
<1>19. CASE Has(r)
  BY <1>19 DEF Has
<1>20. CASE SetOrg(r)
  BY <1>20 DEF SetOrg, AfterError
<1>21. CASE Insert(r)
  BY <1>21 DEF Insert
<1>22. CASE Revoke(r)
  BY <1>22 DEF Revoke
<1>23. CASE Lookup(r)
  BY <1>u, <1>23 DEF Lookup, AfterError
<1>24. CASE Exists(r)
  BY <1>24 DEF Exists
<1>25. CASE Join(r)
  BY <1>25 DEF Join, AfterError
<1>26. CASE Check(r)
  BY <1>26 DEF Check, LinkSeen
<1>27. CASE UpWs(r)
  BY <1>27 DEF UpWs
<1>28. CASE UpCh(r)
  BY <1>28 DEF UpCh
<1>29. CASE SetLink(r)
  BY <1>29 DEF SetLink
<1>30. CASE Fail(r)
  BY <1>30 DEF Fail, AfterError, AfterAdd, Unchecked
<1> QED
  BY <1>4, <1>5, <1>6, <1>7, <1>8, <1>9, <1>10, <1>11, <1>12, <1>13, <1>14, <1>15, <1>16,
     <1>17, <1>18, <1>19, <1>20, <1>21, <1>22, <1>23, <1>24, <1>25, <1>26, <1>27, <1>28,
     <1>29, <1>30
  DEF AccountNext, JoinNext, AdminNext, InviteNext, LinkNext

\* Every step leaves each request where its kind may be.
LEMMA ControlStep ==
  TypeOK /\ ControlInv /\ [Next]_vars => ControlType' /\ ControlInv'
<1> SUFFICES ASSUME TypeOK, ControlInv, [Next]_vars
             PROVE  ControlType' /\ ControlInv'
  OBVIOUS
<1>1. ControlType
  BY DEF TypeOK, ControlType
<1>2. ASSUME NEW r \in Req, NEW o \in Requests, Arrive(r, o)
      PROVE  ControlType' /\ ControlInv'
  BY <1>1, <1>2, ControlArrive
<1>3. ASSUME NEW r \in Req,
             AccountNext(r) \/ JoinNext(r) \/ AdminNext(r) \/ InviteNext(r)
               \/ LinkNext(r) \/ Fail(r)
      PROVE  ControlType' /\ ControlInv'
  BY <1>3, ControlRequest
<1>4. ASSUME NEW i \in Inv, Expire(i)
      PROVE  ControlType' /\ ControlInv'
  BY <1>1, <1>4 DEF Expire, ControlType, ControlInv, Legal
<1>5. CASE Crash
  BY <1>5 DEF Crash, ControlType, ControlInv, Legal, Point
<1>6. CASE UNCHANGED vars
  BY <1>1, <1>6 DEF vars, ControlType, ControlInv, Legal
<1> QED
  BY <1>2, <1>3, <1>4, <1>5, <1>6 DEF Next

-----------------------------------------------------------------------------
(* Who writes what *)

\* Only three statements write rows of org_members.
LEMMA MemberWriters ==
  [Next]_vars => \/ UNCHANGED memberVars
                 \/ \E r \in Req : AddOrg(r) \/ SetOrg(r) \/ Join(r)
BY DEF Next, AccountNext, JoinNext, AdminNext, InviteNext, LinkNext, vars, memberVars,
       Arrive, Account, Session, Resolve, Provision, Ensure, LinkedOrg, Count, AddWs,
       AddCh, First, Again, Auth, Target, Auth2, Has, Insert, Revoke, Lookup, Exists,
       Check, UpWs, UpCh, SetLink, Fail, Expire, Crash

\* Only three write rows of workspace_members or channel_members.
LEMMA PlaceWriters ==
  [Next]_vars => \/ UNCHANGED placeVars
                 \/ \E r \in Req : AddWs(r) \/ AddCh(r) \/ Join(r)
BY DEF Next, AccountNext, JoinNext, AdminNext, InviteNext, LinkNext, vars, placeVars,
       Arrive, Account, Session, Resolve, Provision, Ensure, LinkedOrg, Count, AddOrg,
       First, Again, Auth, Target, Auth2, Has, SetOrg, Insert, Revoke, Lookup, Exists,
       Check, UpWs, UpCh, SetLink, Fail, Expire, Crash

\* Accounts, the link and what it needs.
LEMMA AccountWriters ==
  [Next]_vars => \/ UNCHANGED <<accountVars, linkVars>>
                 \/ \E r \in Req : \/ Account(r) \/ Provision(r)
                                   \/ UpWs(r) \/ UpCh(r) \/ SetLink(r)
BY DEF Next, AccountNext, JoinNext, AdminNext, InviteNext, LinkNext, vars, accountVars,
       linkVars, Arrive, Session, Resolve, Ensure, LinkedOrg, Count, AddOrg, AddWs, AddCh,
       First, Again, Auth, Target, Auth2, Has, SetOrg, Insert, Revoke, Lookup, Exists,
       Join, Check, Fail, Expire, Crash

\* Tokens are issued, revoked, expired and used.
LEMMA InviteWriters ==
  [Next]_vars => \/ UNCHANGED inviteVars
                 \/ \E r \in Req : Insert(r) \/ Revoke(r) \/ Join(r)
                 \/ \E i \in Inv : Expire(i)
BY DEF Next, AccountNext, JoinNext, AdminNext, InviteNext, LinkNext, vars, inviteVars,
       Arrive, Account, Session, Resolve, Provision, Ensure, LinkedOrg, Count, AddOrg,
       AddWs, AddCh, First, Again, Auth, Target, Auth2, Has, SetOrg, Lookup, Exists,
       Check, UpWs, UpCh, SetLink, Fail, Crash

-----------------------------------------------------------------------------
(* Where a request comes from *)

OwnStep(r) ==
  \/ \E o \in Requests : Arrive(r, o)
  \/ AccountNext(r) \/ JoinNext(r) \/ AdminNext(r) \/ InviteNext(r) \/ LinkNext(r)
  \/ Fail(r)

Stays(r) == at'[r] = at[r] /\ op'[r] = op[r] /\ org'[r] = org[r]

\* The statement of a request moves no other request.
LEMMA OwnAlone ==
  ASSUME TypeOK, NEW q \in Req, NEW r \in Req, q # r, OwnStep(q)
  PROVE  Stays(r)
<1>1. ASSUME NEW p, NEW o, GotoIn(q, p, o)
      PROVE  Stays(r)
  BY <1>1 DEF TypeOK, GotoIn, Stays
<1>2. ASSUME NEW o \in Requests, Arrive(q, o)
      PROVE  Stays(r)
  BY <1>2 DEF TypeOK, Arrive, Stays
<1> QED
  BY <1>1, <1>2
  DEF OwnStep, AccountNext, JoinNext, AdminNext, InviteNext, LinkNext, Account, Session,
      Resolve, Provision, Ensure, LinkedOrg, Count, AddOrg, AddWs, AddCh, First, Again,
      Auth, Target, Auth2, Has, SetOrg, Insert, Revoke, Lookup, Exists, Join, Check,
      UpWs, UpCh, SetLink, Fail, Goto, Answer

\* The steps of others, and a crash, leave a request alone or end it.
LEMMA OthersStay ==
  ASSUME TypeOK, [Next]_vars, NEW r \in Req
  PROVE  OwnStep(r) \/ Stays(r) \/ at'[r] = "idle"
<1>1. ASSUME NEW q \in Req, q # r, OwnStep(q)
      PROVE  Stays(r)
  BY <1>1, OwnAlone
<1>2. (\E i \in Inv : Expire(i)) \/ UNCHANGED vars => Stays(r)
  BY DEF Expire, vars, Stays
<1>3. Crash => at'[r] = "idle"
  BY DEF Crash
<1> QED
  BY <1>1, <1>2, <1>3 DEF Next, OwnStep

\* A request keeps what it asked for until it ends.
LEMMA Keeps ==
  ASSUME TypeOK, NEW r \in Req, OwnStep(r), at'[r] # "idle"
  PROVE  \/ \E o \in Requests : Arrive(r, o)
         \/ at[r] # "idle" /\ op'[r] = op[r]
<1>1. ASSUME NEW p, NEW o, GotoIn(r, p, o)
      PROVE  op'[r] = op[r]
  BY <1>1 DEF TypeOK, GotoIn
<1> QED
  BY <1>1
  DEF OwnStep, AccountNext, JoinNext, AdminNext, InviteNext, LinkNext, Account, Session,
      Resolve, Provision, Ensure, LinkedOrg, Count, AddOrg, AddWs, AddCh, First, Again,
      Auth, Target, Auth2, Has, SetOrg, Insert, Revoke, Lookup, Exists, Join, Check,
      UpWs, UpCh, SetLink, Fail, Goto, Answer

\* The statements that lead to a statement.
LEMMA Origins ==
  ASSUME TypeOK, ControlInv, NEW r \in Req, OwnStep(r)
  PROVE  /\ at'[r] = "target" => Auth(r) \/ Again(r)
         /\ at'[r] = "auth2" => Target(r)
         /\ at'[r] \in {"insert", "revoke"} => Auth2(r)
         /\ at'[r] = "has" => Target(r) \/ Auth2(r)
         /\ at'[r] = "setOrg" => Has(r)
         /\ at'[r] = "addOrg" => \/ Ensure(r) \/ LinkedOrg(r) \/ Count(r)
                                 \/ Has(r) \/ SetLink(r)
         /\ at'[r] = "addWs" => AddOrg(r)
         /\ at'[r] = "addCh" => AddWs(r) \/ SetOrg(r)
         /\ at'[r] = "exists" => Lookup(r)
         /\ at'[r] = "join" => Exists(r)
<1>1. ASSUME NEW p, NEW o, GotoIn(r, p, o)
      PROVE  at'[r] = p
  BY <1>1 DEF TypeOK, GotoIn
<1>2. ASSUME NEW o \in Requests, Arrive(r, o)
      PROVE  at'[r] = Entry(o) /\ o \in Op
  BY <1>2, RequestsAssumption DEF TypeOK, Arrive
<1>3. \A o \in Op : Entry(o) \notin {"target", "auth2", "insert", "revoke", "has",
                       "setOrg", "addOrg", "addWs", "addCh", "exists", "join"}
  BY OpFields DEF Entry
<1> USE DEF Goto, Answer
<1>4. CASE AccountNext(r)
  BY <1>1, <1>4 DEF AccountNext, Account, Session, Resolve, Provision, Resolved
<1>5. CASE JoinNext(r)
  BY <1>1, <1>5 DEF JoinNext, Ensure, LinkedOrg, Count, AddOrg, AddWs, AddCh, AfterAdd,
                    AfterError
<1>6. CASE AdminNext(r)
  <2>1. CASE Auth2(r)
    <3>1. at[r] = "auth2" /\ op[r].kind \in AdminKind
      BY <2>1 DEF Auth2, ControlInv, Legal, Kinds, Accepting
    <3>2. Granted(r) \in {"has", "insert", "revoke"}
      BY <3>1 DEF Granted, AdminKind
    <3> QED
      BY <1>1, <2>1, <3>2 DEF Auth2
  <2>2. CASE First(r) \/ Again(r) \/ Auth(r) \/ Target(r) \/ Has(r)
    BY <1>1, <2>2 DEF First, Again, Auth, Target, Has
  <2>3. CASE SetOrg(r)
    BY <1>1, <2>3 DEF SetOrg, AfterError, Adding
  <2> QED
    BY <1>6, <2>1, <2>2, <2>3 DEF AdminNext
<1>7. CASE InviteNext(r)
  BY <1>1, <1>7 DEF InviteNext, Insert, Revoke, Lookup, Exists, Join, AfterError, AfterAdd
<1>8. CASE LinkNext(r)
  BY <1>1, <1>8 DEF LinkNext, Check, UpWs, UpCh, SetLink
<1>9. CASE Fail(r)
  BY <1>1, <1>9 DEF Fail, AfterError, AfterAdd
<1>10. CASE \E o \in Requests : Arrive(r, o)
  BY <1>2, <1>3, <1>10
<1> QED
  BY <1>4, <1>5, <1>6, <1>7, <1>8, <1>9, <1>10 DEF OwnStep

\* The statements that lead to those of a link.
LEMMA LinkOrigins ==
  ASSUME TypeOK, ControlInv, NEW r \in Req, OwnStep(r)
  PROVE  /\ at'[r] = "upCh" => UpWs(r)
         /\ at'[r] = "setLink" => UpCh(r)
<1>1. ASSUME NEW p, NEW o, GotoIn(r, p, o)
      PROVE  at'[r] = p
  BY <1>1 DEF TypeOK, GotoIn
<1>2. ASSUME NEW o \in Requests, Arrive(r, o)
      PROVE  at'[r] \notin {"upCh", "setLink"}
  <2>1. at'[r] = Entry(o) /\ o \in Op
    BY <1>2, RequestsAssumption DEF TypeOK, Arrive
  <2> QED
    BY <2>1, OpFields DEF Entry
<1>3. CASE Auth2(r)
  <2>1. op[r].kind \in AdminKind
    BY <1>3 DEF Auth2, ControlInv, Legal, Kinds, Accepting
  <2> QED
    BY <1>1, <1>3, <2>1 DEF Auth2, Granted, AdminKind, Goto, Answer
<1> QED
  BY <1>1, <1>2, <1>3
  DEF OwnStep, AccountNext, JoinNext, AdminNext, InviteNext, LinkNext, Account, Session,
      Resolve, Resolved, Provision, Ensure, LinkedOrg, Count, AddOrg, AddWs, AddCh, First,
      Again, Auth, Target, Has, SetOrg, Insert, Revoke, Lookup, Exists, Join, Check,
      UpWs, UpCh, SetLink, Fail, Goto, Answer, AfterError, AfterAdd

-----------------------------------------------------------------------------
(* Types *)

\* What the statements that write a member's row write.
LEMMA GrantFields ==
  ASSUME TypeOK, ControlInv, NEW r \in Req,
         at[r] \in {"addOrg", "addWs", "addCh", "has", "setOrg"}
  PROVE  /\ Subject(r) \in User /\ org[r] \in Org /\ Wanted(r) \in Role
         /\ Orderer(r) \in Origin
         /\ <<Subject(r), org[r]>> \in User \X Org
         /\ op[r] \in Op
<1>1. op[r] \in Op /\ Legal(r, at[r], org[r])
  BY DEF ControlInv
<1>2. /\ op[r].kind \in {"register", "login", "fallback", "bootstrap", "setRole", "sync"}
      /\ org[r] \in Org
  BY <1>1 DEF Legal, Kinds, Placed, Accepting
<1>3. /\ Subject(r) \in User
      /\ Wanted(r) \in Role
      /\ Orderer(r) \in Origin
  BY <1>1, <1>2, OpFields DEF Subject, Wanted, Orderer, Role, Origin
<1> QED
  BY <1>1, <1>2, <1>3

\* A request that accepts names an account and a token.
LEMMA JoinFields ==
  ASSUME TypeOK, ControlInv, NEW r \in Req, at[r] \in Accepting
  PROVE  op[r].user \in User /\ op[r].inv \in Inv /\ op[r] \in Op
<1>1. op[r] \in Op /\ Legal(r, at[r], org[r])
  BY DEF ControlInv, Accepting
<1> QED
  BY <1>1, OpFields DEF Legal, Kinds, Accepting

\* The token of a request that has looked it up, or that wants it revoked, has
\* been issued.
TokenInv ==
  \A r \in Req :
    at[r] \in {"exists", "join"} \/ (at[r] # "idle" /\ op[r].kind = "revoke")
      => invite[op[r].inv] # Unissued

\* Only what has been issued has a state other than "unissued".
LEMMA IssuedTerm ==
  ASSUME TypeOK, NEW i \in Inv, invite[i].state # "unissued" \/ invite[i] # Unissued
  PROVE  invite[i] \in Terms /\ invite[i] # Unissued
BY DEF TypeOK, Unissued

\* A token is issued once, its terms never change.
LEMMA IssuedStays ==
  ASSUME TypeOK, ControlInv, TokenInv, [Next]_vars, NEW i \in Inv, invite[i] # Unissued
  PROVE  /\ invite'[i] # Unissued
         /\ invite'[i].max = invite[i].max
<1>1. invite[i] \in Terms
  BY DEF TypeOK
<1>2. /\ [invite[i] EXCEPT !.state = "revoked"].state = "revoked"
      /\ [invite[i] EXCEPT !.state = "revoked"].max = invite[i].max
      /\ [invite[i] EXCEPT !.state = "expired"].state = "expired"
      /\ [invite[i] EXCEPT !.state = "expired"].max = invite[i].max
  BY <1>1 DEF Terms
<1>3. CASE \E r \in Req : Insert(r)
  BY <1>3 DEF Insert, TypeOK
<1>4. CASE \E r \in Req : Revoke(r)
  <2>1. invite'[i] = invite[i] \/ invite'[i] = [invite[i] EXCEPT !.state = "revoked"]
    BY <1>4 DEF Revoke, TypeOK
  <2>2. CASE invite'[i] = [invite[i] EXCEPT !.state = "revoked"]
    <3>1. invite'[i].state = "revoked" /\ invite'[i].max = invite[i].max
      BY <1>2, <2>2
    <3> QED
      BY <3>1 DEF Unissued
  <2> QED
    BY <2>1, <2>2
<1>5. CASE \E j \in Inv : Expire(j)
  BY <1>2, <1>5 DEF Expire, TypeOK, Unissued
<1> QED
  BY <1>3, <1>4, <1>5, InviteWriters DEF inviteVars, Join

\* An issued token has the terms it had, or those of the request that issues it.
LEMMA TermsFrom ==
  ASSUME TypeOK, ControlInv, TokenInv, [Next]_vars, NEW i \in Inv, invite'[i] # Unissued
  PROVE  \/ /\ invite[i] # Unissued
            /\ invite'[i].org = invite[i].org /\ invite'[i].by = invite[i].by
            /\ invite'[i].role = invite[i].role /\ invite'[i].max = invite[i].max
         \/ \E r \in Req : /\ Insert(r) /\ invite[i] = Unissued
                           /\ invite'[i].org = org[r] /\ invite'[i].by = op[r].user
<1>1. ASSUME NEW s \in {"revoked", "expired"}, invite[i] \in Terms
      PROVE  LET t == [invite[i] EXCEPT !.state = s]
             IN  /\ t.org = invite[i].org /\ t.by = invite[i].by
                 /\ t.role = invite[i].role /\ t.max = invite[i].max
  BY <1>1 DEF Terms
<1>2. ASSUME NEW r \in Req, Insert(r), invite'[i] # invite[i]
      PROVE  invite[i] = Unissued /\ invite'[i].org = org[r] /\ invite'[i].by = op[r].user
  BY <1>2 DEF Insert, TypeOK
<1>3. ASSUME \/ \E r \in Req : Revoke(r)
             \/ \E j \in Inv : Expire(j),
             invite'[i] # invite[i]
      PROVE  /\ invite[i] \in Terms /\ invite[i] # Unissued
             /\ \E s \in {"revoked", "expired"} : invite'[i] = [invite[i] EXCEPT !.state = s]
  <2>1. CASE \E r \in Req : Revoke(r)
    <3>1. PICK r \in Req : Revoke(r)
      BY <2>1
    <3>2. op[r].inv = i /\ invite'[i] = [invite[i] EXCEPT !.state = "revoked"]
      BY <1>3, <3>1 DEF Revoke, TypeOK
    <3>3. invite[i] # Unissued
      BY <3>1, <3>2 DEF Revoke, TokenInv, ControlInv, Legal, Kinds, Accepting
    <3> QED
      BY <3>2, <3>3, IssuedTerm
  <2>2. CASE \E j \in Inv : Expire(j)
    <3>1. invite[i].state = "open" /\ invite'[i] = [invite[i] EXCEPT !.state = "expired"]
      BY <1>3, <2>2 DEF Expire, TypeOK
    <3> QED
      BY <3>1, IssuedTerm
  <2> QED
    BY <1>3, <2>1, <2>2
<1>4. \/ UNCHANGED invite
      \/ \E r \in Req : Insert(r) \/ Revoke(r)
      \/ \E j \in Inv : Expire(j)
  BY InviteWriters DEF inviteVars, Join
<1>5. CASE invite'[i] = invite[i]
  BY <1>5
<1>6. CASE invite'[i] # invite[i] /\ \E r \in Req : Insert(r)
  BY <1>2, <1>6
<1>7. CASE /\ invite'[i] # invite[i]
           /\ \/ \E r \in Req : Revoke(r)
              \/ \E j \in Inv : Expire(j)
  BY <1>1, <1>3, <1>7
<1> QED
  BY <1>4, <1>5, <1>6, <1>7

\* A token in use stays issued.
LEMMA TokenStep == TypeOK /\ ControlInv /\ TokenInv /\ [Next]_vars => TokenInv'
<1> SUFFICES ASSUME TypeOK, ControlInv, TokenInv, [Next]_vars,
                    NEW r \in Req,
                    \/ at'[r] \in {"exists", "join"}
                    \/ at'[r] # "idle" /\ op'[r].kind = "revoke"
             PROVE  invite'[op'[r].inv] # Unissued
  BY DEF TokenInv
<1>1. ASSUME NEW i \in Inv, invite[i] # Unissued
      PROVE  invite'[i] # Unissued
  BY <1>1, IssuedStays
<1>2. /\ at[r] \in Accepting => op[r].inv \in Inv
      /\ at[r] # "idle" /\ op[r].kind = "revoke" => op[r].inv \in Inv
  BY JoinFields, OpFields DEF ControlInv
<1>3. CASE Stays(r)
  BY <1>1, <1>2, <1>3 DEF Stays, TokenInv, Accepting
<1>4. ASSUME NEW o \in Requests, Arrive(r, o)
      PROVE  invite'[op'[r].inv] # Unissued
  <2>1. op'[r] = o /\ at'[r] = Entry(o) /\ o \in Op
    BY <1>4, RequestsAssumption DEF Arrive, TypeOK
  <2>2. o.kind = "revoke"
    BY <2>1, OpFields DEF Entry
  <2> QED
    BY <1>4, <2>1, <2>2 DEF Arrive, inviteVars
<1>5. CASE OwnStep(r) /\ ~\E o \in Requests : Arrive(r, o)
  <2>0. at[r] # "idle" /\ op'[r] = op[r]
    BY <1>5, Keeps
  <2>1. CASE Lookup(r)
    <3>1. op[r].inv \in Inv
      BY <1>2, <2>1 DEF Lookup, Accepting
    <3>2. CASE Usable(op[r].inv)
      BY <1>1, <2>0, <3>1, <3>2, IssuedTerm DEF Usable
    <3>3. CASE ~Usable(op[r].inv)
      BY <1>1, <1>2, <2>0, <2>1, <3>3
      DEF Lookup, Goto, GotoIn, TypeOK, AfterError, Adding, TokenInv
    <3> QED
      BY <3>2, <3>3
  <2>2. CASE Exists(r)
    BY <1>1, <1>2, <2>0, <2>2 DEF Exists, TokenInv, Accepting
  <2>3. CASE op[r].kind = "revoke"
    BY <1>1, <1>2, <2>0, <2>3 DEF TokenInv
  <2> QED
    BY <1>5, <2>0, <2>1, <2>2, <2>3, Origins
<1> QED
  BY <1>3, <1>4, <1>5, OthersStay

\* A granted row is well typed.
LEMMA GrantType ==
  ASSUME TypeOK, NEW u \in User, NEW o \in Org, NEW ro \in Role, NEW w \in Origin,
         NEW i \in Inv \cup {NoInv}, Grant(u, o, ro, w, i)
  PROVE  /\ role' \in [User \X Org -> Role \cup {"none"}]
         /\ via' \in [User \X Org -> Inv \cup {NoInv}]
         /\ by' \in [User \X Org -> Origin]
         /\ everAdmin' \subseteq User \X Org
BY DEF Grant, TypeOK

\* The terms a joining request finds, and what it grants by them.
LEMMA JoinTerms ==
  ASSUME TypeOK, ControlInv, TokenInv, NEW r \in Req, at[r] = "join"
  PROVE  /\ op[r].inv \in Inv /\ op[r].user \in User /\ org[r] \in Org
         /\ invite[op[r].inv] \in Terms
         /\ invite[op[r].inv].role \in {"admin", "member"}
         /\ invite[op[r].inv].by \in User
<1>1. op[r].inv \in Inv /\ op[r].user \in User
  BY JoinFields DEF Accepting
<1>2. org[r] \in Org
  BY DEF ControlInv, Legal, Placed
<1>3. invite[op[r].inv] # Unissued
  BY DEF TokenInv
<1> QED
  BY <1>1, <1>2, <1>3, TermFields DEF TypeOK

\* Every step keeps the types.
LEMMA TypeStep == TypeOK /\ ControlInv /\ TokenInv /\ [Next]_vars => TypeOK'
<1> SUFFICES ASSUME TypeOK, ControlInv, TokenInv, [Next]_vars
             PROVE  TypeOK'
  OBVIOUS
<1>1. ControlType'
  BY ControlStep
<1>2. /\ role' \in [User \X Org -> Role \cup {"none"}]
      /\ via' \in [User \X Org -> Inv \cup {NoInv}]
      /\ by' \in [User \X Org -> Origin]
      /\ everAdmin' \subseteq User \X Org
  <2>1. CASE \E r \in Req : AddOrg(r)
    BY <2>1, GrantFields, GrantType DEF AddOrg, TypeOK, memberVars
  <2>2. CASE \E r \in Req : SetOrg(r)
    <3>1. PICK r \in Req : SetOrg(r)
      BY <2>2
    <3>2. via[<<Subject(r), org[r]>>] \in Inv \cup {NoInv}
      BY <3>1, GrantFields DEF SetOrg, TypeOK
    <3> QED
      BY <3>1, <3>2, GrantFields, GrantType DEF SetOrg
  <2>3. CASE \E r \in Req : Join(r)
    <3>1. PICK r \in Req : Join(r)
      BY <2>3
    <3>2. CASE UNCHANGED memberVars
      BY <3>2 DEF TypeOK, memberVars
    <3>3. CASE Grant(op[r].user, org[r], invite[op[r].inv].role,
                     invite[op[r].inv].by, op[r].inv)
      <4>1. at[r] = "join"
        BY <3>1 DEF Join
      <4>2. invite[op[r].inv].role \in Role /\ invite[op[r].inv].by \in Origin
        BY <4>1, JoinTerms DEF Role, Origin
      <4> QED
        BY <3>3, <4>1, <4>2, JoinTerms, GrantType
    <3> QED
      BY <3>1, <3>2, <3>3 DEF Join
  <2> QED
    BY <2>1, <2>2, <2>3, MemberWriters DEF TypeOK, memberVars
<1>3. wsMember' \subseteq User \X Org /\ chMember' \subseteq User \X Org
  <2>1. CASE \E r \in Req : AddWs(r) \/ AddCh(r)
    BY <2>1, GrantFields DEF AddWs, AddCh, TypeOK
  <2>2. CASE \E r \in Req : Join(r)
    BY <2>2, JoinTerms DEF Join, TypeOK, placeVars
  <2> QED
    BY <2>1, <2>2, PlaceWriters DEF TypeOK, placeVars
<1>4. /\ users' \subseteq User /\ sentinel' \subseteq User /\ linked' \in Org \cup {NoOrg}
      /\ wsOf' \subseteq Org /\ chOf' \subseteq Org
  <2>1. ASSUME NEW r \in Req, Account(r) \/ Provision(r)
        PROVE  op[r].user \in User
    BY <2>1, OpFields DEF Account, Provision, ControlInv, Legal, Kinds, Accepting
  <2>2. ASSUME NEW r \in Req, UpWs(r) \/ UpCh(r) \/ SetLink(r)
        PROVE  op[r].org \in Org
    BY <2>2, OpFields DEF UpWs, UpCh, SetLink, ControlInv, Legal, Kinds, Accepting
  <2> QED
    BY <2>1, <2>2, AccountWriters
    DEF TypeOK, accountVars, linkVars, Account, Provision, UpWs, UpCh, SetLink
<1>5. invite' \in [Inv -> Terms \cup {Unissued}]
  <2>1. CASE \E r \in Req : Insert(r)
    <3>1. PICK r \in Req : Insert(r)
      BY <2>1
    <3>2. /\ op[r].user \in User /\ op[r].role \in Role /\ op[r].max \in Nat
          /\ org[r] \in Org
      BY <3>1, OpFields DEF Insert, ControlInv, Legal, Kinds, Accepting, Placed
    <3>3. op[r].role # "owner" =>
            [state |-> "open", org |-> org[r], role |-> op[r].role,
             max |-> op[r].max, by |-> op[r].user] \in Terms
      BY <3>2 DEF Terms, Role
    <3> QED
      BY <3>1, <3>3 DEF Insert, TypeOK
  <2>2. ASSUME NEW i \in Inv, invite[i] # Unissued
        PROVE  /\ [invite[i] EXCEPT !.state = "revoked"] \in Terms
               /\ [invite[i] EXCEPT !.state = "expired"] \in Terms
    BY <2>2 DEF TypeOK, Terms
  <2>3. CASE \E r \in Req : Revoke(r)
    <3>1. PICK r \in Req : Revoke(r)
      BY <2>3
    <3> QED
      <4>1. op[r].inv \in Inv /\ invite[op[r].inv] # Unissued
        BY <3>1, OpFields DEF Revoke, ControlInv, TokenInv, Legal, Kinds, Accepting
      <4> QED
        BY <3>1, <4>1, <2>2 DEF Revoke, TypeOK
  <2>4. ASSUME NEW i \in Inv, Expire(i)
        PROVE  invite' \in [Inv -> Terms \cup {Unissued}]
    BY <2>2, <2>4, IssuedTerm DEF Expire, TypeOK
  <2> QED
    BY <2>1, <2>3, <2>4, InviteWriters DEF inviteVars, Join, TypeOK
<1>6. used' \in [Inv -> Nat]
  <2>1. CASE \E r \in Req : Join(r)
    BY <2>1 DEF Join, TypeOK
  <2> QED
    BY <2>1, InviteWriters DEF inviteVars, Insert, Revoke, Expire, TypeOK
<1> QED
  BY <1>1, <1>2, <1>3, <1>4, <1>5, <1>6 DEF TypeOK, ControlType

-----------------------------------------------------------------------------
(* Rows *)

\* A row of org_members is never deleted, and whoever was made an administrator
\* stays on record.
LEMMA RowsStay ==
  ASSUME TypeOK, ControlInv, TokenInv, [Next]_vars
  PROVE  /\ \A m \in User \X Org : role[m] # "none" => role'[m] # "none"
         /\ everAdmin \subseteq everAdmin'
<1>1. ASSUME NEW u \in User, NEW o \in Org, NEW ro \in Role, NEW w, NEW i,
             Grant(u, o, ro, w, i)
      PROVE  /\ \A m \in User \X Org : role[m] # "none" => role'[m] # "none"
             /\ everAdmin \subseteq everAdmin'
  BY <1>1 DEF Grant, TypeOK, Role
<1>2. ASSUME NEW r \in Req, AddOrg(r) \/ SetOrg(r), ~UNCHANGED memberVars
      PROVE  \E w, i : Grant(Subject(r), org[r], Wanted(r), w, i)
  BY <1>2 DEF AddOrg, SetOrg
<1>3. ASSUME NEW r \in Req, AddOrg(r) \/ SetOrg(r), ~UNCHANGED memberVars
      PROVE  /\ \A m \in User \X Org : role[m] # "none" => role'[m] # "none"
             /\ everAdmin \subseteq everAdmin'
  BY <1>1, <1>2, <1>3, GrantFields DEF AddOrg, SetOrg
<1>4. ASSUME NEW r \in Req, Join(r), ~UNCHANGED memberVars
      PROVE  /\ \A m \in User \X Org : role[m] # "none" => role'[m] # "none"
             /\ everAdmin \subseteq everAdmin'
  <2>1. at[r] = "join" /\ \E w, i : Grant(op[r].user, org[r], invite[op[r].inv].role, w, i)
    BY <1>4 DEF Join
  <2>2. invite[op[r].inv].role \in Role /\ op[r].user \in User /\ org[r] \in Org
    BY <2>1, JoinTerms DEF Role
  <2> QED
    BY <1>1, <2>1, <2>2
<1>5. CASE UNCHANGED memberVars
  BY <1>5 DEF memberVars
<1> QED
  BY <1>3, <1>4, <1>5, MemberWriters

\* The workspace and channel rows of a request are written for a member.
PlaceInv ==
  /\ NoStrayAccess
  /\ \A r \in Req : at[r] \in {"setOrg", "addWs", "addCh"} =>
       role[<<Subject(r), org[r]>>] # "none"

\* The rows of the workspace and the channel never come before that of the organisation.
LEMMA PlaceStep ==
  TypeOK /\ ControlInv /\ TokenInv /\ PlaceInv /\ [Next]_vars => PlaceInv'
<1> SUFFICES ASSUME TypeOK, ControlInv, TokenInv, PlaceInv, [Next]_vars
             PROVE  PlaceInv'
  OBVIOUS
<1>1. \A m \in User \X Org : role[m] # "none" => role'[m] # "none"
  BY RowsStay
<1>2. NoStrayAccess'
  <2>1. CASE UNCHANGED placeVars
    BY <1>1, <2>1 DEF placeVars, NoStrayAccess, PlaceInv, TypeOK
  <2>2. ASSUME NEW r \in Req, AddWs(r) \/ AddCh(r)
        PROVE  NoStrayAccess'
    <3>1. role[<<Subject(r), org[r]>>] # "none"
      BY <2>2 DEF PlaceInv, AddWs, AddCh
    <3>2. <<Subject(r), org[r]>> \in User \X Org
      BY <2>2, GrantFields DEF AddWs, AddCh
    <3>3. wsMember' \cup chMember' \subseteq
            wsMember \cup chMember \cup {<<Subject(r), org[r]>>}
      BY <2>2 DEF AddWs, AddCh
    <3> QED
      BY <1>1, <3>1, <3>2, <3>3 DEF NoStrayAccess, PlaceInv, TypeOK
  <2>3. ASSUME NEW r \in Req, Join(r), ~UNCHANGED placeVars
        PROVE  NoStrayAccess'
    <3>1. /\ op[r].user \in User /\ org[r] \in Org
          /\ invite[op[r].inv].role \in {"admin", "member"}
      BY <2>3, JoinTerms DEF Join
    <3>2. /\ role' = [role EXCEPT ![<<op[r].user, org[r]>>] = invite[op[r].inv].role]
          /\ wsMember' \cup chMember' \subseteq
               wsMember \cup chMember \cup {<<op[r].user, org[r]>>}
      BY <2>3 DEF Join, Grant, placeVars
    <3>3. role'[<<op[r].user, org[r]>>] # "none"
      BY <3>1, <3>2 DEF TypeOK
    <3> QED
      BY <1>1, <3>2, <3>3 DEF NoStrayAccess, PlaceInv, TypeOK
  <2> QED
    BY <2>1, <2>2, <2>3, PlaceWriters
<1>3. ASSUME NEW r \in Req, at'[r] \in {"setOrg", "addWs", "addCh"}
      PROVE  role'[<<Subject(r)', org'[r]>>] # "none"
  <2>1. CASE Stays(r)
    <3>1. Subject(r)' = Subject(r)
      BY <2>1 DEF Stays, Subject
    <3> QED
      BY <1>1, <1>3, <2>1, <3>1, GrantFields DEF Stays, PlaceInv
  <2>2. CASE OwnStep(r)
    <3>1. \/ Has(r) /\ MemberOf(Subject(r), org[r])
          \/ AddOrg(r) \/ AddWs(r) \/ SetOrg(r)
      BY <1>3, <2>2, Origins DEF Has, Goto, GotoIn, TypeOK
    <3>2. /\ <<Subject(r), org[r]>> \in User \X Org
          /\ Wanted(r) \in Role
          /\ op[r] \in Op
      BY <3>1, GrantFields DEF Has, AddOrg, AddWs, SetOrg
    <3>3. op'[r] = op[r] /\ org'[r] = org[r]
      BY <1>3, <3>1 DEF Has, AddOrg, AddWs, SetOrg, Goto, GotoIn, TypeOK
    <3>4. Subject(r)' = Subject(r)
      BY <3>3 DEF Subject
    <3>5. role'[<<Subject(r), org[r]>>] # "none"
      <4>1. CASE Has(r) /\ MemberOf(Subject(r), org[r])
        BY <1>1, <3>2, <4>1 DEF MemberOf
      <4>2. CASE AddWs(r) \/ SetOrg(r)
        BY <1>1, <3>2, <4>2 DEF AddWs, SetOrg, PlaceInv
      <4>3. CASE AddOrg(r)
        BY <1>1, <3>2, <4>3 DEF AddOrg, MemberOf, Grant, TypeOK, Role
      <4> QED
        BY <3>1, <4>1, <4>2, <4>3
    <3> QED
      BY <3>3, <3>4, <3>5
  <2> QED
    BY <1>3, <2>1, <2>2, OthersStay
<1> QED
  BY <1>2, <1>3 DEF PlaceInv

-----------------------------------------------------------------------------
(* Uses *)

\* The rows an invitation has inserted.
Rows(i) == {m \in User \X Org : via[m] = i}

\* Every use is a row, and only a row can stand for a use.
UseInv ==
  /\ \A i \in Inv : IsFiniteSet(Rows(i)) /\ used[i] = Cardinality(Rows(i))
  /\ \A m \in User \X Org : role[m] = "none" => via[m] = NoInv

\* A use and the row it stands for are one transaction.
LEMMA UseStep ==
  TypeOK /\ ControlInv /\ TokenInv /\ UseInv /\ [Next]_vars => UseInv'
<1> SUFFICES ASSUME TypeOK, ControlInv, TokenInv, UseInv, [Next]_vars
             PROVE  UseInv'
  OBVIOUS
<1>0. NoInv \notin Inv
  BY NamesAssumption
<1>1. ASSUME UNCHANGED used, \A m \in User \X Org : via'[m] = via[m],
             \A m \in User \X Org : role[m] # "none" => role'[m] # "none"
      PROVE  UseInv'
  <2>1. \A i \in Inv : Rows(i)' = Rows(i)
    BY <1>1 DEF Rows
  <2> QED
    BY <1>1, <2>1 DEF UseInv
<1>2. \A m \in User \X Org : role[m] # "none" => role'[m] # "none"
  BY RowsStay
<1>3. CASE \E r \in Req : AddOrg(r)
  <2>1. PICK r \in Req : AddOrg(r)
    BY <1>3
  <2>2. <<Subject(r), org[r]>> \in User \X Org
    BY <2>1, GrantFields DEF AddOrg
  <2>3. \A m \in User \X Org : via'[m] = via[m]
    BY <2>1, <2>2 DEF AddOrg, Grant, MemberOf, memberVars, UseInv, TypeOK
  <2> QED
    BY <1>1, <1>2, <2>1, <2>3 DEF AddOrg, inviteVars
<1>4. CASE \E r \in Req : SetOrg(r)
  <2>1. PICK r \in Req : SetOrg(r)
    BY <1>4
  <2>2. <<Subject(r), org[r]>> \in User \X Org
    BY <2>1, GrantFields DEF SetOrg
  <2>3. \A m \in User \X Org : via'[m] = via[m]
    BY <2>1, <2>2 DEF SetOrg, Grant, TypeOK
  <2> QED
    BY <1>1, <1>2, <2>1, <2>3 DEF SetOrg, inviteVars
<1>5. ASSUME NEW r \in Req, Join(r), ~UNCHANGED <<memberVars, used>>
      PROVE  UseInv'
  <2>1. PICK i \in Inv, m \in User \X Org :
          /\ i = op[r].inv /\ m = <<op[r].user, org[r]>>
          /\ invite[i].role \in {"admin", "member"}
    <3>1. /\ op[r].inv \in Inv /\ <<op[r].user, org[r]>> \in User \X Org
          /\ invite[op[r].inv].role \in {"admin", "member"}
      BY <1>5, JoinTerms DEF Join
    <3> QED
      BY <3>1
  <2>2. /\ role[m] = "none"
        /\ role' = [role EXCEPT ![m] = invite[i].role]
        /\ via' = [via EXCEPT ![m] = i]
        /\ used' = [used EXCEPT ![i] = @ + 1]
    BY <1>5, <2>1 DEF Join, Grant, MemberOf
  <2>3. via[m] = NoInv
    BY <2>2 DEF UseInv
  <2>4. \A n \in User \X Org : via'[n] = IF n = m THEN i ELSE via[n]
    BY <2>2 DEF TypeOK
  <2>5. Rows(i)' = Rows(i) \cup {m} /\ m \notin Rows(i)
    BY <1>0, <2>3, <2>4 DEF Rows
  <2>6. \A j \in Inv \ {i} : Rows(j)' = Rows(j)
    BY <1>0, <2>3, <2>4 DEF Rows
  <2>7. /\ IsFiniteSet(Rows(i)) /\ used[i] = Cardinality(Rows(i)) /\ used[i] \in Nat
    BY DEF UseInv, TypeOK
  <2>8. IsFiniteSet(Rows(i)') /\ Cardinality(Rows(i)') = Cardinality(Rows(i)) + 1
    BY <2>5, <2>7, FS_AddElement
  <2>9. used'[i] = used[i] + 1 /\ \A j \in Inv \ {i} : used'[j] = used[j]
    BY <2>2 DEF TypeOK
  <2>10. \A j \in Inv : IsFiniteSet(Rows(j)') /\ used'[j] = Cardinality(Rows(j)')
    <3>1. ASSUME NEW j \in Inv
          PROVE  IsFiniteSet(Rows(j)') /\ used'[j] = Cardinality(Rows(j)')
      <4>1. CASE j = i
        BY <2>7, <2>8, <2>9, <4>1
      <4>2. CASE j # i
        BY <2>6, <2>9, <4>2 DEF UseInv
      <4> QED
        BY <4>1, <4>2
    <3> QED
      BY <3>1
  <2>11. \A n \in User \X Org : role'[n] = "none" => via'[n] = NoInv
    BY <1>2, <2>1, <2>2, <2>4 DEF UseInv, TypeOK
  <2> QED
    BY <2>10, <2>11 DEF UseInv
<1>6. CASE UNCHANGED <<memberVars, used>>
  BY <1>1, <1>6 DEF memberVars
<1>7. UNCHANGED used \/ \E r \in Req : Join(r)
  BY InviteWriters DEF inviteVars, Insert, Revoke, Expire
<1> QED
  BY <1>3, <1>4, <1>5, <1>6, <1>7, MemberWriters

\* Requests between the comparison with max_uses and the counting of the use.
Accepts(i) == {r \in Req : at[r] \in {"exists", "join"} /\ op[r].inv = i}

\* Each of them may still overrun the bound by one.
BoundInv ==
  \A i \in Inv :
    /\ invite[i] = Unissued => used[i] = 0
    /\ invite[i] # Unissued /\ invite[i].max > 0
         => used[i] + Cardinality(Accepts(i)) <= invite[i].max + Cardinality(Req) - 1

\* A request comes between the two only by a look-up that finds the token usable.
LEMMA AcceptsShrink ==
  ASSUME TypeOK, ControlInv, [Next]_vars, NEW i \in Inv,
         ~\E r \in Req : Lookup(r) /\ op[r].inv = i /\ Usable(i)
  PROVE  Accepts(i)' \subseteq Accepts(i)
<1> SUFFICES ASSUME NEW r \in Req, at'[r] \in {"exists", "join"}, op'[r].inv = i
             PROVE  at[r] \in {"exists", "join"} /\ op[r].inv = i
  BY DEF Accepts
<1>1. CASE Stays(r)
  BY <1>1 DEF Stays
<1>2. CASE OwnStep(r)
  <2>1. Lookup(r) \/ Exists(r)
    BY <1>2, Origins
  <2>2. at[r] # "idle" /\ op'[r] = op[r]
    BY <2>1 DEF Lookup, Exists, Goto, Answer, GotoIn, TypeOK
  <2>3. CASE Exists(r)
    BY <2>2, <2>3 DEF Exists
  <2>4. CASE Lookup(r)
    <3>1. ~Usable(op[r].inv)
      BY <2>2, <2>4
    <3>2. at'[r] = AfterError(r)
      BY <2>4, <3>1 DEF Lookup, Goto, GotoIn, TypeOK
    <3> QED
      BY <2>4, <3>2 DEF Lookup, AfterError, Adding
  <2> QED
    BY <2>1, <2>3, <2>4
<1> QED
  BY <1>1, <1>2, OthersStay

\* A use is counted for a request that is between the two, and which then ends.
LEMMA UsedChanges ==
  ASSUME TypeOK, ControlInv, TokenInv, [Next]_vars, NEW i \in Inv, used'[i] # used[i]
  PROVE  \E r \in Accepts(i) : /\ used'[i] = used[i] + 1
                               /\ r \notin Accepts(i)'
                               /\ Accepts(i)' \subseteq Accepts(i)
                               /\ invite[i] # Unissued /\ UNCHANGED invite
<1>1. PICK r \in Req : Join(r)
  BY InviteWriters DEF inviteVars, Insert, Revoke, Expire
<1>2. /\ op[r].inv = i /\ used'[i] = used[i] + 1 /\ at[r] = "join" /\ at'[r] = "idle"
      /\ UNCHANGED invite
  BY <1>1 DEF Join, Answer, Goto, GotoIn, TypeOK
<1>3. ~\E q \in Req : Lookup(q)
  BY <1>1, <1>2 DEF Lookup, Goto, GotoIn, inviteVars
<1> QED
  BY <1>2, <1>3, AcceptsShrink DEF Accepts, TokenInv

\* A request overruns max_uses once at most.
LEMMA BoundStep ==
  TypeOK /\ ControlInv /\ TokenInv /\ BoundInv /\ [Next]_vars => BoundInv'
<1> SUFFICES ASSUME TypeOK, ControlInv, TokenInv, BoundInv, [Next]_vars, NEW i \in Inv
             PROVE  /\ invite'[i] = Unissued => used'[i] = 0
                    /\ invite'[i] # Unissued /\ invite'[i].max > 0
                         => used'[i] + Cardinality(Accepts(i)')
                              <= invite'[i].max + Cardinality(Req) - 1
  BY DEF BoundInv
<1>1. /\ IsFiniteSet(Req) /\ Cardinality(Req) \in Nat
      /\ IsFiniteSet(Accepts(i)) /\ Cardinality(Accepts(i)) \in Nat
      /\ IsFiniteSet(Accepts(i)') /\ Cardinality(Accepts(i)') \in Nat
      /\ Cardinality(Accepts(i)') <= Cardinality(Req)
  <2>1. Accepts(i) \subseteq Req /\ Accepts(i)' \subseteq Req
    BY DEF Accepts
  <2> QED
    BY <2>1, RequestsAssumption, FS_Subset, FS_CardinalityType
<1>2. used[i] \in Nat /\ (invite[i] # Unissued => invite[i].max \in Nat)
  BY TermFields DEF TypeOK
<1>3. TypeOK'
  BY TypeStep
<1>4. used'[i] \in Nat /\ (invite'[i] # Unissued => invite'[i].max \in Nat)
  BY <1>3, TermFields DEF TypeOK
<1>5. CASE used'[i] # used[i]
  <2>1. PICK r \in Accepts(i) : /\ used'[i] = used[i] + 1
                                /\ r \notin Accepts(i)'
                                /\ Accepts(i)' \subseteq Accepts(i)
                                /\ invite[i] # Unissued /\ UNCHANGED invite
    BY <1>5, UsedChanges
  <2>2. Cardinality(Accepts(i) \ {r}) = Cardinality(Accepts(i)) - 1
    BY <1>1, FS_RemoveElement
  <2>3. Cardinality(Accepts(i)') <= Cardinality(Accepts(i) \ {r})
    <3>1. Accepts(i)' \subseteq Accepts(i) \ {r}
      BY <2>1
    <3>2. IsFiniteSet(Accepts(i) \ {r})
      BY <1>1, FS_RemoveElement
    <3> QED
      BY <3>1, <3>2, FS_Subset
  <2> QED
    BY <1>1, <1>2, <2>1, <2>2, <2>3 DEF BoundInv
<1>6. CASE used'[i] = used[i] /\ \E r \in Req : Lookup(r) /\ op[r].inv = i /\ Usable(i)
  <2>1. invite'[i] = invite[i] /\ invite[i] # Unissued
    BY <1>6, IssuedTerm DEF Lookup, inviteVars, Usable
  <2>2. invite[i].max > 0 => used[i] < invite[i].max
    BY <1>2, <1>6, <2>1 DEF Usable
  <2> QED
    BY <1>1, <1>2, <1>6, <2>1, <2>2
<1>7. CASE /\ used'[i] = used[i]
           /\ ~\E r \in Req : Lookup(r) /\ op[r].inv = i /\ Usable(i)
  <2>1. Accepts(i)' \subseteq Accepts(i)
    BY <1>7, AcceptsShrink
  <2>2. Cardinality(Accepts(i)') <= Cardinality(Accepts(i))
    BY <1>1, <2>1, FS_Subset
  <2>3. CASE invite[i] = Unissued
    <3>1. Accepts(i)' = {}
      BY <2>1, <2>3 DEF Accepts, TokenInv
    <3>2. Cardinality(Accepts(i)') = 0
      BY <3>1, FS_EmptySet
    <3>3. used[i] = 0
      BY <2>3 DEF BoundInv
    <3> QED
      BY <1>1, <1>4, <1>7, <3>2, <3>3
  <2>4. CASE invite[i] # Unissued
    <3>1. invite'[i] # Unissued /\ invite'[i].max = invite[i].max
      BY <2>4, IssuedStays
    <3> QED
      BY <1>1, <1>2, <1>7, <2>2, <2>4, <3>1 DEF BoundInv
  <2> QED
    BY <2>3, <2>4
<1> QED
  BY <1>5, <1>6, <1>7

-----------------------------------------------------------------------------
(* Authority *)

\* Somebody else has made u an administrator, of some organisation.
Vouched(u) == \E o \in Org : <<u, o>> \in everAdmin

\* Statements behind the first admission check.
Behind == {"target", "auth2", "insert", "revoke", "has", "setOrg", "addOrg"}

\* Every administrator, every issuer of a token and every caller behind the
\* first check of the admin API is vouched for.
AuthorityInv ==
  /\ GrantsAreAuthorised
  /\ \A m \in User \X Org : role[m] \in AdminRole => Vouched(m[1])
  /\ \A i \in Inv : invite[i] # Unissued => Vouched(invite[i].by)
  /\ \A r \in Req : at[r] \in Behind /\ op[r].kind \in AdminKind => Vouched(op[r].user)

\* A row granted by someone vouched for, by the first bootstrap or by Identity
\* keeps the rows in order.
LEMMA AuthorityGrant ==
  ASSUME TypeOK, AuthorityInv, NEW u \in User, NEW o \in Org, NEW ro \in Role,
         NEW w \in Origin, NEW i, Grant(u, o, ro, w, i),
         ro \in AdminRole => w \in {"first", "identity"} \/ Vouched(w)
  PROVE  /\ GrantsAreAuthorised'
         /\ \A m \in User \X Org :
              role'[m] \in AdminRole => \E p \in Org : <<m[1], p>> \in everAdmin'
<1>1. everAdmin \subseteq everAdmin'
  BY DEF Grant
<1>2. ASSUME NEW v, \E p \in Org : <<v, p>> \in everAdmin
      PROVE  \E p \in Org : <<v, p>> \in everAdmin'
  BY <1>1, <1>2
<1>3. ASSUME ro \in AdminRole, w # u
      PROVE  \E p \in Org : <<u, p>> \in everAdmin'
  BY <1>3 DEF Grant
<1>4. ASSUME ro \in AdminRole
      PROVE  /\ \E p \in Org : <<u, p>> \in everAdmin'
             /\ w \in {"first", "identity"} \/ \E p \in Org : <<w, p>> \in everAdmin'
  <2>1. CASE w \in {"first", "identity"}
    BY <1>3, <1>4, <2>1, OriginAssumption
  <2>2. CASE \E p \in Org : <<w, p>> \in everAdmin
    BY <1>2, <1>3, <1>4, <2>2
  <2> QED
    BY <1>4, <2>1, <2>2 DEF Vouched
<1>5. ASSUME NEW m \in User \X Org, role'[m] \in AdminRole
      PROVE  /\ \E p \in Org : <<m[1], p>> \in everAdmin'
             /\ \/ by'[m] \in {"first", "identity"}
                \/ \E p \in Org : <<by'[m], p>> \in everAdmin'
  <2>1. CASE m = <<u, o>>
    <3>1. role'[m] = ro /\ by'[m] = w /\ m[1] = u
      BY <2>1 DEF Grant, TypeOK
    <3> QED
      BY <1>4, <1>5, <3>1
  <2>2. CASE m # <<u, o>>
    <3>1. role'[m] = role[m] /\ by'[m] = by[m]
      BY <2>2 DEF Grant, TypeOK
    <3>2. \E p \in Org : <<m[1], p>> \in everAdmin
      BY <1>5, <3>1 DEF AuthorityInv, Vouched
    <3>3. by[m] \in {"first", "identity"} \/ \E p \in Org : <<by[m], p>> \in everAdmin
      BY <1>5, <3>1 DEF AuthorityInv, GrantsAreAuthorised
    <3>4. \E p \in Org : <<m[1], p>> \in everAdmin'
      BY <1>2, <3>2
    <3>5. by[m] \in {"first", "identity"} \/ \E p \in Org : <<by[m], p>> \in everAdmin'
      BY <1>2, <3>3
    <3> QED
      BY <3>1, <3>4, <3>5
  <2> QED
    BY <2>1, <2>2
<1>6. GrantsAreAuthorised'
  BY <1>5 DEF GrantsAreAuthorised
<1> QED
  BY <1>5, <1>6

\* Whoever orders an administrator's role of a handler is vouched for.
LEMMA OrderVouched ==
  ASSUME TypeOK, ControlInv, AuthorityInv, NEW r \in Req,
         at[r] \in {"addOrg", "setOrg"}, Wanted(r) \in AdminRole
  PROVE  Orderer(r) \in {"first", "identity"} \/ Vouched(Orderer(r))
<1>1. op[r].kind \in {"bootstrap", "setRole", "sync"}
  BY DEF Wanted, AdminRole
<1>2. op[r].kind = "setRole" => Vouched(op[r].user)
  BY DEF AuthorityInv, Behind, AdminKind
<1> QED
  BY <1>1, <1>2 DEF Orderer

\* Every new administrator is vouched for, and so is who ordered it.
LEMMA AuthorityRows ==
  ASSUME TypeOK, ControlInv, TokenInv, AuthorityInv, [Next]_vars
  PROVE  /\ GrantsAreAuthorised'
         /\ \A m \in User \X Org :
              role'[m] \in AdminRole => \E p \in Org : <<m[1], p>> \in everAdmin'
<1>1. CASE UNCHANGED memberVars
  BY <1>1 DEF memberVars, AuthorityInv, GrantsAreAuthorised, Vouched
<1>2. CASE \E r \in Req : AddOrg(r) \/ SetOrg(r)
  <2>1. PICK r \in Req : AddOrg(r) \/ SetOrg(r)
    BY <1>2
  <2>2. at[r] \in {"addOrg", "setOrg"}
    BY <2>1 DEF AddOrg, SetOrg
  <2>3. /\ Subject(r) \in User /\ org[r] \in Org /\ Wanted(r) \in Role
        /\ Orderer(r) \in Origin
    BY <2>2, GrantFields
  <2>4. Wanted(r) \in AdminRole =>
          Orderer(r) \in {"first", "identity"} \/ Vouched(Orderer(r))
    BY <2>2, OrderVouched
  <2>5. ASSUME NEW i, Grant(Subject(r), org[r], Wanted(r), Orderer(r), i)
        PROVE  /\ GrantsAreAuthorised'
               /\ \A m \in User \X Org :
                    role'[m] \in AdminRole => \E p \in Org : <<m[1], p>> \in everAdmin'
    BY <2>3, <2>4, <2>5, AuthorityGrant
  <2> QED
    BY <1>1, <2>1, <2>5 DEF AddOrg, SetOrg
<1>3. CASE \E r \in Req : Join(r)
  <2>1. PICK r \in Req : Join(r)
    BY <1>3
  <2>2. at[r] = "join"
    BY <2>1 DEF Join
  <2>3. /\ op[r].inv \in Inv /\ op[r].user \in User /\ org[r] \in Org
        /\ invite[op[r].inv].role \in Role
        /\ invite[op[r].inv].by \in Origin
    BY <2>2, JoinTerms DEF Role, Origin
  <2>4. Vouched(invite[op[r].inv].by)
    BY <2>2, <2>3 DEF TokenInv, AuthorityInv
  <2>5. CASE Grant(op[r].user, org[r], invite[op[r].inv].role,
                   invite[op[r].inv].by, op[r].inv)
    BY <2>3, <2>4, <2>5, AuthorityGrant
  <2> QED
    BY <1>1, <2>1, <2>5 DEF Join
<1> QED
  BY <1>1, <1>2, <1>3, MemberWriters

\* A token that is issued, or changes, names an issuer vouched for.
LEMMA AuthorityTokens ==
  ASSUME TypeOK, ControlInv, TokenInv, AuthorityInv, [Next]_vars,
         NEW i \in Inv, invite'[i] # Unissued
  PROVE  Vouched(invite'[i].by)
<1>1. ASSUME NEW r \in Req, Insert(r)
      PROVE  Vouched(op[r].user)
  BY <1>1 DEF Insert, AuthorityInv, Behind, AdminKind, ControlInv, Legal, Kinds, Accepting
<1> QED
  BY <1>1, TermsFrom DEF AuthorityInv

\* Only an administrator passes the first check of the admin API.
LEMMA AuthorityRequest ==
  ASSUME TypeOK, ControlInv, AuthorityInv, [Next]_vars,
         NEW r \in Req, at'[r] \in Behind, op'[r].kind \in AdminKind
  PROVE  Vouched(op'[r].user)
<1>1. CASE Stays(r)
  BY <1>1 DEF Stays, AuthorityInv
<1>2. CASE OwnStep(r)
  <2>1. ~\E o \in Requests : Arrive(r, o)
    <3>1. ASSUME NEW o \in Requests, Arrive(r, o)
          PROVE  at'[r] = Entry(o) /\ o \in Op
      BY <3>1, RequestsAssumption DEF Arrive, TypeOK
    <3>2. ASSUME NEW o \in Op
          PROVE  Entry(o) \notin Behind
      BY OpFields DEF Entry, Behind
    <3> QED
      BY <3>1, <3>2
  <2>2. op'[r] = op[r] /\ at[r] # "idle"
    BY <1>2, <2>1, Keeps DEF Behind
  <2>3. op[r].kind \in Kinds(at[r])
    BY <2>2 DEF ControlInv, Legal
  <2>4. CASE Auth(r)
    <3>1. Admitted(r)
      BY <2>4 DEF Auth, Answer, Goto, GotoIn, TypeOK, Behind
    <3>2. op[r].user \in User
      BY <2>2, OpFields DEF ControlInv, AdminKind
    <3>3. PICK l \in Org \cup {NoOrg} : UserIsOrgAdmin(op[r].user, l)
      BY <3>1 DEF Admitted, LinkSeen, TypeOK
    <3>4. \E o \in Org : role[<<op[r].user, o>>] \in AdminRole
      BY <3>3 DEF UserIsOrgAdmin, IsAdmin
    <3> QED
      BY <2>2, <3>2, <3>4 DEF AuthorityInv
  <2>5. CASE Target(r) \/ Auth2(r) \/ Has(r)
    BY <2>2, <2>5 DEF Target, Auth2, Has, AuthorityInv, Behind
  <2>6. CASE Again(r) \/ Ensure(r) \/ LinkedOrg(r) \/ Count(r) \/ SetLink(r)
    BY <2>2, <2>3, <2>6
    DEF Again, Ensure, LinkedOrg, Count, SetLink, Kinds, Accepting, AdminKind
  <2> QED
    BY <1>2, <2>4, <2>5, <2>6, Origins DEF Behind
<1> QED
  BY <1>1, <1>2, OthersStay DEF Behind

\* Every step keeps authority with those vouched for.
LEMMA AuthorityStep ==
  TypeOK /\ ControlInv /\ TokenInv /\ AuthorityInv /\ [Next]_vars => AuthorityInv'
<1> SUFFICES ASSUME TypeOK, ControlInv, TokenInv, AuthorityInv, [Next]_vars
             PROVE  AuthorityInv'
  OBVIOUS
<1>1. everAdmin \subseteq everAdmin'
  BY RowsStay
<1>2. /\ GrantsAreAuthorised'
      /\ \A m \in User \X Org :
           role'[m] \in AdminRole => \E p \in Org : <<m[1], p>> \in everAdmin'
  BY AuthorityRows
<1>3. \A i \in Inv : invite'[i] # Unissued =>
        \E p \in Org : <<invite'[i].by, p>> \in everAdmin'
  BY <1>1, AuthorityTokens DEF Vouched
<1>4. \A r \in Req : at'[r] \in Behind /\ op'[r].kind \in AdminKind =>
        \E p \in Org : <<op'[r].user, p>> \in everAdmin'
  BY <1>1, AuthorityRequest DEF Vouched
<1> QED
  BY <1>2, <1>3, <1>4 DEF AuthorityInv, Vouched

-----------------------------------------------------------------------------
(* Organisations *)

\* The default organisation is as its seed has left it; others are whole, with
\* their default workspace and its public channel.
Ready == Whole \cup {DefaultOrg}

\* The organisation of the link is whole, every other one that is referred to is
\* ready, and a seed that is never cut short makes the default one whole too.
ReadyInv ==
  /\ (\A s \in Seed : s = 2) => DefaultOrg \in Whole
  /\ linked # NoOrg => linked \in Whole
  /\ \A i \in Inv : invite[i] # Unissued => invite[i].org \in Ready
  /\ \A r \in Req : /\ at[r] = "upCh" => op[r].org \in wsOf
                    /\ at[r] = "setLink" => op[r].org \in Whole
                    /\ at[r] \in Placed => org[r] \in Ready

\* The organisation a request works on is the default one, the linked one, that
\* of its token or that of the membership it has just linked the server to.
LEMMA PlacedFrom ==
  ASSUME TypeOK, ControlInv, [Next]_vars, NEW r \in Req, at'[r] \in Placed
  PROVE  \/ at[r] \in Placed /\ org'[r] = org[r]
         \/ org'[r] = DefaultOrg
         \/ linked # NoOrg /\ org'[r] = linked
         \/ SetLink(r) /\ org'[r] = op[r].org
         \/ /\ op[r].inv \in Inv /\ Usable(op[r].inv)
            /\ org'[r] = invite[op[r].inv].org
<1>1. CASE Stays(r)
  BY <1>1 DEF Stays
<1>2. CASE OwnStep(r)
  <2>1. ASSUME NEW p, NEW o, GotoIn(r, p, o)
        PROVE  at'[r] = p /\ (p # "idle" => org'[r] = o)
    BY <2>1 DEF GotoIn, TypeOK
  <2>2. CASE \/ AddOrg(r) \/ AddWs(r) \/ SetOrg(r) \/ Has(r) \/ Auth2(r) \/ Exists(r)
    BY <2>1, <2>2 DEF AddOrg, AddWs, SetOrg, Has, Auth2, Exists, Goto, Answer, Placed
  <2>3. CASE Ensure(r) \/ LinkedOrg(r)
    BY <2>1, <2>3 DEF Ensure, LinkedOrg, LinkSeen, Goto, Answer, Placed
  <2>4. CASE Count(r)
    BY <2>1, <2>4 DEF Count, AfterAdd, Goto, Placed
  <2>5. CASE Target(r)
    BY <2>1, <2>5 DEF Target, LinkSeen, AdminOrgID, Placed
  <2>6. CASE SetLink(r)
    BY <2>1, <2>6 DEF SetLink, Placed
  <2>7. CASE Lookup(r)
    <3>1. op[r].inv \in Inv
      BY <2>7, JoinFields DEF Lookup, Accepting
    <3> QED
      BY <2>1, <2>7, <3>1 DEF Lookup, AfterError, Adding, Goto, Placed
  <2> QED
    BY <1>2, <2>2, <2>3, <2>4, <2>5, <2>6, <2>7, Origins DEF Placed
<1> QED
  BY <1>1, <1>2, OthersStay DEF Placed

\* Workspaces and channels stay; the link changes in one statement only.
LEMMA LinkSteps ==
  ASSUME [Next]_vars
  PROVE  /\ wsOf \subseteq wsOf' /\ chOf \subseteq chOf'
         /\ \/ UNCHANGED linked
            \/ \E r \in Req : SetLink(r) /\ linked' = op[r].org
BY AccountWriters DEF linkVars, Account, Provision, UpWs, UpCh, SetLink

\* Nothing takes the seed of the default organisation up again.
LEMMA SeedStays ==
  ASSUME ControlInv, [Next]_vars
  PROVE  DefaultOrg \in Whole' <=> DefaultOrg \in Whole
<1>1. CASE UNCHANGED linkVars
  BY <1>1 DEF linkVars, Whole
<1>2. ASSUME NEW r \in Req, UpWs(r) \/ UpCh(r)
      PROVE  DefaultOrg \in Whole' <=> DefaultOrg \in Whole
  <2>1. op[r] \in Op /\ op[r].kind \in {"sync", "link", "relink"}
    BY <1>2 DEF UpWs, UpCh, ControlInv, Legal, Kinds, Accepting
  <2>2. op[r].org # DefaultOrg
    BY <2>1 DEF Op
  <2> QED
    BY <1>2, <2>2 DEF UpWs, UpCh, Whole
<1>3. ASSUME NEW r \in Req, Account(r) \/ Provision(r) \/ SetLink(r)
      PROVE  DefaultOrg \in Whole' <=> DefaultOrg \in Whole
  BY <1>3 DEF Account, Provision, SetLink, linkVars, Whole
<1> QED
  BY <1>1, <1>2, <1>3, AccountWriters

\* Every step keeps what it refers to ready.
LEMMA ReadyStep ==
  TypeOK /\ ControlInv /\ TokenInv /\ ReadyInv /\ [Next]_vars => ReadyInv'
<1> SUFFICES ASSUME TypeOK, ControlInv, TokenInv, ReadyInv, [Next]_vars
             PROVE  ReadyInv'
  OBVIOUS
<1>1. wsOf \subseteq wsOf' /\ Whole \subseteq Whole' /\ Ready \subseteq Ready'
  BY LinkSteps DEF Ready, Whole
<1>2. ASSUME NEW r \in Req, SetLink(r)
      PROVE  op[r].org \in Whole
  BY <1>2 DEF SetLink, ReadyInv
<1>3. (linked # NoOrg => linked \in Whole)'
  BY <1>1, <1>2, LinkSteps DEF ReadyInv
<1>4. ASSUME NEW i \in Inv, invite'[i] # Unissued
      PROVE  invite'[i].org \in Ready'
  <2>1. ASSUME NEW r \in Req, Insert(r)
        PROVE  org[r] \in Ready
    BY <2>1 DEF Insert, ReadyInv, Placed
  <2> QED
    BY <1>1, <1>4, <2>1, TermsFrom DEF ReadyInv
<1>5. ASSUME NEW r \in Req, at'[r] \in Placed
      PROVE  org'[r] \in Ready'
  <2>1. ASSUME NEW i \in Inv, Usable(i)
        PROVE  invite[i].org \in Ready
    BY <2>1, IssuedTerm DEF Usable, ReadyInv
  <2> QED
    BY <1>1, <1>2, <1>5, <2>1, PlacedFrom DEF ReadyInv, Ready
<1>6. ASSUME NEW r \in Req, at'[r] \in {"upCh", "setLink"}
      PROVE  /\ at'[r] = "upCh" => op'[r].org \in wsOf'
             /\ at'[r] = "setLink" => op'[r].org \in Whole'
  <2>1. CASE Stays(r)
    BY <1>1, <2>1 DEF Stays, ReadyInv
  <2>2. CASE OwnStep(r)
    <3>1. CASE UpWs(r)
      BY <3>1 DEF UpWs, Goto, GotoIn, TypeOK
    <3>2. CASE UpCh(r)
      BY <3>2 DEF UpCh, Goto, GotoIn, TypeOK, Whole, ReadyInv
    <3> QED
      BY <1>6, <2>2, <3>1, <3>2, LinkOrigins
  <2> QED
    BY <1>6, <2>1, <2>2, OthersStay
<1>7. (\A s \in Seed : s = 2) => DefaultOrg \in Whole'
  BY <1>1 DEF ReadyInv
<1> QED
  BY <1>3, <1>4, <1>5, <1>6, <1>7 DEF ReadyInv

-----------------------------------------------------------------------------
(* Complete memberships *)

\* Request r is about to run p for the row m.
AtRow(r, p, m) == at[r] \in p /\ m = <<Subject(r), org[r]>>

\* A member that cannot enter the workspace or the channel yet, although they
\* exist, is about to be let in by the request that inserted its row.
CompleteInv ==
  \A m \in User \X Org : role[m] # "none" /\ Placeable(m) =>
    /\ m \in wsMember \/ \E r \in Req : AtRow(r, {"addWs"}, m)
    /\ m \in chMember \/ \E r \in Req : AtRow(r, {"addWs", "addCh"}, m)

\* When no statement fails, a request that is adding someone takes its next
\* statement sooner or later, and that statement succeeds.
LEMMA AddingStays ==
  ASSUME ~Failing, TypeOK, ControlInv, ReadyInv, [Next]_vars,
         NEW r \in Req, at[r] \in {"addWs", "addCh"},
         org[r] = DefaultOrg => DefaultOrg \in Whole
  PROVE  \/ Stays(r)
         \/ /\ at[r] = "addWs" /\ at'[r] = "addCh" /\ op'[r] = op[r] /\ org'[r] = org[r]
            /\ <<Subject(r), org[r]>> \in wsMember'
         \/ at[r] = "addCh" /\ <<Subject(r), org[r]>> \in chMember'
<1>1. org[r] \in wsOf /\ org[r] \in chOf
  BY DEF ReadyInv, Ready, Whole, Placed
<1>2. CASE AddWs(r)
  BY <1>1, <1>2 DEF AddWs, Goto, GotoIn, TypeOK
<1>3. CASE AddCh(r)
  BY <1>1, <1>3 DEF AddCh
<1>4. CASE OwnStep(r)
  <2>1. AddWs(r) \/ AddCh(r)
    BY <1>4
    DEF OwnStep, Arrive, AccountNext, JoinNext, AdminNext, InviteNext, LinkNext, Account,
        Session, Resolve, Provision, Ensure, LinkedOrg, Count, AddOrg, First, Again, Auth,
        Target, Auth2, Has, SetOrg, Insert, Revoke, Lookup, Exists, Join, Check, UpWs,
        UpCh, SetLink, Fail
  <2> QED
    BY <1>2, <1>3, <2>1
<1>5. CASE Stays(r)
  BY <1>5
<1>6. CASE ~OwnStep(r) /\ ~Stays(r)
  <2>1. ASSUME NEW q \in Req, OwnStep(q)
        PROVE  FALSE
    BY <1>6, <2>1, OwnAlone
  <2>2. UNCHANGED <<at, op, org>>
    BY <2>1 DEF Next, OwnStep, Expire, Crash, vars
  <2> QED
    BY <1>6, <2>2 DEF Stays
<1> QED
  BY <1>4, <1>5, <1>6

\* A row that is new, and what its writer does next.
LEMMA NewRow ==
  ASSUME TypeOK, ControlInv, TokenInv, ReadyInv, [Next]_vars,
         NEW m \in User \X Org, role[m] = "none", role'[m] # "none", Placeable(m)
  PROVE  \/ \E r \in Req : AtRow(r, {"addWs"}, m)'
         \/ m \in wsMember' \cap chMember'
         \/ \E r \in Req : AtRow(r, {"setOrg"}, m)
<1>1. CASE \E r \in Req : AddOrg(r)
  <2>1. PICK r \in Req : AddOrg(r)
    BY <1>1
  <2>2. m = <<Subject(r), org[r]>>
    BY <2>1, GrantFields DEF AddOrg, Grant, memberVars, TypeOK
  <2>3. at'[r] = "addWs" /\ op'[r] = op[r] /\ org'[r] = org[r]
    BY <2>1 DEF AddOrg, Goto, GotoIn, TypeOK
  <2>4. Subject(r)' = Subject(r)
    BY <2>3 DEF Subject
  <2> QED
    BY <2>2, <2>3, <2>4 DEF AtRow
<1>2. CASE \E r \in Req : SetOrg(r)
  <2>1. PICK r \in Req : SetOrg(r)
    BY <1>2
  <2>2. m = <<Subject(r), org[r]>>
    BY <2>1, GrantFields DEF SetOrg, Grant, TypeOK
  <2> QED
    BY <2>1, <2>2 DEF SetOrg, AtRow
<1>3. CASE \E r \in Req : Join(r)
  <2>1. PICK r \in Req : Join(r)
    BY <1>3
  <2>2. m = <<op[r].user, org[r]>>
    BY <2>1, JoinTerms DEF Join, Grant, memberVars, TypeOK
  <2>3. org[r] \in chOf
    BY <2>1, <2>2 DEF Join, ReadyInv, Ready, Whole, Placed, Placeable
  <2> QED
    BY <2>1, <2>2, <2>3 DEF Join, memberVars
<1> QED
  BY <1>1, <1>2, <1>3, MemberWriters DEF memberVars

\* Without failures every step lets a member in or leaves it to be let in.
LEMMA CompleteStep ==
  ASSUME ~Failing, TypeOK, ControlInv, TokenInv, PlaceInv, ReadyInv, CompleteInv,
         [Next]_vars
  PROVE  CompleteInv'
<1> SUFFICES ASSUME NEW m \in User \X Org, role'[m] # "none", Placeable(m)'
             PROVE  /\ m \in wsMember' \/ \E r \in Req : AtRow(r, {"addWs"}, m)'
                    /\ \/ m \in chMember'
                       \/ \E r \in Req : AtRow(r, {"addWs", "addCh"}, m)'
  BY DEF CompleteInv
<1>1. wsMember \subseteq wsMember' /\ chMember \subseteq chMember'
  BY PlaceWriters DEF placeVars, AddWs, AddCh, Join
<1>p. Placeable(m)
  BY SeedStays DEF Placeable
<1>2. CASE role[m] # "none"
  <2>1. ASSUME NEW r \in Req, AtRow(r, {"addWs", "addCh"}, m)
        PROVE  \/ /\ AtRow(r, {"addWs", "addCh"}, m)'
                  /\ at[r] = "addWs" => at'[r] = "addWs" \/ m \in wsMember'
               \/ m \in chMember' /\ at[r] = "addCh"
    <3>1. at[r] \in {"addWs", "addCh"} /\ m = <<Subject(r), org[r]>>
      BY <2>1 DEF AtRow
    <3>2. op'[r] = op[r] => Subject(r)' = Subject(r)
      BY DEF Subject
    <3>3. org[r] = DefaultOrg => DefaultOrg \in Whole
      BY <1>p, <3>1 DEF Placeable
    <3> QED
      BY <3>1, <3>2, <3>3, AddingStays DEF AtRow, Stays
  <2>2. m \in wsMember' \/ \E r \in Req : AtRow(r, {"addWs"}, m)'
    BY <1>1, <1>p, <1>2, <2>1 DEF CompleteInv, AtRow
  <2>3. m \in chMember' \/ \E r \in Req : AtRow(r, {"addWs", "addCh"}, m)'
    BY <1>1, <1>p, <1>2, <2>1 DEF CompleteInv
  <2> QED
    BY <2>2, <2>3
<1>3. CASE role[m] = "none"
  <2>1. ~\E r \in Req : AtRow(r, {"setOrg"}, m)
    BY <1>3 DEF AtRow, PlaceInv
  <2>2. \/ \E r \in Req : AtRow(r, {"addWs"}, m)'
        \/ m \in wsMember' \cap chMember'
    BY <1>3, <1>p, <2>1, NewRow
  <2> QED
    BY <2>2 DEF AtRow
<1> QED
  BY <1>2, <1>3

-----------------------------------------------------------------------------
(* Grants in one organisation *)

\* Identity knows the server as one organisation.
OneIdentityOrg == \A o, p \in Org \ {DefaultOrg} : o = p

\* Until the server is linked there is only the default organisation.
HomeInv ==
  /\ linked # DefaultOrg
  /\ linked = NoOrg =>
       /\ \A m \in User \X Org : role[m] # "none" => m[2] = DefaultOrg
       /\ \A i \in Inv : invite[i] # Unissued => invite[i].org = DefaultOrg
       /\ \A r \in Req : at[r] \in Placed => org[r] = DefaultOrg

\* Statements behind both admission checks.
BehindBoth == {"insert", "revoke", "has", "setOrg", "addOrg"}

\* Who orders has been made an administrator of the organisation it gives orders
\* in.  Between the two checks the link may appear: who was admitted before it
\* is on record for the default organisation.
OrderInv ==
  /\ \A m \in User \X Org : role[m] \in AdminRole => m \in everAdmin
  /\ \A i \in Inv : invite[i] # Unissued => <<invite[i].by, invite[i].org>> \in everAdmin
  /\ \A r \in Req : at[r] # "idle" /\ op[r].kind \in AdminKind =>
       /\ at[r] = "target" /\ linked = NoOrg => <<op[r].user, DefaultOrg>> \in everAdmin
       /\ at[r] = "auth2" /\ org[r] = DefaultOrg
            => <<op[r].user, DefaultOrg>> \in everAdmin
       /\ at[r] \in BehindBoth => <<op[r].user, org[r]>> \in everAdmin

\* The link is never taken back, and Identity does not know the default
\* organisation.
LEMMA LinkLasts ==
  ASSUME TypeOK, ControlInv, [Next]_vars
  PROVE  /\ linked # DefaultOrg => linked' # DefaultOrg
         /\ linked # NoOrg => linked' # NoOrg
<1>1. ASSUME NEW r \in Req, SetLink(r)
      PROVE  op[r].org \in Org \ {DefaultOrg} /\ op[r].org # NoOrg
  <2>1. op[r] \in Op /\ op[r].kind \in {"sync", "link", "relink"}
    BY <1>1 DEF SetLink, ControlInv, Legal, Kinds, Accepting
  <2> QED
    BY <2>1, NamesAssumption DEF Op
<1> QED
  BY <1>1, LinkSteps

\* A new member is in the organisation of the request or the token that adds it.
LEMMA RowFrom ==
  ASSUME TypeOK, ControlInv, TokenInv, [Next]_vars,
         NEW m \in User \X Org, role'[m] # role[m]
  PROVE  \/ \E r \in Req : /\ at[r] \in {"addOrg", "setOrg"}
                           /\ Grant(Subject(r), org[r], Wanted(r), Orderer(r), via'[m])
                           /\ m = <<Subject(r), org[r]>> /\ UNCHANGED linked
         \/ \E r \in Req : /\ Join(r) /\ m = <<op[r].user, org[r]>>
                           /\ Grant(op[r].user, org[r], invite[op[r].inv].role,
                                    invite[op[r].inv].by, op[r].inv)
<1>1. CASE \E r \in Req : AddOrg(r)
  <2>1. PICK r \in Req : AddOrg(r)
    BY <1>1
  <2>2. /\ Grant(Subject(r), org[r], Wanted(r), Orderer(r), NoInv)
        /\ <<Subject(r), org[r]>> \in User \X Org
    BY <2>1, GrantFields DEF AddOrg, memberVars
  <2>3. m = <<Subject(r), org[r]>> /\ via'[m] = NoInv
    BY <2>2 DEF Grant, TypeOK
  <2> QED
    BY <2>1, <2>2, <2>3 DEF AddOrg, linkVars
<1>2. CASE \E r \in Req : SetOrg(r)
  <2>1. PICK r \in Req : SetOrg(r)
    BY <1>2
  <2>2. /\ Grant(Subject(r), org[r], Wanted(r), Orderer(r), via[<<Subject(r), org[r]>>])
        /\ <<Subject(r), org[r]>> \in User \X Org
    BY <2>1, GrantFields DEF SetOrg
  <2>3. m = <<Subject(r), org[r]>> /\ via'[m] = via[m]
    BY <2>2 DEF Grant, TypeOK
  <2> QED
    BY <2>1, <2>2, <2>3 DEF SetOrg, linkVars
<1>3. CASE \E r \in Req : Join(r)
  <2>1. PICK r \in Req : Join(r)
    BY <1>3
  <2>2. /\ Grant(op[r].user, org[r], invite[op[r].inv].role, invite[op[r].inv].by,
                 op[r].inv)
        /\ <<op[r].user, org[r]>> \in User \X Org
    BY <2>1, JoinTerms DEF Join, memberVars
  <2>3. m = <<op[r].user, org[r]>>
    BY <2>2 DEF Grant, TypeOK
  <2> QED
    BY <2>1, <2>2, <2>3
<1> QED
  BY <1>1, <1>2, <1>3, MemberWriters DEF memberVars

\* Every step keeps an unlinked server to the default organisation.
LEMMA HomeStep ==
  TypeOK /\ ControlInv /\ TokenInv /\ HomeInv /\ [Next]_vars => HomeInv'
<1> SUFFICES ASSUME TypeOK, ControlInv, TokenInv, HomeInv, [Next]_vars
             PROVE  HomeInv'
  OBVIOUS
<1>1. linked' # DefaultOrg
  BY LinkLasts DEF HomeInv
<1> SUFFICES ASSUME linked' = NoOrg
             PROVE  /\ \A m \in User \X Org : role'[m] # "none" => m[2] = DefaultOrg
                    /\ \A i \in Inv : invite'[i] # Unissued => invite'[i].org = DefaultOrg
                    /\ \A r \in Req : at'[r] \in Placed => org'[r] = DefaultOrg
  BY <1>1 DEF HomeInv
<1>2. linked = NoOrg
  BY LinkLasts
<1>3. ASSUME NEW m \in User \X Org, role'[m] # "none"
      PROVE  m[2] = DefaultOrg
  BY <1>2, <1>3, RowFrom DEF HomeInv, Placed, Join
<1>4. ASSUME NEW i \in Inv, invite'[i] # Unissued
      PROVE  invite'[i].org = DefaultOrg
  BY <1>2, <1>4, TermsFrom DEF HomeInv, Placed, Insert
<1>5. ASSUME NEW r \in Req, at'[r] \in Placed
      PROVE  org'[r] = DefaultOrg
  <2>1. ~SetLink(r)
    <3> SUFFICES ASSUME SetLink(r)
                 PROVE  FALSE
      OBVIOUS
    <3>1. op[r] \in Op /\ op[r].kind \in {"sync", "link", "relink"} /\ linked' = op[r].org
      BY DEF SetLink, ControlInv, Legal, Kinds, Accepting
    <3> QED
      BY <3>1, OpFields, NamesAssumption
  <2>2. ASSUME NEW i \in Inv, Usable(i)
        PROVE  invite[i] # Unissued
    BY <2>2, IssuedTerm DEF Usable
  <2> QED
    BY <1>2, <1>5, <2>1, <2>2, PlacedFrom DEF HomeInv
<1> QED
  BY <1>3, <1>4, <1>5

\* A request joins the organisation of its token.
JoinInv == \A r \in Req : at[r] \in {"exists", "join"} => invite[op[r].inv].org = org[r]

\* A token keeps its organisation, so a request that has looked it up keeps its own.
LEMMA JoinStep == TypeOK /\ ControlInv /\ TokenInv /\ JoinInv /\ [Next]_vars => JoinInv'
<1> SUFFICES ASSUME TypeOK, ControlInv, TokenInv, JoinInv, [Next]_vars,
                    NEW r \in Req, at'[r] \in {"exists", "join"}
             PROVE  invite'[op'[r].inv].org = org'[r]
  BY DEF JoinInv
<1>1. ASSUME NEW i \in Inv, invite[i] # Unissued
      PROVE  invite'[i].org = invite[i].org
  BY <1>1, IssuedStays, TermsFrom
<1>2. CASE Stays(r)
  BY <1>1, <1>2, JoinFields DEF Stays, JoinInv, TokenInv, Accepting
<1>3. CASE Exists(r)
  <2>1. op'[r] = op[r] /\ org'[r] = org[r]
    BY <1>3 DEF Exists, Goto, Answer, GotoIn, TypeOK
  <2> QED
    BY <1>1, <1>3, <2>1, JoinFields DEF Exists, JoinInv, TokenInv, Accepting
<1>4. CASE Lookup(r)
  <2>1. Usable(op[r].inv)
    BY <1>4 DEF Lookup, Goto, GotoIn, AfterError, Adding, TypeOK
  <2>2. op'[r] = op[r] /\ org'[r] = invite[op[r].inv].org
    BY <1>4, <2>1 DEF Lookup, GotoIn, TypeOK
  <2>3. op[r].inv \in Inv
    BY <1>4, JoinFields DEF Lookup, Accepting
  <2> QED
    BY <1>1, <2>1, <2>2, <2>3, IssuedTerm DEF Usable
<1> QED
  BY <1>2, <1>3, <1>4, OthersStay, Origins

\* Who writes an administrator's row, by which order, in which organisation.
InsideInv ==
  /\ GrantsStayInside
  /\ OrderInv

\* A row granted by someone on record for the organisation, by the first
\* bootstrap or by Identity keeps the rows in order.
LEMMA InsideGrant ==
  ASSUME TypeOK, InsideInv, NEW u \in User, NEW o \in Org, NEW ro \in Role,
         NEW w \in Origin, NEW i, Grant(u, o, ro, w, i),
         ro \in AdminRole => w \in {"first", "identity"} \/ <<w, o>> \in everAdmin
  PROVE  \A m \in User \X Org : role'[m] \in AdminRole =>
           /\ m \in everAdmin'
           /\ by'[m] \in {"first", "identity"} \/ <<by'[m], m[2]>> \in everAdmin'
<1> SUFFICES ASSUME NEW m \in User \X Org, role'[m] \in AdminRole
             PROVE  /\ m \in everAdmin'
                    /\ by'[m] \in {"first", "identity"} \/ <<by'[m], m[2]>> \in everAdmin'
  OBVIOUS
<1>1. everAdmin \subseteq everAdmin'
  BY DEF Grant
<1>2. CASE m = <<u, o>>
  <2>1. role'[m] = ro /\ by'[m] = w /\ m[2] = o
    BY <1>2 DEF Grant, TypeOK
  <2>2. w \in {"first", "identity"} \/ <<w, o>> \in everAdmin
    BY <2>1
  <2>3. m \in everAdmin'
    <3>1. CASE w # u
      BY <1>2, <2>1, <3>1 DEF Grant
    <3>2. CASE w = u
      BY <1>1, <1>2, <2>2, <3>2, OriginAssumption
    <3> QED
      BY <3>1, <3>2
  <2> QED
    BY <1>1, <2>1, <2>2, <2>3
<1>3. CASE m # <<u, o>>
  <2>1. role'[m] = role[m] /\ by'[m] = by[m]
    BY <1>3 DEF Grant, TypeOK
  <2> QED
    BY <1>1, <2>1 DEF InsideInv, OrderInv, GrantsStayInside
<1> QED
  BY <1>2, <1>3

\* Every new administrator is on record, and so is who ordered it.
LEMMA InsideRows ==
  ASSUME TypeOK, ControlInv, TokenInv, JoinInv, InsideInv, [Next]_vars
  PROVE  \A m \in User \X Org : role'[m] \in AdminRole =>
           /\ m \in everAdmin'
           /\ by'[m] \in {"first", "identity"} \/ <<by'[m], m[2]>> \in everAdmin'
<1>1. CASE UNCHANGED memberVars
  BY <1>1 DEF memberVars, InsideInv, OrderInv, GrantsStayInside
<1>2. ASSUME NEW r \in Req, AddOrg(r) \/ SetOrg(r), ~UNCHANGED memberVars
      PROVE  \A m \in User \X Org : role'[m] \in AdminRole =>
               /\ m \in everAdmin'
               /\ by'[m] \in {"first", "identity"} \/ <<by'[m], m[2]>> \in everAdmin'
  <2>1. at[r] \in {"addOrg", "setOrg"}
    BY <1>2 DEF AddOrg, SetOrg
  <2>2. /\ Subject(r) \in User /\ org[r] \in Org /\ Wanted(r) \in Role
        /\ Orderer(r) \in Origin
    BY <2>1, GrantFields
  <2>3. Wanted(r) \in AdminRole =>
          Orderer(r) \in {"first", "identity"} \/ <<Orderer(r), org[r]>> \in everAdmin
    <3>1. op[r].kind = "setRole" => <<op[r].user, org[r]>> \in everAdmin
      BY <2>1 DEF InsideInv, OrderInv, BehindBoth, AdminKind
    <3>2. Wanted(r) \in AdminRole => op[r].kind \in {"bootstrap", "setRole", "sync"}
      BY DEF Wanted, AdminRole
    <3> QED
      BY <3>1, <3>2 DEF Orderer
  <2>4. \E i : Grant(Subject(r), org[r], Wanted(r), Orderer(r), i)
    BY <1>2 DEF AddOrg, SetOrg
  <2> QED
    BY <2>2, <2>3, <2>4, InsideGrant
<1>3. ASSUME NEW r \in Req, Join(r), ~UNCHANGED memberVars
      PROVE  \A m \in User \X Org : role'[m] \in AdminRole =>
               /\ m \in everAdmin'
               /\ by'[m] \in {"first", "identity"} \/ <<by'[m], m[2]>> \in everAdmin'
  <2>1. at[r] = "join" /\ Grant(op[r].user, org[r], invite[op[r].inv].role,
                                invite[op[r].inv].by, op[r].inv)
    BY <1>3 DEF Join
  <2>2. /\ op[r].inv \in Inv /\ op[r].user \in User /\ org[r] \in Org
        /\ invite[op[r].inv].role \in Role /\ invite[op[r].inv].by \in Origin
    BY <2>1, JoinTerms DEF Role, Origin
  <2>3. <<invite[op[r].inv].by, org[r]>> \in everAdmin
    BY <2>1, <2>2 DEF TokenInv, InsideInv, OrderInv, JoinInv
  <2> QED
    BY <2>1, <2>2, <2>3, InsideGrant
<1> QED
  BY <1>1, <1>2, <1>3, MemberWriters

\* The two admission checks admit to one organisation, also when the server is
\* linked between them.
LEMMA InsideRequest ==
  ASSUME OneIdentityOrg, ~Unreadable,
         TypeOK, ControlInv, TokenInv, HomeInv, InsideInv, [Next]_vars,
         NEW r \in Req, at'[r] # "idle", op'[r].kind \in AdminKind
  PROVE  /\ at'[r] = "target" /\ linked' = NoOrg => <<op'[r].user, DefaultOrg>> \in everAdmin
         /\ at'[r] = "auth2" /\ org'[r] = DefaultOrg
              => <<op'[r].user, DefaultOrg>> \in everAdmin
         /\ at'[r] \in BehindBoth => <<op'[r].user, org'[r]>> \in everAdmin
<1>1. linked' = NoOrg => linked = NoOrg
  BY LinkLasts
<1>2. LinkSeen = {linked} /\ linked \in Org \cup {NoOrg} /\ linked # DefaultOrg
  BY DEF LinkSeen, TypeOK, HomeInv
<1>3. CASE Stays(r)
  BY <1>1, <1>3 DEF Stays, InsideInv, OrderInv
<1>4. CASE \E o \in Requests : Arrive(r, o)
  <2>1. PICK o \in Op : at'[r] = Entry(o)
    BY <1>4, RequestsAssumption DEF Arrive, TypeOK
  <2> QED
    BY <2>1, OpFields DEF Entry, BehindBoth
<1>5. CASE OwnStep(r) /\ ~\E o \in Requests : Arrive(r, o)
  <2>1. at[r] # "idle" /\ op'[r] = op[r] /\ op[r].kind \in Kinds(at[r])
    BY <1>5, Keeps DEF ControlInv, Legal
  <2>2. op[r].user \in User
    BY <2>1, OpFields DEF ControlInv, AdminKind
  <2>3. ASSUME Admitted(r)
        PROVE  /\ linked = NoOrg => <<op[r].user, DefaultOrg>> \in everAdmin
               /\ linked # NoOrg => <<op[r].user, linked>> \in everAdmin
    <3>1. UserIsOrgAdmin(op[r].user, linked)
      BY <1>2, <2>3 DEF Admitted
    <3>2. ASSUME NEW o \in Org, IsAdmin(op[r].user, o)
          PROVE  /\ <<op[r].user, o>> \in everAdmin
                 /\ linked = NoOrg => o = DefaultOrg
      <4>1. role[<<op[r].user, o>>] \in AdminRole /\ <<op[r].user, o>> \in User \X Org
        BY <2>2, <3>2 DEF IsAdmin
      <4> QED
        BY <4>1 DEF InsideInv, OrderInv, HomeInv, AdminRole
    <3> QED
      BY <1>2, <3>1, <3>2 DEF UserIsOrgAdmin
  <2>4. CASE at'[r] = "target"
    <3>1. Auth(r)
      BY <1>5, <2>1, <2>4, Origins DEF Again, Kinds, Accepting, AdminKind
    <3>2. Admitted(r) /\ UNCHANGED linked
      BY <2>4, <3>1 DEF Auth, Answer, Goto, GotoIn, TypeOK, linkVars
    <3> QED
      BY <2>1, <2>3, <2>4, <3>2 DEF BehindBoth
  <2>5. CASE at'[r] = "auth2"
    <3>1. Target(r)
      BY <1>5, <2>5, Origins
    <3>2. org'[r] = AdminOrgID(linked) /\ at[r] = "target"
      BY <1>2, <2>5, <3>1 DEF Target, GotoIn, TypeOK
    <3> QED
      BY <1>2, <2>1, <2>5, <3>2 DEF AdminOrgID, BehindBoth, InsideInv, OrderInv
  <2>6. CASE at'[r] \in BehindBoth
    <3>1. Auth2(r) \/ Has(r)
      BY <1>5, <2>1, <2>6, Origins
      DEF BehindBoth, Target, Ensure, LinkedOrg, Count, SetLink, Goto, GotoIn, TypeOK, Kinds,
          Accepting, AdminKind
    <3>2. CASE Has(r)
      BY <2>1, <2>6, <3>2 DEF Has, Goto, GotoIn, TypeOK, BehindBoth, InsideInv, OrderInv
    <3>3. CASE Auth2(r)
      <4>1. Admitted(r) /\ org'[r] = org[r] /\ at[r] = "auth2"
        BY <2>6, <3>3 DEF Auth2, Answer, Goto, GotoIn, TypeOK, BehindBoth
      <4>2. org[r] \in Org /\ (linked = NoOrg => org[r] = DefaultOrg)
        BY <4>1 DEF ControlInv, Legal, Placed, HomeInv
      <4>3. org[r] = DefaultOrg => <<op[r].user, DefaultOrg>> \in everAdmin
        BY <2>1, <4>1 DEF InsideInv, OrderInv
      <4>4. CASE org[r] = DefaultOrg
        BY <2>1, <2>6, <4>1, <4>3, <4>4 DEF BehindBoth
      <4>5. CASE org[r] # DefaultOrg
        <5>1. org[r] = linked /\ linked # NoOrg
          BY <1>2, <4>2, <4>5 DEF OneIdentityOrg
        <5> QED
          BY <2>1, <2>3, <2>6, <4>1, <5>1 DEF BehindBoth
      <4> QED
        BY <4>4, <4>5
    <3> QED
      BY <3>1, <3>2, <3>3
  <2> QED
    BY <2>4, <2>5, <2>6
<1> QED
  BY <1>3, <1>4, <1>5, OthersStay

\* Every step keeps grants inside their organisation.
LEMMA InsideStep ==
  ASSUME OneIdentityOrg, ~Unreadable,
         TypeOK, ControlInv, TokenInv, JoinInv, HomeInv, InsideInv, [Next]_vars
  PROVE  InsideInv'
<1>1. everAdmin \subseteq everAdmin'
  BY RowsStay
<1>2. \A m \in User \X Org : role'[m] \in AdminRole =>
        /\ m \in everAdmin'
        /\ by'[m] \in {"first", "identity"} \/ <<by'[m], m[2]>> \in everAdmin'
  BY InsideRows
<1>3. ASSUME NEW i \in Inv, invite'[i] # Unissued
      PROVE  <<invite'[i].by, invite'[i].org>> \in everAdmin'
  <2>1. ASSUME NEW r \in Req, Insert(r)
        PROVE  <<op[r].user, org[r]>> \in everAdmin
    <3>1. at[r] = "insert" /\ op[r].kind = "create"
      BY <2>1 DEF Insert, ControlInv, Legal, Kinds, Accepting
    <3> QED
      BY <3>1 DEF InsideInv, OrderInv, BehindBoth, AdminKind
  <2> QED
    BY <1>1, <1>3, <2>1, TermsFrom DEF InsideInv, OrderInv
<1>4. \A r \in Req : at'[r] # "idle" /\ op'[r].kind \in AdminKind =>
        /\ at'[r] = "target" /\ linked' = NoOrg
             => <<op'[r].user, DefaultOrg>> \in everAdmin'
        /\ at'[r] = "auth2" /\ org'[r] = DefaultOrg
             => <<op'[r].user, DefaultOrg>> \in everAdmin'
        /\ at'[r] \in BehindBoth => <<op'[r].user, org'[r]>> \in everAdmin'
  BY <1>1, InsideRequest
<1>5. GrantsStayInside'
  BY <1>2 DEF GrantsStayInside
<1>6. OrderInv'
  BY <1>2, <1>3, <1>4 DEF OrderInv
<1> QED
  BY <1>5, <1>6 DEF InsideInv

-----------------------------------------------------------------------------
(* Theorems *)

IInv == /\ TypeOK /\ ControlInv /\ TokenInv
        /\ PlaceInv /\ UseInv /\ BoundInv /\ AuthorityInv
        /\ ReadyInv /\ JoinInv /\ HomeInv

\* The inductive invariant holds in a fresh database.
LEMMA InitInv == Init => IInv
<1> SUFFICES ASSUME Init
             PROVE  IInv
  OBVIOUS
<1>1. TypeOK
  BY NamesAssumption DEF Init, TypeOK, Point, Origin
<1>2. ControlInv /\ TokenInv
  BY DEF Init, ControlInv, TokenInv, Legal
<1>3. PlaceInv
  BY DEF Init, PlaceInv, NoStrayAccess
<1>4. UseInv
  <2>1. \A i \in Inv : Rows(i) = {} /\ used[i] = 0
    BY NamesAssumption DEF Init, Rows
  <2>2. \A m \in User \X Org : via[m] = NoInv
    BY DEF Init
  <2> QED
    BY <2>1, <2>2, FS_EmptySet DEF UseInv
<1>5. BoundInv
  BY DEF Init, BoundInv
<1>6. AuthorityInv
  <2>1. \A m \in User \X Org : role[m] \notin AdminRole
    BY DEF Init, AdminRole
  <2>2. /\ \A i \in Inv : invite[i] = Unissued
        /\ \A r \in Req : at[r] \notin Behind
    BY DEF Init, Behind
  <2> QED
    BY <2>1, <2>2 DEF AuthorityInv, GrantsAreAuthorised
<1>7. ReadyInv /\ JoinInv
  <2>1. (\A s \in Seed : s = 2) => DefaultOrg \in Whole
    BY DEF Init, Whole
  <2> QED
    BY <2>1 DEF Init, ReadyInv, Placed, JoinInv
<1>8. HomeInv
  BY NamesAssumption DEF Init, HomeInv, Placed
<1> QED
  BY <1>1, <1>2, <1>3, <1>4, <1>5, <1>6, <1>7, <1>8 DEF IInv

\* Every step keeps it.
LEMMA StepInv == IInv /\ [Next]_vars => IInv'
BY TypeStep, ControlStep, TokenStep, PlaceStep, UseStep, BoundStep, AuthorityStep,
   ReadyStep, JoinStep, HomeStep DEF IInv

\* The inductive invariant of the handlers.
THEOREM Invariant == Spec => []IInv
BY InitInv, StepInv, PTL DEF Spec

\* Every variable keeps its type, whatever requests interleave or fail.
THEOREM TypeCorrect == Spec => []TypeOK
<1>1. IInv => TypeOK
  BY DEF IInv
<1> QED
  BY <1>1, Invariant, PTL

\* An invitation's use_count is the number of member rows it has inserted.
THEOREM UsesAreExact == Spec => []UseCountExact
<1>1. IInv => UseCountExact
  BY DEF IInv, UseInv, UseCountExact, Rows
<1> QED
  BY <1>1, Invariant, PTL

\* max_uses is overrun by at most the number of other requests in flight.
THEOREM UsesStayBounded == Spec => []UsesBounded
<1>1. IInv => UsesBounded
  <2> SUFFICES ASSUME IInv, NEW i \in Inv, invite[i] # Unissued, invite[i].max > 0
               PROVE  used[i] <= invite[i].max + Cardinality(Req) - 1
    BY DEF UsesBounded
  <2>1. Cardinality(Accepts(i)) \in Nat /\ Cardinality(Req) \in Nat
    <3>1. Accepts(i) \subseteq Req
      BY DEF Accepts
    <3> QED
      BY <3>1, RequestsAssumption, FS_Subset, FS_CardinalityType
  <2>2. used[i] \in Nat /\ invite[i].max \in Nat
    BY TermFields DEF IInv, TypeOK
  <2> QED
    BY <2>1, <2>2 DEF IInv, BoundInv
<1> QED
  BY <1>1, Invariant, PTL

\* Nobody can enter a workspace or a channel of an organisation that has no row
\* for them, wherever a request fails or is cut short.
THEOREM NobodyStrays == Spec => []NoStrayAccess
<1>1. IInv => NoStrayAccess
  BY DEF IInv, PlaceInv
<1> QED
  BY <1>1, Invariant, PTL

\* An administrator's role comes from the first bootstrap, from Identity, or from
\* someone an administrator, the bootstrap or Identity had made one before.
THEOREM GrantsStayAuthorised == Spec => []GrantsAreAuthorised
<1>1. IInv => GrantsAreAuthorised
  BY DEF IInv, AuthorityInv
<1> QED
  BY <1>1, Invariant, PTL

\* When no statement fails and nothing is in flight every member can enter the
\* workspace and the channel of its organisation, if they exist: a default
\* organisation whose seed was cut short is the one that may lack them.
THEOREM MembersStayComplete ==
  ASSUME Failing = FALSE
  PROVE  Spec => []MembersAreComplete
<1>1. Init => CompleteInv
  BY DEF Init, CompleteInv
<1>2. IInv /\ CompleteInv /\ [Next]_vars => CompleteInv'
  BY CompleteStep DEF IInv
<1>3. CompleteInv => MembersAreComplete
  BY DEF CompleteInv, MembersAreComplete, Quiet, AtRow
<1> QED
  BY <1>1, <1>2, <1>3, Invariant, PTL DEF Spec

\* An administrator's role comes from the first bootstrap, from Identity or from
\* someone who has been an administrator of that organisation.
THEOREM GrantsKeepInside ==
  ASSUME OneIdentityOrg, Unreadable = FALSE
  PROVE  Spec => []GrantsStayInside
<1>1. Init => InsideInv
  BY DEF Init, InsideInv, OrderInv, GrantsStayInside, AdminRole
<1>2. IInv /\ InsideInv /\ [Next]_vars => InsideInv'
  BY InsideStep DEF IInv
<1>3. InsideInv => GrantsStayInside
  BY DEF InsideInv
<1> QED
  BY <1>1, <1>2, <1>3, Invariant, PTL DEF Spec

\* The organisation of the link has its default workspace and its public channel, and
\* so has every other one a request or a token refers to, whatever fails or dies on the
\* way and however links and joins interleave (service.go lines 411-445 and 527-548).
\* The default organisation is the exception: a start that died in its seed leaves it
\* without, for good (database.go line 226); if no seed was cut short it has them too.
THEOREM OrganisationsAreReady == Spec => []ReadyInv
<1>1. IInv => ReadyInv
  BY DEF IInv
<1> QED
  BY <1>1, Invariant, PTL

\* The order in which a token's states follow one another.
Age == [s \in {"open", "expired", "revoked"} |->
          CASE s = "open" -> 0 [] s = "expired" -> 1 [] s = "revoked" -> 2]

\* A token that has been issued stays issued with the terms it has, and never
\* becomes more useful: what expired or was revoked is not opened again, whatever
\* else is under way (invitations.go).
TokensOnlyClose ==
  [][\A i \in Inv : invite[i] # Unissued =>
       /\ invite'[i] # Unissued
       /\ invite'[i].org = invite[i].org /\ invite'[i].by = invite[i].by
       /\ invite'[i].role = invite[i].role /\ invite'[i].max = invite[i].max
       /\ Age[invite'[i].state] >= Age[invite[i].state]]_vars

\* One step of one token.
LEMMA CloseStep ==
  ASSUME TypeOK, ControlInv, TokenInv, [Next]_vars, NEW i \in Inv, invite[i] # Unissued
  PROVE  /\ invite'[i] # Unissued
         /\ invite'[i].org = invite[i].org /\ invite'[i].by = invite[i].by
         /\ invite'[i].role = invite[i].role /\ invite'[i].max = invite[i].max
         /\ Age[invite'[i].state] >= Age[invite[i].state]
<1>1. invite'[i] # Unissued
  BY IssuedStays
<1>2. /\ invite'[i].org = invite[i].org /\ invite'[i].by = invite[i].by
      /\ invite'[i].role = invite[i].role /\ invite'[i].max = invite[i].max
  <2>1. ~\E r \in Req : Insert(r) /\ invite[i] = Unissued
    OBVIOUS
  <2> QED
    BY <1>1, <2>1, TermsFrom
<1>3. Age[invite'[i].state] >= Age[invite[i].state]
  <2>1. invite[i] \in Terms
    BY IssuedTerm
  <2>2. invite[i].state \in {"open", "expired", "revoked"}
    BY <2>1 DEF Terms
  <2>3. \/ invite'[i].state = invite[i].state
        \/ invite'[i].state = "revoked"
        \/ invite[i].state = "open" /\ invite'[i].state = "expired"
    <3>1. CASE \E r \in Req : Insert(r)
      BY <3>1 DEF Insert, TypeOK
    <3>2. CASE \E r \in Req : Revoke(r)
      BY <2>1, <3>2 DEF Revoke, TypeOK, Terms
    <3>3. CASE \E j \in Inv : Expire(j)
      BY <2>1, <3>3 DEF Expire, TypeOK, Terms
    <3> QED
      BY <3>1, <3>2, <3>3, InviteWriters DEF inviteVars, Join
  <2> QED
    BY <2>2, <2>3 DEF Age
<1> QED
  BY <1>1, <1>2, <1>3

\* No interleaving, failure or crash opens a token again or changes its terms.
THEOREM TokensClose == Spec => TokensOnlyClose
<1>1. IInv /\ [Next]_vars =>
        [\A i \in Inv : invite[i] # Unissued =>
           /\ invite'[i] # Unissued
           /\ invite'[i].org = invite[i].org /\ invite'[i].by = invite[i].by
           /\ invite'[i].role = invite[i].role /\ invite'[i].max = invite[i].max
           /\ Age[invite'[i].state] >= Age[invite[i].state]]_vars
  BY CloseStep DEF IInv
<1> QED
  BY <1>1, Invariant, PTL DEF Spec, TokensOnlyClose
=============================================================================
