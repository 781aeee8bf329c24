---------------------------- MODULE MembershipMC ----------------------------
(***************************************************************************)
(* Small instances of the membership tables: two to four accounts, the     *)
(* default organisation and one of Identity, one invitation, one or two    *)
(* requests in flight.                                                     *)
(***************************************************************************)
EXTENDS Membership, TLC

CONSTANTS ana, ben, cat, dan, home, acme, inv, r1, r2

Register(u, i) == [kind |-> "register", user |-> u, inv |-> i]
Simple(k, u) == [kind |-> k, user |-> u]
Accept(u) == [kind |-> "accept", user |-> u, inv |-> inv]
SetRole(u, t, ro) == [kind |-> "setRole", user |-> u, target |-> t, role |-> ro]
Create(u, ro, n) == [kind |-> "create", user |-> u, role |-> ro, max |-> n]
RevokeIt(u) == [kind |-> "revoke", user |-> u, inv |-> inv]
Sync(u, ro) == [kind |-> "sync", user |-> u, org |-> acme, role |-> ro]
Link(k) == [kind |-> k, org |-> acme]

\* A server of its own: people register, administer and invite.
Standalone ==
  {Simple("bootstrap", u) : u \in User}
    \cup {Register(u, i) : u \in User, i \in {NoInv, inv}}
    \cup {Simple("login", u) : u \in User}
    \cup {SetRole(u, t, ro) : u \in User, t \in User, ro \in {"admin", "member"}}
    \cup {Create(u, ro, 1) : u \in User, ro \in Role}
    \cup {RevokeIt(u) : u \in User} \cup {Accept(u) : u \in User}

\* The same without what only matters to a request that runs alone.
Racing ==
  {Simple("bootstrap", u) : u \in User}
    \cup {Register(u, inv) : u \in User}
    \cup {SetRole(u, t, ro) : u \in User, t \in User, ro \in {"admin", "member"}}
    \cup {Create(u, "admin", 1) : u \in User} \cup {Accept(u) : u \in User}

\* A server that is linked to an organisation of Identity while it runs.
Linking ==
  {Simple("bootstrap", ana), Register(ana, inv), Simple("login", ana),
   Link("link"), Link("relink"),
   Sync(ben, "admin"), Simple("fallback", ben), Accept(ana),
   Create(ana, "admin", 1), SetRole(ben, ana, "admin"), SetRole(ana, ben, "admin"),
   Accept(ben)} \cup {Register(u, inv) : u \in User \ {ana, ben}}

\* Requests are interchangeable, and so are accounts that may ask for the same.
RequestSymmetry == Permutations(Req)
LinkingSymmetry == RequestSymmetry \cup Permutations(User \ {ana, ben})
FullSymmetry == RequestSymmetry \cup Permutations(User)
=============================================================================
