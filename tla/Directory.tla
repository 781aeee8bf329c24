----------------------------- MODULE Directory -----------------------------
(***************************************************************************)
(* What the membership tables promise to one caller at a time: joining,    *)
(* joining by invitation, the first owner, changes of role by an           *)
(* administrator and memberships Identity asserts, each in one step.       *)
(***************************************************************************)
EXTENDS Integers, FiniteSets

CONSTANTS User, Org, Inv, DefaultOrg

VARIABLES role, invite, used

Admins == {u \in User : \E o \in Org : role[<<u, o>>] \in {"owner", "admin"}}
Issued(i) == invite[i].state # "unissued"

Init ==
  /\ role = [m \in User \X Org |-> "none"]
  /\ invite = [i \in Inv |-> [state |-> "unissued"]]
  /\ used = [i \in Inv |-> 0]

\* Someone becomes a plain member.
Enrol(m) ==
  /\ role[m] = "none"
  /\ role' = [role EXCEPT ![m] = "member"]
  /\ UNCHANGED <<invite, used>>

\* Someone becomes a member by a token that is not revoked and has uses left;
\* it may expire while the request is under way.
Redeem(m, i) ==
  /\ invite[i].state \in {"open", "expired"} /\ m[2] = invite[i].org
  /\ invite[i].max > 0 => used[i] < invite[i].max
  /\ role[m] = "none"
  /\ role' = [role EXCEPT ![m] = invite[i].role]
  /\ used' = [used EXCEPT ![i] = @ + 1]
  /\ UNCHANGED invite

\* The first owner, only while nobody administers anything.
Found(m) ==
  /\ Admins = {}
  /\ role' = [role EXCEPT ![m] = "owner"]
  /\ UNCHANGED <<invite, used>>

\* An administrator sets a role, not demoting itself.
Appoint(a, m, ro) ==
  /\ a \in Admins
  /\ m[1] = a => ro # "member"
  /\ role' = [role EXCEPT ![m] = ro]
  /\ UNCHANGED <<invite, used>>

\* Identity asserts a membership; it never overrides one that is there.
Assert(m, ro) ==
  /\ m[2] # DefaultOrg /\ role[m] = "none"
  /\ role' = [role EXCEPT ![m] = ro]
  /\ UNCHANGED <<invite, used>>

\* An administrator issues a token, for a member or an administrator.
Issue(a, i, o, ro, max) ==
  /\ a \in Admins /\ invite[i].state = "unissued"
  /\ invite' = [invite EXCEPT ![i] = [state |-> "open", org |-> o, role |-> ro,
                                      max |-> max, by |-> a]]
  /\ UNCHANGED <<role, used>>

\* A token expires, or an administrator revokes it, expired or not.
Expire(i) ==
  /\ invite[i].state = "open"
  /\ invite' = [invite EXCEPT ![i].state = "expired"]
  /\ UNCHANGED <<role, used>>
Revoke(a, i) ==
  /\ a \in Admins /\ Issued(i)
  /\ invite' = [invite EXCEPT ![i].state = "revoked"]
  /\ UNCHANGED <<role, used>>

Next ==
  \/ \E m \in User \X Org :
       \/ Enrol(m) \/ Found(m)
       \/ \E i \in Inv : Redeem(m, i)
       \/ \E a \in User, ro \in {"owner", "admin", "member"} :
            Appoint(a, m, ro) \/ Assert(m, ro)
  \/ \E i \in Inv : \/ Expire(i)
                    \/ \E a \in User : Revoke(a, i)
                    \/ \E a \in User, o \in Org, ro \in {"admin", "member"} :
                         Issue(a, i, o, ro, invite'[i].max)

Spec == Init /\ [][Next]_<<role, invite, used>>
=============================================================================
