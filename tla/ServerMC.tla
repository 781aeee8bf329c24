------------------------------ MODULE ServerMC ------------------------------
(***************************************************************************)
(* Two requests besides the start: saves of this host, or of a public one  *)
(* with or without Identity, and logins.                                   *)
(***************************************************************************)
EXTENDS Server, TLC
CONSTANTS cocina, identity, local, p, q, r1, r2

Alike == Permutations({r1, r2})
At(h, a) == [host |-> h, api |-> a]
Inputs ==
  { [mode |-> "local",  base |-> NoUrl,        sync |-> FALSE],
    [mode |-> "public", base |-> At(p, FALSE), sync |-> TRUE],
    [mode |-> "public", base |-> At(q, TRUE),  sync |-> TRUE] }
=============================================================================
