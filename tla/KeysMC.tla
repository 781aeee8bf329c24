------------------------------- MODULE KeysMC -------------------------------
(***************************************************************************)
(* Two keys that come and go and three calls, for longer than a withdrawn  *)
(* key may stay in the cache.                                              *)
(***************************************************************************)
EXTENDS Keys, TLC
CONSTANTS k1, k2, c1, c2, c3

Alike == Permutations({k1, k2}) \cup Permutations({c1, c2, c3})
=============================================================================
