------------------------------ MODULE DirectMC ------------------------------
(***************************************************************************)
(* Three users, of whom bob belongs to both workspaces and carol may join; *)
(* two requests that may race for one pair's channel, and two messages.    *)
(***************************************************************************)
EXTENDS Direct, TLC
CONSTANTS alice, bob, carol, w1, w2, general, other, d1, d2, m1, m2, r1, r2

Homes   == [c \in Public |-> IF c = general THEN w1 ELSE w2]
Members == {<<alice, w1>>, <<bob, w1>>, <<bob, w2>>}
Pairs   == {{alice, bob}, {bob, carol}}
Sent(v, u, t, c) == [via |-> v, by |-> u, to |-> t, chan |-> c]

\* m1 goes into a channel, perhaps with a receiver; m2 the older way.
Forms == [m \in Msg |->
  IF m = m1 THEN {Sent("channel", bob, t, c) : t \in {NoUser, carol}, c \in {general} \cup Dm}
  ELSE {Sent("messages", alice, bob, NoChan)}
       \cup {Sent("messages", alice, NoUser, c) : c \in {{alice, bob}, {bob, carol}} \cup Dm}]

Requests == Permutations(Req) \cup Permutations(Dm)
=============================================================================
