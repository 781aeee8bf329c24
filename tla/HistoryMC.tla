----------------------------- MODULE HistoryMC -----------------------------
(***************************************************************************)
(* Three messages of two seconds in one channel, a fourth in another one,  *)
(* and the sockets of two readers.                                         *)
(***************************************************************************)
EXTENDS History
CONSTANTS alice, bob, carol, general, other, m1, m2, m3, m4, s1, s2

Senders   == [m \in Message |-> IF m = m3 THEN bob ELSE alice]
Channels  == [m \in Message |-> IF m = m4 THEN other ELSE general]
Receivers == [m \in Message |-> IF m = m2 THEN bob ELSE NoUser]
Accounts  == [s \in Socket |-> IF s = s1 THEN bob ELSE carol]
PageSizes == {-1, 2}
=============================================================================
