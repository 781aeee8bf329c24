------------------------------- MODULE HubMC -------------------------------
(***************************************************************************)
(* Small instances of the hub: one or two sockets, of one account each or  *)
(* with one that changes accounts; two posted messages; queues of one      *)
(* frame.                                                                  *)
(***************************************************************************)
EXTENDS Hub

CONSTANTS alice, bob, a1, b1, m1, m2

\* alice and bob have a socket each.
OneEach == [c \in Conn |-> IF c = a1 THEN {alice} ELSE {bob}]

\* The first socket presents now alice's token, now bob's, so that bob may have
\* two.
Sockets == [c \in Conn |-> IF c = a1 THEN {alice, bob} ELSE {bob}]

\* bob posts: m1 to alice, m2 to a channel.
SenderOf == [m \in Msg |-> bob]
ReceiverOf == [m \in Msg |-> IF m = m1 THEN alice ELSE NoUser]
=============================================================================
