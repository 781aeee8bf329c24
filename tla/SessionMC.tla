----------------------------- MODULE SessionMC -----------------------------
(***************************************************************************)
(* Small instances of the numbering: two sockets of alice, one of whose    *)
(* peers also has bob's token, and one goroutine besides the ReadPumps.    *)
(***************************************************************************)
EXTENDS Session
CONSTANTS alice, bob, c1, c2, p1
TwoAccounts == [c \in Conn |-> IF c = c1 THEN User ELSE {alice}]
=============================================================================
