------------------------------ MODULE Registry ------------------------------
(***************************************************************************)
(* What the hub's connection registry promises, without goroutines,        *)
(* channels or locks: every user has at most one current connection, which *)
(* goes by that user's name, and a connection that has been retired is     *)
(* never routed to again.  Hub.tla is shown to implement it.               *)
(***************************************************************************)
CONSTANTS User, Conn, NoConn, NoUser

VARIABLES
  route,    \* the connection frames for a user go to, or NoConn
  name,     \* the user a connection goes by, or NoUser
  retired   \* connections the registry has finished with

vars == <<route, name, retired>>

Init ==
  /\ route = [u \in User |-> NoConn]
  /\ name = [c \in Conn |-> NoUser]
  /\ retired = {}

\* A connection takes a user's name.  It gives up the route of the name it had;
\* a route it once had under the new one may come back, if nobody else has it.
Name(c, u) ==
  /\ c \notin retired
  /\ name' = [name EXCEPT ![c] = u]
  /\ \E back \in BOOLEAN :
       route' = [v \in User |-> IF v = u THEN IF back /\ route[u] = NoConn THEN c ELSE route[u]
                                ELSE IF route[v] = c THEN NoConn ELSE route[v]]
  /\ UNCHANGED retired

\* A user's newest connection takes over the user's route.
Attach(c) ==
  /\ c \notin retired /\ name[c] # NoUser
  /\ route' = [route EXCEPT ![name[c]] = c]
  /\ UNCHANGED <<name, retired>>

\* A connection goes away and takes with it the route it still owns, and no
\* other: a newer connection of the same user keeps its route.
Retire(c) ==
  /\ route' = [u \in User |-> IF route[u] = c THEN NoConn ELSE route[u]]
  /\ retired' = retired \cup {c}
  /\ UNCHANGED name

\* The process restarts: no route survives, and whatever was connected is gone.
Restart ==
  /\ route' = [u \in User |-> NoConn]
  /\ name' = [c \in Conn |-> NoUser]
  /\ \E S \in SUBSET Conn : retired' = retired \cup S
  /\ \A u \in User : route[u] # NoConn => route[u] \in retired'

Next ==
  \/ \E c \in Conn, u \in User : Name(c, u)
  \/ \E c \in Conn : Attach(c) \/ Retire(c)
  \/ Restart

Spec == Init /\ [][Next]_vars
=============================================================================
