------------------------------ MODULE HubProofs ------------------------------
(***************************************************************************)
(* Theorems about Hub.tla for every set of connections, users, messages    *)
(* and every queue capacity, whichever accounts a peer speaks for in turn. *)
(***************************************************************************)
EXTENDS Hub, TLAPS

\* Where Hub.Run is, and what it holds there.
HubInv ==
  /\ hubAt # "select" => hubConn \in Conn
  /\ hubAt \in {"register", "online", "offline"} => userID[hubConn] # NoUser
  /\ hubAt \in {"register", "online"} => reader[hubConn] \notin {"absent", "gone"}
  /\ hubAt \in {"unregister", "offline"} => reader[hubConn] = "gone"

\* A connection that has identified goes by one of the users it has been, and it
\* has identified before its ReadPump asks the hub to register it.
PeerInv ==
  \A c \in Conn :
    /\ reader[c] = "absent" => userID[c] = NoUser
    /\ userID[c] = NoUser => been[c] = {}
    /\ userID[c] # NoUser => userID[c] \in been[c]
    /\ reader[c] \in {"register", "greet", "await", "replay", "show", "hide"} =>
         userID[c] # NoUser

\* An entry of Hub.clients is filed under a user its connection has been, and if
\* that is still its user, it outlives the ReadPump only until Hub.Run has
\* processed the unregister.
RouteInv ==
  \A u \in User, c \in Conn : clients[u] = c =>
    /\ u \in been[c]
    /\ userID[c] = u /\ reader[c] = "gone" => hubAt = "unregister" /\ hubConn = c

\* A queue is closed at the end of Hub.Run's work on a departed connection.
ClosedInv ==
  \A c \in Conn : closed[c] => c \in Retired

\* The others think a user is online only while the user has a connection, or
\* Hub.Run is about to say otherwise, or a connection has left that account for
\* another.
ToldInv ==
  \A u \in User : told[u] = "online" =>
    \E c \in Conn :
      \/ /\ userID[c] = u
         /\ \/ reader[c] \notin {"absent", "gone"}
            \/ hubAt \in {"unregister", "offline"} /\ hubConn = c
      \/ u \in been[c] /\ userID[c] # u

\* The part of the invariant that says nothing of fan-outs.
ControlInv ==
  /\ HubInv
  /\ PeerInv
  /\ RouteInv
  /\ ClosedInv
  /\ ToldInv

\* Hub.Run fans out only when it is done with a registration, and has no closed
\* queue left to send to but those of connections that changed accounts.
RunInv ==
  /\ hubAt # "select" => todo[Run] = {}
  /\ \A c \in todo[Run] : closed[c] => ChangedAccounts(c)

\* ReadPumps and HTTP handlers hold targets only while they send.
FanInv ==
  /\ \A c \in Conn : todo[c] # {} => reader[c] \in {"reading", "show", "hide"}
  /\ \A m \in Msg : post[m] \notin {"send", "fan"} => todo[m] = {}

\* A message takes the path of its kind.
DirectInv ==
  \A m \in Msg :
    /\ post[m] \in {"online", "lookup", "send", "mark", "receipt"} => Receiver[m] # NoUser
    /\ post[m] = "snapshot" => Receiver[m] = NoUser

IInv ==
  /\ TypeOK
  /\ DirectInv
  /\ ControlInv
  /\ RunInv
  /\ FanInv
  /\ PostsAddressed
  /\ NoticesAddressed

-----------------------------------------------------------------------------
(* Which steps write which variables *)

\* Every action but those of the HTTP handlers leaves their variables alone.
LEMMA PostWriters ==
  ASSUME [Next]_vars
  PROVE  \/ Restart
         \/ \E m \in Msg : PostNext(m)
         \/ UNCHANGED post
<1>1. ASSUME NEW c \in Conn, ReaderNext(c) PROVE Restart \/ UNCHANGED post
  BY <1>1 DEF ReaderNext, Connect, Identify, Greet, ReplayLock, EndReplay, Say, Ping,
     SetStatus, Announce, ReadError, HandOver
<1>2. ASSUME NEW c \in Conn, WriterNext(c) PROVE UNCHANGED post
  BY <1>2 DEF WriterNext, TakeFrame, Tick, WriteLock, WriteDone, WriteError, PumpClosed
<1>3. ASSUME HubNext PROVE Restart \/ UNCHANGED post
  BY <1>3 DEF HubNext, TakeRegister, TakeUnregister, HandOver, Register, EmitOnline,
     Unregister, EmitOffline
<1> QED
  BY <1>1, <1>2, <1>3 DEF Next, vars

\* The registry, the user of a connection and the control state of ReadPump
\* and Hub.Run are written by these actions only.
control == <<clients, userID, been, closed, reader, hubAt, hubConn, told>>

LEMMA ControlWriters ==
  ASSUME [Next]_vars
  PROVE  \/ Restart
         \/ \E c \in Conn : \/ Connect(c) \/ Identify(c) \/ Greet(c) \/ ReplayLock(c)
                            \/ EndReplay(c) \/ SetStatus(c)
                            \/ Announce(c) \/ ReadError(c)
                            \/ TakeRegister(c) \/ TakeUnregister(c)
         \/ Register \/ EmitOnline \/ Unregister \/ EmitOffline
         \/ UNCHANGED control
<1> USE DEF control, names, connVars, hubVars
<1>1. ASSUME NEW p \in Process, NEW c \in Conn, HandOver(p, c)
      PROVE Restart \/ UNCHANGED control
  BY <1>1 DEF HandOver
<1>2. ASSUME NEW c \in Conn, Say(c) \/ Ping(c) PROVE UNCHANGED control
  BY <1>2 DEF Say, Ping
<1>3. ASSUME NEW c \in Conn, WriterNext(c) PROVE UNCHANGED control
  BY <1>3 DEF WriterNext, TakeFrame, Tick, WriteLock, WriteDone, WriteError, PumpClosed
<1>4. ASSUME NEW m \in Msg, PostNext(m) PROVE UNCHANGED control
  BY <1>4 DEF PostNext, Post, CheckOnline, LookUp, SendDirect, MarkDelivered, Receipt,
     Snapshot, SendFrame, Answer, Abort
<1> DEFINE Changed ==
         \/ Restart
         \/ \E c \in Conn : \/ Connect(c) \/ Identify(c) \/ Greet(c) \/ ReplayLock(c)
                            \/ EndReplay(c) \/ SetStatus(c)
                            \/ Announce(c) \/ ReadError(c)
                            \/ TakeRegister(c) \/ TakeUnregister(c)
         \/ Register \/ EmitOnline \/ Unregister \/ EmitOffline
         \/ UNCHANGED control
<1>5. ASSUME NEW c \in Conn, ReaderNext(c) PROVE Changed
  BY <1>1, <1>2, <1>5, c \in Process DEF ReaderNext, Process
<1>6. CASE HubNext
  BY <1>1, <1>6, Run \in Process DEF HubNext, Process
<1>7. CASE UNCHANGED vars
  BY <1>7 DEF vars
<1> HIDE DEF Changed
<1>8. Changed
  BY <1>3, <1>4, <1>5, <1>6, <1>7 DEF Next, Changed
<1> QED
  BY <1>8 DEF Changed

-----------------------------------------------------------------------------
(* Types *)

\* A message never leaves the path of its kind.
LEMMA DirectStep == TypeOK /\ DirectInv /\ [Next]_vars => DirectInv'
<1> SUFFICES ASSUME TypeOK, DirectInv, [Next]_vars PROVE DirectInv'
  OBVIOUS
<1> USE DEF TypeOK, DirectInv
<1>1. CASE Restart
  BY <1>1 DEF Restart
<1>2. ASSUME NEW m \in Msg, PostNext(m) PROVE DirectInv'
  <2>1. CASE Post(m)
    BY <2>1 DEF Post
  <2>2. CASE CheckOnline(m)
    BY <2>2 DEF CheckOnline
  <2>3. CASE LookUp(m)
    BY <2>3 DEF LookUp
  <2>4. CASE SendDirect(m)
    BY <2>4 DEF SendDirect, Abort
  <2>5. CASE MarkDelivered(m)
    BY <2>5 DEF MarkDelivered
  <2>6. CASE Receipt(m)
    BY <2>6 DEF Receipt
  <2>7. CASE Snapshot(m)
    BY <2>7 DEF Snapshot
  <2>8. CASE SendFrame(m)
    BY <2>8 DEF SendFrame, Abort
  <2>9. CASE Answer(m)
    BY <2>9 DEF Answer
  <2> QED
    BY <1>2, <2>1, <2>2, <2>3, <2>4, <2>5, <2>6, <2>7, <2>8, <2>9 DEF PostNext
<1>3. CASE UNCHANGED post
  BY <1>3
<1> QED
  BY <1>1, <1>2, <1>3, PostWriters

\* A queue never holds more than its capacity.
LEMMA OfferBounded ==
  ASSUME send \in [Conn -> 0..SendCap], NEW c \in Conn, Offer(c)
  PROVE  send' \in [Conn -> 0..SendCap]
BY SendCapAssumption DEF Offer, HasRoom

\* Every step keeps the types.
LEMMA TypeStep == TypeOK /\ DirectInv /\ [Next]_vars => TypeOK'
<1> SUFFICES ASSUME TypeOK, DirectInv, [Next]_vars PROVE TypeOK'
  OBVIOUS
<1> USE SendCapAssumption, NameAssumption, PeerAssumption DEF TypeOK, ReaderAt, WriterAt, HubAt, PostAt, Word,
      names, connVars, hubVars, Process
<1>0. Restart => TypeOK'
  BY DEF Restart
<1>1. ASSUME NEW p \in Process, NEW c \in Conn, HandOver(p, c) PROVE TypeOK'
  BY <1>0, <1>1, OfferBounded DEF HandOver
<1>2. ASSUME NEW c \in Conn, Connect(c) PROVE TypeOK'
  BY <1>2 DEF Connect
<1>3. ASSUME NEW c \in Conn, Identify(c) PROVE TypeOK'
  BY <1>3 DEF Identify
<1>4. ASSUME NEW c \in Conn, Greet(c) PROVE TypeOK'
  <2>1. todo' \in [Process -> SUBSET Conn] /\ reader' \in [Conn -> ReaderAt]
    BY <1>4 DEF Greet
  <2> QED
    BY <1>4, <2>1 DEF Greet
<1>29. ASSUME NEW c \in Conn, ReplayLock(c) PROVE TypeOK'
  BY <1>29 DEF ReplayLock
<1>30. ASSUME NEW c \in Conn, EndReplay(c) PROVE TypeOK'
  BY <1>30 DEF EndReplay
<1>5. ASSUME NEW c \in Conn, Say(c) PROVE TypeOK'
  BY <1>5 DEF Say, Everyone, Others
<1>6. ASSUME NEW c \in Conn, Ping(c) PROVE TypeOK'
  BY <1>6 DEF Ping
<1>7. ASSUME NEW c \in Conn, SetStatus(c) PROVE TypeOK'
  BY <1>7 DEF SetStatus, Everyone, Others
<1>8. ASSUME NEW c \in Conn, Announce(c) PROVE TypeOK'
  <2>1. told' \in [User -> Word]
    BY <1>8 DEF Announce
  <2>2. todo' \in [Process -> SUBSET Conn]
    BY <1>8 DEF Announce, Everyone, Others
  <2> QED
    BY <1>8, <2>1, <2>2 DEF Announce
<1>9. ASSUME NEW c \in Conn, ReadError(c) PROVE TypeOK'
  BY <1>9 DEF ReadError
<1>10. ASSUME NEW c \in Conn, TakeFrame(c) PROVE TypeOK'
  BY <1>10 DEF TakeFrame
<1>11. ASSUME NEW c \in Conn, Tick(c) \/ WriteLock(c) \/ WriteDone(c) PROVE TypeOK'
  BY <1>11 DEF Tick, WriteLock, WriteDone
<1>12. ASSUME NEW c \in Conn, WriteError(c) \/ PumpClosed(c) PROVE TypeOK'
  BY <1>12 DEF WriteError, PumpClosed
<1>13. ASSUME NEW c \in Conn, TakeRegister(c) PROVE TypeOK'
  BY <1>13 DEF TakeRegister
<1>14. ASSUME NEW c \in Conn, TakeUnregister(c) PROVE TypeOK'
  BY <1>14 DEF TakeUnregister
<1>15. ASSUME Register PROVE TypeOK'
  BY <1>15 DEF Register
<1>16. ASSUME EmitOnline PROVE TypeOK'
  BY <1>16 DEF EmitOnline, Everyone, Others
<1>17. ASSUME Unregister PROVE TypeOK'
  BY <1>17 DEF Unregister, Without
<1>18. ASSUME EmitOffline PROVE TypeOK'
  BY <1>18 DEF EmitOffline, Everyone, Others
<1>19. ASSUME NEW m \in Msg, Post(m) PROVE TypeOK'
  BY <1>19 DEF Post
<1>20. ASSUME NEW m \in Msg, CheckOnline(m) PROVE TypeOK'
  BY <1>20 DEF CheckOnline
<1>21. ASSUME NEW m \in Msg, LookUp(m) PROVE TypeOK'
  <2>1. todo' \in [Process -> SUBSET Conn]
    BY <1>21 DEF LookUp, DirectInv
  <2>2. post' \in [Msg -> PostAt]
    BY <1>21 DEF LookUp
  <2> QED
    BY <1>21, <2>1, <2>2 DEF LookUp
<1>22. ASSUME NEW m \in Msg, SendDirect(m) PROVE TypeOK'
  <2> PICK c \in {d \in todo[m] : MuFree(d)} :
        \/ closed[c] /\ Abort(m)
        \/ /\ ~closed[c]
           /\ Offer(c)
           /\ todo' = [todo EXCEPT ![m] = {}]
           /\ post' = [post EXCEPT ![m] = "mark"]
           /\ UNCHANGED <<names, closed, reader, writer, hubVars>>
    BY <1>22 DEF SendDirect
  <2> c \in Conn
    OBVIOUS
  <2>1. CASE closed[c]
    BY <2>1 DEF Abort
  <2>2. CASE ~closed[c]
    <3>1. send' \in [Conn -> 0..SendCap]
      BY <2>2, OfferBounded
    <3>2. todo' \in [Process -> SUBSET Conn] /\ post' \in [Msg -> PostAt]
      BY <2>2
    <3> QED
      BY <2>2, <3>1, <3>2
  <2> QED
    BY <2>1, <2>2
<1>23. ASSUME NEW m \in Msg, MarkDelivered(m) PROVE TypeOK'
  BY <1>23 DEF MarkDelivered
<1>24. ASSUME NEW m \in Msg, Receipt(m) PROVE TypeOK'
  BY <1>24 DEF Receipt
<1>25. ASSUME NEW m \in Msg, Snapshot(m) PROVE TypeOK'
  BY <1>25 DEF Snapshot, Everyone, Others
<1>26. ASSUME NEW m \in Msg, SendFrame(m) PROVE TypeOK'
  BY <1>26, OfferBounded DEF SendFrame, Abort
<1>27. ASSUME NEW m \in Msg, Answer(m) PROVE TypeOK'
  BY <1>27 DEF Answer
<1>28. ASSUME UNCHANGED vars PROVE TypeOK'
  BY <1>28 DEF vars
<1> QED
  BY <1>0, <1>1, <1>2, <1>3, <1>4, <1>5, <1>6, <1>7, <1>8, <1>9, <1>10, <1>11, <1>12, <1>13, <1>14, <1>15, <1>16, <1>17, <1>18, <1>19, <1>20, <1>21, <1>22, <1>23, <1>24, <1>25, <1>26, <1>27, <1>28, <1>29, <1>30 DEF Next, ReaderNext, WriterNext, HubNext, PostNext

-----------------------------------------------------------------------------
(* The registry *)

\* The control part of the invariant is inductive.
LEMMA ControlStep ==
  ASSUME TypeOK, TypeOK', ControlInv, [Next]_vars
  PROVE  ControlInv'
<1> USE NameAssumption, PeerAssumption
    DEF TypeOK, ControlInv, HubInv, PeerInv, RouteInv, ClosedInv, ToldInv, Retired, names
<1>1. CASE Restart
  BY <1>1 DEF Restart
<1>2. ASSUME NEW c \in Conn, Connect(c) PROVE ControlInv'
  BY <1>2 DEF Connect, hubVars
<1>3. ASSUME NEW c \in Conn, Identify(c) PROVE ControlInv'
  BY <1>3 DEF Identify, Reading, hubVars
<1>4. ASSUME NEW c \in Conn, Greet(c) PROVE ControlInv'
  BY <1>4 DEF Greet, hubVars
<1>15. ASSUME NEW c \in Conn, ReplayLock(c) \/ EndReplay(c) PROVE ControlInv'
  BY <1>15 DEF ReplayLock, EndReplay, hubVars
<1>5. ASSUME NEW c \in Conn, SetStatus(c) PROVE ControlInv'
  BY <1>5 DEF SetStatus, Hears, Reading, hubVars
<1>6. ASSUME NEW c \in Conn, Announce(c) PROVE ControlInv'
  BY <1>6 DEF Announce
<1>7. ASSUME NEW c \in Conn, ReadError(c) PROVE ControlInv'
  BY <1>7 DEF ReadError, Reading, hubVars
<1>8. ASSUME NEW c \in Conn, TakeRegister(c) PROVE ControlInv'
  BY <1>8 DEF TakeRegister, Selecting
<1>9. ASSUME NEW c \in Conn, TakeUnregister(c) PROVE ControlInv'
  BY <1>9 DEF TakeUnregister, Selecting
<1>10. CASE Register
  BY <1>10 DEF Register, connVars
<1>11. CASE EmitOnline
  BY <1>11 DEF EmitOnline, connVars
<1>12. CASE Unregister
  BY <1>12 DEF Unregister, Owns, Without
<1>13. CASE EmitOffline
  BY <1>13 DEF EmitOffline, connVars
<1>14. CASE UNCHANGED control
  BY <1>14 DEF control
<1> QED
  BY <1>1, <1>2, <1>3, <1>4, <1>5, <1>6, <1>7, <1>8, <1>9, <1>10, <1>11, <1>12, <1>13, <1>14, <1>15, ControlWriters

-----------------------------------------------------------------------------
(* Fan-outs *)

\* A connection stays known by the users it has been until the process restarts,
\* and once its queue is closed it takes no other.
LEMMA BeenGrows ==
  ASSUME TypeOK, ControlInv, [Next]_vars, ~Restart, NEW c \in Conn
  PROVE  /\ been[c] \subseteq been'[c]
         /\ closed[c] => UNCHANGED <<userID[c], been[c]>>
         /\ reader[c] # "reading" => UNCHANGED <<userID[c], been[c]>>
<1>1. ASSUME NEW d \in Conn, Identify(d)
      PROVE  /\ been[c] \subseteq been'[c]
             /\ reader[c] # "reading" => UNCHANGED <<userID[c], been[c]>>
  BY <1>1 DEF Identify, Reading, TypeOK
<1>2. closed[c] => reader[c] # "reading"
  BY DEF ControlInv, ClosedInv, Retired
<1>3. CASE \E d \in Conn : Identify(d)
  BY <1>1, <1>2, <1>3
<1> QED
  BY <1>3, ControlWriters
  DEF Connect, Greet, ReplayLock, EndReplay, SetStatus, Announce, ReadError, TakeRegister,
      TakeUnregister, Register, EmitOnline, Unregister, EmitOffline, names, connVars, control

\* A routed connection has a user, and if its queue is closed it has changed
\* accounts.
LEMMA RoutedIsKnown ==
  ASSUME TypeOK, ControlInv, NEW c \in Everyone
  PROVE  /\ c \in Conn
         /\ userID[c] \in been[c]
         /\ closed[c] => ChangedAccounts(c)
BY NameAssumption
DEF Everyone, TypeOK, ControlInv, PeerInv, RouteInv, ClosedInv, Retired, ChangedAccounts

\* What Hub.Run still has to send to stays open, or had changed accounts.
LEMMA RunStep ==
  ASSUME TypeOK, ControlInv, RunInv, [Next]_vars
  PROVE  RunInv'
<1> USE NameAssumption DEF TypeOK, Process, names, connVars, hubVars
<1>1. CASE Restart
  BY <1>1 DEF Restart, RunInv
<1> SUFFICES ASSUME ~Restart PROVE RunInv'
  BY <1>1
<1>2. ASSUME todo'[Run] \subseteq todo[Run], hubAt' # "select" => hubAt # "select" \/ todo[Run] = {},
             \A c \in todo[Run] : closed'[c] = closed[c]
      PROVE  RunInv'
  <2>1. hubAt' # "select" => todo'[Run] = {}
    BY <1>2 DEF RunInv
  <2>2. ASSUME NEW c \in todo'[Run], closed'[c] PROVE ChangedAccounts(c)'
    <3>1. c \in Conn /\ closed[c] /\ ChangedAccounts(c)
      BY <1>2, <2>2 DEF RunInv
    <3> QED
      BY <3>1, BeenGrows DEF ChangedAccounts
  <2> QED
    BY <2>1, <2>2 DEF RunInv
<1>3. ASSUME NEW p \in Process, NEW c \in Conn, HandOver(p, c) PROVE RunInv'
  BY <1>2, <1>3 DEF HandOver
<1>4. ASSUME NEW c \in Conn,
             \/ Connect(c) \/ Identify(c) \/ Greet(c) \/ ReplayLock(c) \/ EndReplay(c)
             \/ Say(c) \/ Ping(c) \/ SetStatus(c) \/ Announce(c) \/ ReadError(c)
      PROVE  RunInv'
  BY <1>2, <1>4 DEF Connect, Identify, Greet, ReplayLock, EndReplay, Say, Ping, SetStatus,
     Announce, ReadError
<1>5. ASSUME NEW c \in Conn, WriterNext(c) PROVE RunInv'
  BY <1>2, <1>5 DEF WriterNext, TakeFrame, Tick, WriteLock, WriteDone, WriteError, PumpClosed
<1>6. ASSUME NEW c \in Conn, TakeRegister(c) \/ TakeUnregister(c) PROVE RunInv'
  BY <1>2, <1>6 DEF TakeRegister, TakeUnregister, Selecting
<1>7. CASE Register \/ Unregister
  BY <1>2, <1>7 DEF Register, Unregister, RunInv
<1>8. CASE EmitOnline \/ EmitOffline
  <2>1. /\ hubAt' = "select" /\ UNCHANGED <<userID, been, closed>>
        /\ todo'[Run] \subseteq Everyone \/ todo'[Run] = todo[Run]
    BY <1>8 DEF EmitOnline, EmitOffline, Others
  <2>2. ASSUME NEW c \in todo'[Run], closed'[c] PROVE ChangedAccounts(c)'
    <3>1. ChangedAccounts(c)
      BY <2>1, <2>2, RoutedIsKnown DEF RunInv
    <3> QED
      BY <2>1, <3>1 DEF ChangedAccounts
  <2> QED
    BY <2>1, <2>2 DEF RunInv
<1>9. ASSUME NEW m \in Msg, PostNext(m) PROVE RunInv'
  BY <1>2, <1>9 DEF PostNext, Post, CheckOnline, LookUp, SendDirect, MarkDelivered, Receipt,
     Snapshot, SendFrame, Answer, Abort
<1>10. CASE UNCHANGED vars
  BY <1>2, <1>10 DEF vars
<1> QED
  BY <1>3, <1>4, <1>5, <1>6, <1>7, <1>8, <1>9, <1>10 DEF Next, ReaderNext, HubNext

\* Targets are held only while sending.
LEMMA FanStep ==
  ASSUME TypeOK, FanInv, [Next]_vars
  PROVE  FanInv'
<1> USE NameAssumption DEF TypeOK, FanInv, Process, connVars, hubVars
<1>1. CASE Restart
  BY <1>1 DEF Restart
<1>2. ASSUME NEW p \in Process, NEW c \in Conn, HandOver(p, c), ~Restart PROVE FanInv'
  BY <1>2 DEF HandOver
<1>3. ASSUME NEW c \in Conn,
             \/ Connect(c) \/ Identify(c) \/ Greet(c) \/ ReplayLock(c) \/ EndReplay(c)
             \/ Say(c) \/ Ping(c) \/ SetStatus(c) \/ Announce(c) \/ ReadError(c)
      PROVE  FanInv'
  BY <1>3 DEF Connect, Identify, Greet, ReplayLock, EndReplay, Say, Ping, SetStatus, Announce,
     ReadError, Hears, Reading
<1>4. ASSUME NEW c \in Conn, WriterNext(c) PROVE FanInv'
  BY <1>4 DEF WriterNext, TakeFrame, Tick, WriteLock, WriteDone, WriteError, PumpClosed
<1>5. ASSUME NEW c \in Conn, TakeRegister(c) \/ TakeUnregister(c) PROVE FanInv'
  BY <1>5 DEF TakeRegister, TakeUnregister
<1>6. CASE Register \/ Unregister \/ EmitOnline \/ EmitOffline
  BY <1>6 DEF Register, Unregister, EmitOnline, EmitOffline
<1>7. ASSUME NEW m \in Msg, PostNext(m) PROVE FanInv'
  BY <1>7 DEF PostNext, Post, CheckOnline, LookUp, SendDirect, MarkDelivered, Receipt,
     Snapshot, SendFrame, Answer, Abort
<1>8. CASE UNCHANGED vars
  BY <1>8 DEF vars
<1> QED
  BY <1>1, <1>2, <1>3, <1>4, <1>5, <1>6, <1>7, <1>8
  DEF Next, ReaderNext, HubNext

\* Handlers' frames stay addressed: what a target has been, it has been.
LEMMA PostsAddressedStep ==
  ASSUME TypeOK, ControlInv, DirectInv, FanInv, PostsAddressed, [Next]_vars
  PROVE  PostsAddressed'
<1> USE NameAssumption, PeerAssumption DEF TypeOK, Process, names, connVars, hubVars
<1>1. CASE Restart
  BY <1>1 DEF Restart, PostsAddressed
<1> SUFFICES ASSUME ~Restart PROVE PostsAddressed'
  BY <1>1
<1>2. \A c \in Conn : been[c] \subseteq been'[c]
  BY BeenGrows
<1>3. ASSUME \A m \in Msg : todo'[m] \subseteq todo[m] /\ post'[m] = post[m]
      PROVE  PostsAddressed'
  BY <1>2, <1>3 DEF PostsAddressed
<1>4. ASSUME NEW p \in Conn \cup {Run}, NEW c \in Conn, HandOver(p, c) PROVE PostsAddressed'
  BY <1>3, <1>4 DEF HandOver
<1>5. ASSUME NEW c \in Conn,
             \/ Connect(c) \/ Identify(c) \/ Greet(c) \/ ReplayLock(c) \/ EndReplay(c)
             \/ Say(c) \/ Ping(c) \/ SetStatus(c) \/ Announce(c) \/ ReadError(c)
      PROVE  PostsAddressed'
  BY <1>3, <1>5 DEF Connect, Identify, Greet, ReplayLock, EndReplay, Say, Ping, SetStatus,
     Announce, ReadError
<1>6. ASSUME NEW c \in Conn, WriterNext(c) \/ TakeRegister(c) \/ TakeUnregister(c)
      PROVE  PostsAddressed'
  BY <1>3, <1>6 DEF WriterNext, TakeFrame, Tick, WriteLock, WriteDone, WriteError, PumpClosed,
     TakeRegister, TakeUnregister
<1>7. CASE Register \/ Unregister \/ EmitOnline \/ EmitOffline
  BY <1>3, <1>7 DEF Register, Unregister, EmitOnline, EmitOffline
<1>8. ASSUME NEW m \in Msg, PostNext(m) PROVE PostsAddressed'
  <2> SUFFICES ASSUME NEW c \in todo'[m]
               PROVE  \/ post'[m] = "send" /\ Receiver[m] \in been'[c]
                      \/ /\ post'[m] = "fan" /\ Receiver[m] # NoUser
                         /\ Sender[m] \in been'[c]
                      \/ /\ post'[m] = "fan" /\ Receiver[m] = NoUser
                         /\ been'[c] \ {Sender[m]} # {}
    <3>1. \A k \in Msg \ {m} : todo'[k] = todo[k] /\ post'[k] = post[k]
      BY <1>8 DEF PostNext, Post, CheckOnline, LookUp, SendDirect, MarkDelivered, Receipt,
         Snapshot, SendFrame, Answer, Abort
    <3> QED
      BY <3>1, <1>2 DEF PostsAddressed
  <2>1. UNCHANGED been
    BY <1>8 DEF PostNext, Post, CheckOnline, LookUp, SendDirect, MarkDelivered, Receipt,
       Snapshot, SendFrame, Answer, Abort
  <2>2. CASE Post(m) \/ CheckOnline(m) \/ MarkDelivered(m) \/ Answer(m)
    BY <2>2 DEF Post, CheckOnline, MarkDelivered, Answer, FanInv
  <2>3. CASE LookUp(m)
    <3>1. Receiver[m] \in User /\ todo[m] = {}
      BY <2>3 DEF LookUp, DirectInv, FanInv
    <3>2. c = clients[Receiver[m]] /\ c \in Conn /\ post'[m] = "send"
      BY <2>3, <3>1 DEF LookUp
    <3> QED
      BY <2>1, <3>1, <3>2 DEF ControlInv, RouteInv
  <2>4. CASE SendDirect(m)
    BY <2>4 DEF SendDirect, Abort
  <2>5. CASE Receipt(m)
    BY <2>1, <2>5 DEF Receipt, DirectInv, ControlInv, RouteInv
  <2>6. CASE Snapshot(m)
    <3>1. c \in Others(Sender[m]) /\ post'[m] = "fan"
      BY <2>6 DEF Snapshot
    <3>2. Receiver[m] = NoUser
      BY <2>6 DEF Snapshot, DirectInv
    <3> QED
      BY <2>1, <3>1, <3>2, RoutedIsKnown DEF Others
  <2>7. CASE SendFrame(m)
    BY <2>1, <2>7 DEF SendFrame, Abort, PostsAddressed
  <2> QED
    BY <1>8, <2>2, <2>3, <2>4, <2>5, <2>6, <2>7 DEF PostNext
<1>9. CASE UNCHANGED vars
  BY <1>3, <1>9 DEF vars
<1> QED
  BY <1>4, <1>5, <1>6, <1>7, <1>8, <1>9 DEF Next, ReaderNext, HubNext

\* Notices stay addressed: a connection keeps its user while it fans out.
LEMMA NoticesAddressedStep ==
  ASSUME TypeOK, ControlInv, FanInv, NoticesAddressed, [Next]_vars
  PROVE  NoticesAddressed'
<1> USE NameAssumption, PeerAssumption DEF TypeOK, Process, names, connVars, hubVars
<1>1. CASE Restart
  BY <1>1 DEF Restart, NoticesAddressed
<1> SUFFICES ASSUME ~Restart PROVE NoticesAddressed'
  BY <1>1
<1>2. \A c \in Conn : been[c] \subseteq been'[c]
  BY BeenGrows
<1> DEFINE Addressed(c) ==
      \A d \in todo'[c] \ {c} :
        IF reader'[c] \in {"show", "hide"} THEN been'[d] # {} ELSE been'[d] \ {userID'[c]} # {}
<1>3. ASSUME NEW c \in Conn,
             todo'[c] \subseteq todo[c], reader'[c] = reader[c],
             todo'[c] # {} => userID'[c] = userID[c]
      PROVE  Addressed(c)
  BY <1>2, <1>3 DEF NoticesAddressed
<1>4. ASSUME \A c \in Conn : Addressed(c) PROVE NoticesAddressed'
  BY <1>4 DEF NoticesAddressed
<1>5. ASSUME NEW p \in Conn \cup {Run}, NEW c \in Conn, HandOver(p, c)
      PROVE  NoticesAddressed'
  BY <1>3, <1>4, <1>5 DEF HandOver
<1>6. ASSUME NEW c \in Conn,
             \/ Connect(c) \/ Identify(c) \/ ReplayLock(c) \/ EndReplay(c) \/ ReadError(c)
      PROVE  NoticesAddressed'
  <2>1. todo'[c] = {}
    BY <1>6 DEF Connect, Identify, ReplayLock, EndReplay, ReadError, Reading, FanInv
  <2>2. \A d \in Conn \ {c} : UNCHANGED <<todo[d], reader[d], userID[d]>>
    BY <1>6 DEF Connect, Identify, ReplayLock, EndReplay, ReadError
  <2> QED
    BY <1>3, <1>4, <2>1, <2>2
<1>7. ASSUME NEW c \in Conn, Greet(c) \/ Ping(c) PROVE NoticesAddressed'
  <2>1. todo'[c] \subseteq {c}
    BY <1>7 DEF Greet, Ping, FanInv
  <2>2. \A d \in Conn \ {c} : UNCHANGED <<todo[d], reader[d], userID[d]>>
    BY <1>7 DEF Greet, Ping
  <2> QED
    BY <1>3, <1>4, <2>1, <2>2
<1>8. ASSUME NEW c \in Conn, Say(c) \/ SetStatus(c) \/ Announce(c) PROVE NoticesAddressed'
  <2>1. UNCHANGED <<userID, been>> /\ \A d \in Conn \ {c} : UNCHANGED <<todo[d], reader[d]>>
    BY <1>8 DEF Say, SetStatus, Announce
  <2>2. Addressed(c)
    <3>1. CASE SetStatus(c)
      BY <2>1, <3>1, RoutedIsKnown DEF SetStatus
    <3>2. CASE Say(c) \/ Announce(c)
      <4>1. todo'[c] = {} \/ (todo'[c] = Others(userID[c]) /\ reader'[c] = "reading")
        BY <3>2 DEF Say, Announce, Hears, Reading
      <4>2. \A d \in Others(userID[c]) : userID[d] \in been[d] /\ userID[d] # userID[c]
        BY RoutedIsKnown DEF Others
      <4> QED
        BY <2>1, <4>1, <4>2
    <3> QED
      BY <1>8, <3>1, <3>2
  <2> QED
    BY <1>3, <1>4, <2>1, <2>2
<1>9. ASSUME NEW c \in Conn, WriterNext(c) \/ TakeRegister(c) \/ TakeUnregister(c)
      PROVE  NoticesAddressed'
  <2>1. /\ UNCHANGED userID
        /\ \A d \in Conn : todo'[d] = {} \/ UNCHANGED <<todo[d], reader[d]>>
    BY <1>9
    DEF WriterNext, TakeFrame, Tick, WriteLock, WriteDone, WriteError, PumpClosed,
        TakeRegister, TakeUnregister, FanInv
  <2> QED
    BY <1>3, <1>4, <2>1
<1>10. CASE Register \/ Unregister \/ EmitOnline \/ EmitOffline
  BY <1>3, <1>4, <1>10 DEF Register, Unregister, EmitOnline, EmitOffline
<1>11. ASSUME NEW m \in Msg, PostNext(m) PROVE NoticesAddressed'
  <2>1. \A c \in Conn : todo'[c] = todo[c] /\ reader'[c] = reader[c] /\ userID'[c] = userID[c]
    BY <1>11 DEF PostNext, Post, CheckOnline, LookUp, SendDirect, MarkDelivered, Receipt,
       Snapshot, SendFrame, Answer, Abort
  <2> QED
    BY <1>3, <1>4, <2>1
<1>12. CASE UNCHANGED vars
  BY <1>3, <1>4, <1>12 DEF vars
<1> QED
  BY <1>5, <1>6, <1>7, <1>8, <1>9, <1>10, <1>11, <1>12 DEF Next, ReaderNext, HubNext

-----------------------------------------------------------------------------
(* The theorems *)

\* Right after start-up (main.go, NewHub) no connection exists and the inductive
\* invariant holds.
LEMMA InitInv == Init => IInv
BY NameAssumption, PeerAssumption, SendCapAssumption
DEF Init, IInv, TypeOK, DirectInv, ControlInv, HubInv, PeerInv, RouteInv, ClosedInv,
    ToldInv, RunInv, FanInv, PostsAddressed, NoticesAddressed,
    ReaderAt, WriterAt, HubAt, PostAt, Word, Process

\* No step of a ReadPump, of Hub.Run, of a writePump or of a posting handler, and
\* no restart, breaks the inductive invariant.
LEMMA IInvStep == IInv /\ [Next]_vars => IInv'
<1> SUFFICES ASSUME IInv, [Next]_vars PROVE IInv'
  OBVIOUS
<1> USE DEF IInv
<1>1. TypeOK' /\ DirectInv'
  BY TypeStep, DirectStep
<1>2. ControlInv'
  BY <1>1, ControlStep
<1>3. RunInv' /\ FanInv'
  BY RunStep, FanStep
<1>4. PostsAddressed' /\ NoticesAddressed'
  BY PostsAddressedStep, NoticesAddressedStep
<1> QED
  BY <1>1, <1>2, <1>3, <1>4

\* The invariant holds in every reachable state.
THEOREM Invariance == Spec => []IInv
BY InitInv, IInvStep, PTL DEF Spec

\* Types; a queue never holds more than its capacity.
THEOREM TypeCorrect == Spec => []TypeOK
<1>1. IInv => TypeOK
  BY DEF IInv
<1> QED
  BY <1>1, Invariance, PTL

\* Hub.clients leads to a closed queue only from an account the connection has
\* left for another (websocket.go:80-97, 366).
THEOREM RoutesStayLive == Spec => []RoutesAreLive
<1>1. IInv => RoutesAreLive
  BY NameAssumption
  DEF IInv, TypeOK, ControlInv, RouteInv, ClosedInv, Retired, RoutesAreLive
<1> QED
  BY <1>1, Invariance, PTL

\* A ReadPump answering its own peer never panics, Hub.Run only over a connection
\* that changed accounts (websocket.go:77-114, 174-180).
THEOREM OwnersStaySafe == Spec => []OwnersNeverPanic
<1>1. IInv => OwnersNeverPanic
  BY DEF IInv, TypeOK, ControlInv, ClosedInv, Retired, RunInv, FanInv, OwnersNeverPanic
<1> QED
  BY <1>1, Invariance, PTL

\* Frames in flight go only to peers that have held the right account's token,
\* although connections may change accounts in between (websocket.go:201-252, 366).
THEOREM FramesStayAddressed == Spec => []PostsAddressed
<1>1. IInv => PostsAddressed
  BY DEF IInv
<1> QED
  BY <1>1, Invariance, PTL

\* So do the notices of ReadPumps (501-512, 530-545, 606-650).
THEOREM NoticesStayAddressed == Spec => []NoticesAddressed
<1>1. IInv => NoticesAddressed
  BY DEF IInv
<1> QED
  BY <1>1, Invariance, PTL

\* Nobody is left announced online without a connection, but for accounts a
\* connection has left for another (websocket.go:618-650).
THEOREM NoGhosts == Spec => []NoGhostOnline
<1>1. IInv => NoGhostOnline
  BY DEF IInv, ControlInv, ToldInv, NoGhostOnline, Selecting
<1> QED
  BY <1>1, Invariance, PTL

-----------------------------------------------------------------------------
(* Refinement *)

\* A hub that has just started is a registry in which nobody has connected yet.
LEMMA RegistryInit == Init => Reg!Init
BY NameAssumption DEF Init, Reg!Init, Retired, Route

\* The route of a user, entry by entry.
LEMMA RouteIs ==
  ASSUME TypeOK, NEW u \in User
  PROVE  /\ Route[u] \in Conn \cup {NoConn}
         /\ \A c \in Conn : Route[u] = c <=> clients[u] = c /\ userID[c] = u
BY NameAssumption DEF Route, TypeOK

\* Taking a name, in the hub and in the registry.
LEMMA IdentifyIsName ==
  ASSUME IInv, TypeOK', NEW c \in Conn, Identify(c)
  PROVE  \E u \in User : Reg!Name(c, u)
<1> USE NameAssumption, PeerAssumption
<1>1. PICK u \in Holds[c] : userID' = [userID EXCEPT ![c] = u]
  BY DEF Identify
<1>2. u \in User /\ TypeOK /\ UNCHANGED clients
  BY DEF IInv, Identify, hubVars
<1>3. c \notin Retired /\ Retired' = Retired
  BY DEF Identify, Reading, Retired, IInv, TypeOK, hubVars
<1> DEFINE back == clients[u] = c
           After == [v \in User |->
             IF v = u THEN IF back /\ Route[u] = NoConn THEN c ELSE Route[u]
             ELSE IF Route[v] = c THEN NoConn ELSE Route[v]]
<1>4. ASSUME NEW v \in User PROVE Route'[v] = After[v]
  <2>1. CASE v = u
    BY <1>1, <1>2, <2>1 DEF Route, TypeOK
  <2>2. CASE v # u
    BY <1>1, <1>2, <2>2 DEF Route, TypeOK
  <2> QED
    BY <2>1, <2>2
<1>5. Route' = After
  BY <1>4 DEF Route
<1>6. back \in BOOLEAN
  OBVIOUS
<1> QED
  BY <1>1, <1>2, <1>3, <1>5, <1>6 DEF Reg!Name

\* Every step of the hub is a step of the registry or leaves it alone.
LEMMA RegistryStep ==
  ASSUME IInv, TypeOK', [Next]_vars
  PROVE  [Reg!Next]_Reg!vars
<1> USE NameAssumption
<1> DEFINE Same == UNCHANGED <<Route, userID, Retired>>
<1>0. Same => UNCHANGED Reg!vars
  BY DEF Reg!vars
<1>1. CASE Restart
  <2>1. Retired' = Retired \cup {c \in Conn : reader[c] # "absent"}
    BY <1>1 DEF Restart, Retired, IInv, TypeOK, ControlInv, HubInv
  <2>2. ASSUME NEW u \in User, Route[u] # NoConn PROVE Route[u] \in Retired'
    <3>1. Route[u] \in Conn /\ userID[Route[u]] = u
      BY <2>2 DEF Route
    <3>2. reader[Route[u]] # "absent"
      BY <3>1 DEF IInv, ControlInv, PeerInv
    <3> QED
      BY <2>1, <3>1, <3>2
  <2>3. Route' = [u \in User |-> NoConn]
    BY <1>1 DEF Restart, Route
  <2>4. userID' = [c \in Conn |-> NoUser]
    BY <1>1 DEF Restart
  <2>5. Reg!Restart
    BY <2>1, <2>2, <2>3, <2>4 DEF Reg!Restart
  <2> QED
    BY <2>5 DEF Reg!Next
<1>2. ASSUME NEW c \in Conn, Identify(c) PROVE Reg!Next
  BY <1>2, IdentifyIsName DEF Reg!Next
<1>3. ASSUME NEW c \in Conn,
             \/ Connect(c) \/ Greet(c) \/ ReplayLock(c) \/ EndReplay(c) \/ SetStatus(c)
             \/ Announce(c) \/ ReadError(c)
      PROVE  Same
  BY <1>3
  DEF Connect, Greet, ReplayLock, EndReplay, SetStatus, Announce, ReadError, Hears, Reading,
      names, hubVars, Route, Retired, IInv, TypeOK
<1>4. ASSUME NEW c \in Conn, TakeRegister(c) \/ TakeUnregister(c) PROVE Same
  BY <1>4
  DEF TakeRegister, TakeUnregister, Selecting, names, Route, Retired, IInv, TypeOK
<1>5. CASE Register
  <2>1. hubConn \in Conn \ Retired /\ userID[hubConn] \in User
    BY <1>5 DEF Register, IInv, TypeOK, ControlInv, HubInv, Retired
  <2>2. UNCHANGED <<userID, Retired>>
    BY <1>5 DEF Register, names, connVars, Retired
  <2>3. Route' = [Route EXCEPT ![userID[hubConn]] = hubConn]
    BY <1>5, <2>1, <2>2 DEF Register, Route, IInv, TypeOK
  <2>4. Reg!Attach(hubConn)
    BY <2>1, <2>2, <2>3 DEF Reg!Attach
  <2> QED
    BY <2>1, <2>4 DEF Reg!Next
<1>6. CASE Unregister
  <2>1. hubConn \in Conn /\ reader[hubConn] = "gone"
    BY <1>6 DEF Unregister, IInv, ControlInv, HubInv
  <2>2. UNCHANGED userID /\ Retired' = Retired \cup {hubConn}
    BY <1>6, <2>1 DEF Unregister, names, Retired
  <2>3. Route' = [u \in User |-> IF Route[u] = hubConn THEN NoConn ELSE Route[u]]
    BY <1>6, <2>1, <2>2 DEF Unregister, Owns, Without, Route, IInv, TypeOK
  <2>4. Reg!Retire(hubConn)
    BY <2>2, <2>3 DEF Reg!Retire
  <2> QED
    BY <2>1, <2>4 DEF Reg!Next
<1>7. CASE EmitOnline \/ EmitOffline
  <2> Same
    BY <1>7 DEF EmitOnline, EmitOffline, names, connVars, Route, Retired
  <2> QED
    BY <1>0
<1>8. CASE UNCHANGED control
  <2> Same
    BY <1>8 DEF control, Route, Retired
  <2> QED
    BY <1>0
<1> HIDE DEF Same
<1> QED
  BY <1>0, <1>1, <1>2, <1>3, <1>4, <1>5, <1>6, <1>7, <1>8, ControlWriters

\* The hub implements the registry, whichever accounts its peers go by: a late
\* unregister takes no newer route away, and a connection that has left is never
\* routed to again under its name.
THEOREM HubImplementsRegistry == Spec => ImplementsRegistry
<1>1. IInv /\ IInv' /\ [Next]_vars => [Reg!Next]_Reg!vars
  BY RegistryStep DEF IInv
<1> QED
  BY <1>1, RegistryInit, Invariance, PTL DEF Spec, ImplementsRegistry, Reg!Spec

-----------------------------------------------------------------------------
(* Handlers come to an end *)

\* How far a handler still has to go.
Left == [a \in PostAt |->
  CASE a = "idle" -> 8 [] a = "online" -> 7 [] a = "lookup" -> 6 [] a = "send" -> 5
    [] a = "mark" -> 4 [] a = "receipt" -> 3 [] a = "snapshot" -> 3 [] a = "fan" -> 2
    [] a = "done" -> 0 [] a = "aborted" -> 0]

\* A handler that is about to send its direct message has a connection to send
\* it to: what its step can wait for is that connection's client.Mu.
HandlersReady == \A m \in Msg : post[m] = "send" => \E c \in Conn : todo[m] = {c}

\* A step leaves handler m where it is, or brings it nearer to its end.
Advances(m) ==
  \/ UNCHANGED <<post[m], todo[m]>>
  \/ Left[post'[m]] < Left[post[m]]
  \/ post[m] = "fan" /\ UNCHANGED post[m] /\ \E c \in todo[m] : todo'[m] = todo[m] \ {c}

\* What moves a handler brings it nearer to its end, and nothing else touches
\* what it has still to do: neither the hub nor a connection, full or closed, can
\* send it back (websocket.go lines 201-252).
HandlersAdvance == [][\A m \in Msg : Advances(m)]_vars

\* Only handler m writes its place and its targets, unless the process dies.
LEMMA HandlerWriters ==
  ASSUME TypeOK, [Next]_vars, NEW m \in Msg, ~Restart, ~PostNext(m)
  PROVE  UNCHANGED <<post[m], todo[m]>>
<1> USE NameAssumption DEF TypeOK, Process, connVars, hubVars
<1>1. ASSUME NEW p \in Conn \cup {Run}, NEW c \in Conn, HandOver(p, c)
      PROVE UNCHANGED <<post[m], todo[m]>>
  BY <1>1 DEF HandOver
<1>2. ASSUME NEW c \in Conn, ReaderNext(c) PROVE UNCHANGED <<post[m], todo[m]>>
  BY <1>1, <1>2 DEF ReaderNext, Connect, Identify, Greet, ReplayLock, EndReplay, Say, Ping, SetStatus, Announce,
     Hears, Reading, ReadError
<1>3. ASSUME NEW c \in Conn, WriterNext(c) PROVE UNCHANGED <<post[m], todo[m]>>
  BY <1>3 DEF WriterNext, TakeFrame, Tick, WriteLock, WriteDone, WriteError, PumpClosed
<1>4. CASE HubNext
  BY <1>1, <1>4 DEF HubNext, TakeRegister, TakeUnregister, Register, EmitOnline,
     Unregister, EmitOffline
<1>5. ASSUME NEW n \in Msg, PostNext(n), n # m PROVE UNCHANGED <<post[m], todo[m]>>
  BY <1>5 DEF PostNext, Post, CheckOnline, LookUp, SendDirect, MarkDelivered, Receipt,
     Snapshot, SendFrame, Answer, Abort
<1>6. CASE UNCHANGED vars
  BY <1>6 DEF vars
<1> QED
  BY <1>2, <1>3, <1>4, <1>5, <1>6 DEF Next

\* A handler's own step, or the end of the process, brings it nearer to its end.
LEMMA HandlerMoves ==
  ASSUME TypeOK, FanInv, [Next]_vars, NEW m \in Msg
  PROVE  Advances(m)
<1> USE NameAssumption DEF TypeOK, Process
<1>1. CASE Restart
  BY <1>1 DEF Restart, FanInv, Advances, Left, PostAt
<1>2. CASE PostNext(m)
  <2>1. CASE Post(m) \/ CheckOnline(m) \/ LookUp(m) \/ MarkDelivered(m)
    BY <2>1 DEF Post, CheckOnline, LookUp, MarkDelivered, Advances, Left, PostAt
  <2>2. CASE Receipt(m) \/ Snapshot(m) \/ Answer(m)
    BY <2>2 DEF Receipt, Snapshot, Answer, Advances, Left, PostAt
  <2>3. CASE SendDirect(m)
    BY <2>3 DEF SendDirect, Abort, Advances, Left, PostAt
  <2>4. CASE SendFrame(m)
    BY <2>4 DEF SendFrame, Abort, Advances, Left, PostAt
  <2> QED
    BY <1>2, <2>1, <2>2, <2>3, <2>4 DEF PostNext
<1> QED
  BY <1>1, <1>2, HandlerWriters DEF Advances

\* A handler takes its target in one step with the decision to send.
LEMMA ReadyStep ==
  ASSUME TypeOK, DirectInv, HandlersReady, [Next]_vars
  PROVE  HandlersReady'
<1> USE DEF TypeOK, Process
<1> SUFFICES ASSUME NEW m \in Msg, post'[m] = "send"
             PROVE  \E c \in Conn : todo'[m] = {c}
  BY DEF HandlersReady
<1>1. CASE Restart
  BY <1>1 DEF Restart
<1>2. CASE PostNext(m)
  <2>1. LookUp(m)
    BY <1>2 DEF PostNext, Post, CheckOnline, SendDirect, MarkDelivered, Receipt, Snapshot,
       SendFrame, Answer, Abort
  <2>2. Receiver[m] \in User /\ clients[Receiver[m]] \in Conn
    BY <2>1, <1>2, PeerAssumption DEF LookUp, DirectInv
  <2> QED
    BY <2>1, <2>2 DEF LookUp
<1>3. CASE ~Restart /\ ~PostNext(m)
  BY <1>3, HandlerWriters DEF HandlersReady
<1> QED
  BY <1>1, <1>2, <1>3

\* A posting handler never goes back, and always has a target to try while it is
\* to send: once no client.Mu is held for ever (NoReplayHangs, and the deadline of
\* writePump), scheduling is all PostsEnd needs.
THEOREM HandlersGoOn == Spec => []HandlersReady /\ HandlersAdvance
<1>1. Init => TypeOK /\ DirectInv /\ FanInv /\ HandlersReady
  BY InitInv DEF IInv, Init, HandlersReady
<1>2. /\ TypeOK /\ DirectInv /\ FanInv /\ HandlersReady /\ [Next]_vars
      => (TypeOK /\ DirectInv /\ FanInv /\ HandlersReady)'
  BY TypeStep, DirectStep, FanStep, ReadyStep
<1>3. TypeOK /\ FanInv /\ [Next]_vars =>
        [\A m \in Msg : Advances(m)]_vars
  BY HandlerMoves
<1> QED
  BY <1>1, <1>2, <1>3, PTL DEF Spec, HandlersAdvance

=============================================================================
