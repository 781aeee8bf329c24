------------------------------ MODULE Session ------------------------------
(***************************************************************************)
(* messaging/websocket.go: how frames are numbered, kept and replayed.     *)
(*                                                                         *)
(* Every frame gets the next number of its connection (Client.seq) and is  *)
(* kept for its account (Hub.sessionBuf); a peer that reconnects names the *)
(* last number it saw and is sent what came after.  A goroutine that sends *)
(* a frame chooses the connection, numbers the frame under client.Mu,      *)
(* keeps it under h.mu (still holding client.Mu), and only then offers it  *)
(* to the queue: four steps that others interleave with.                   *)
(*                                                                         *)
(* client.Mu is modelled as a lock, because enqueue holds it until the     *)
(* frame is kept and a replay while it writes to the socket.  A critical   *)
(* section of h.mu is one step; so is one of writePump, which holds        *)
(* client.Mu for a write with a deadline and changes nothing here.         *)
(***************************************************************************)
EXTENDS Naturals, Sequences

CONSTANTS
  Conn,             \* connections the peers open, each at most once
  User,             \* accounts
  Post,             \* the other goroutines that send frames: Hub.Run, HTTP
                    \* handlers, typing timers
  NoConn, NoUser,   \* a missing map entry; an empty Client.UserID
  Free,             \* client.Mu is not held
  Holds,            \* Holds[c]: the accounts whose tokens the peer of c has
  MaxReplayBuffer,  \* 500 in the code
  MaxReplayGap,     \* 200 in the code
  MaxSeq,           \* bound: no frame is started for a connection beyond it
  Again,            \* bound: connections that may identify more than once
  Talkers           \* bound: connections whose peers ping

ASSUME SizeAssumption ==
  /\ MaxReplayBuffer \in Nat \ {0}
  /\ MaxReplayGap \in Nat \ {0}
  /\ MaxSeq \in Nat
ASSUME NameAssumption ==
  /\ NoConn \notin Conn
  /\ NoUser \notin User
  /\ Conn \cap Post = {}
  /\ Free \notin Conn \cup Post
  /\ Holds \in [Conn -> SUBSET User]
  /\ Again \subseteq Conn /\ Talkers \subseteq Conn

VARIABLES
  route,     \* Hub.clients
  taken,     \* the client Hub.Run has received and not yet put in Hub.clients
  userID,    \* Client.UserID
  seq,       \* Client.seq
  buf,       \* Hub.sessionBuf
  mu,        \* who holds client.Mu
  reader,    \* where the connection's ReadPump is
  asked,     \* last_seq of the last identify
  replay,    \* what tryReplay has still to write: frames and their places
  task,      \* where a goroutine sending one frame is
  target,    \* the connection it sends to
  frame,     \* the number it was given
  latest,    \* history: the connection that last read the account's buffer and
             \* still has that account
  split      \* history: a frame was numbered for the account on another connection,
             \* or kept after that connection had read the buffer

lineVars == <<seq, buf, mu, task, target, frame, split>>
pathVars == <<route, taken, userID, reader, asked, latest>>
vars     == <<lineVars, pathVars, replay>>

Process  == Conn \cup Post
Frame    == [seq : Nat, by : Conn]
ReaderAt == {"absent", "reading", "named", "register", "greet", "lock", "writing", "gone"}
TaskAt   == {"idle", "number", "keep", "send"}

TypeOK ==
  /\ route \in [User -> Conn \cup {NoConn}]
  /\ taken \in Conn \cup {NoConn}
  /\ userID \in [Conn -> User \cup {NoUser}]
  /\ seq \in [Conn -> Nat]
  /\ buf \in [User -> Seq(Frame)]
  /\ mu \in [Conn -> Process \cup {Free}]
  /\ reader \in [Conn -> ReaderAt]
  /\ asked \in [Conn -> Nat]
  /\ replay \in [Conn -> SUBSET (Nat \X Frame)]
  /\ task \in [Process -> TaskAt]
  /\ target \in [Process -> Conn \cup {NoConn}]
  /\ frame \in [Process -> Nat]
  /\ latest \in [User -> Conn \cup {NoConn}]
  /\ split \in [User -> BOOLEAN]

Init ==
  /\ route = [u \in User |-> NoConn]
  /\ taken = NoConn
  /\ userID = [c \in Conn |-> NoUser]
  /\ seq = [c \in Conn |-> 0]
  /\ buf = [u \in User |-> <<>>]
  /\ mu = [c \in Conn |-> Free]
  /\ reader = [c \in Conn |-> "absent"]
  /\ asked = [c \in Conn |-> 0]
  /\ replay = [c \in Conn |-> {}]
  /\ task = [p \in Process |-> "idle"]
  /\ target = [p \in Process |-> NoConn]
  /\ frame = [p \in Process |-> 0]
  /\ latest = [u \in User |-> NoConn]
  /\ split = [u \in User |-> FALSE]

-----------------------------------------------------------------------------
(* Sending one frame: sendToClient and enqueue *)

Aim(p, c) ==
  /\ task' = [task EXCEPT ![p] = "number"]
  /\ target' = [target EXCEPT ![p] = c]

\* A fan-out has collected a routed connection under h.mu.
Collect(p) ==
  /\ task[p] = "idle"
  /\ \E u \in User :
       /\ route[u] # NoConn
       /\ seq[route[u]] < MaxSeq
       /\ Aim(p, route[u])
  /\ UNCHANGED <<seq, buf, mu, frame, split, pathVars, replay>>

\* ReadPump is between two messages of its peer.
Reading(c) == reader[c] = "reading" /\ task[c] = "idle"

\* A pong, to a connection that may not have identified yet.
Reply(c) ==
  /\ Reading(c) /\ c \in Talkers
  /\ seq[c] < MaxSeq
  /\ Aim(c, c)
  /\ UNCHANGED <<seq, buf, mu, frame, split, pathVars, replay>>

\* Mutant: enqueue does not take client.Mu.
Number_NoLock(p) ==
  /\ task[p] = "number"
  /\ LET c == target[p] IN
       /\ seq' = [seq EXCEPT ![c] = @ + 1]
       /\ frame' = [frame EXCEPT ![p] = seq[c] + 1]
       /\ task' = [task EXCEPT ![p] = "keep"]
       /\ split' = [u \in User |-> split[u] \/ (userID[c] = u /\ latest[u] # c)]
  /\ UNCHANGED <<buf, mu, target, pathVars, replay>>

\* enqueue takes client.Mu, and the frame its number.
Number(p) ==
  /\ task[p] = "number"
  /\ LET c == target[p] IN
       /\ mu[c] = Free
       /\ mu' = [mu EXCEPT ![c] = p]
       /\ seq' = [seq EXCEPT ![c] = @ + 1]
       /\ frame' = [frame EXCEPT ![p] = seq[c] + 1]
       /\ task' = [task EXCEPT ![p] = "keep"]
       /\ split' = [u \in User |-> split[u] \/ (userID[c] = u /\ latest[u] # c)]
  /\ UNCHANGED <<buf, target, pathVars, replay>>

\* The frames a buffer keeps: the newest MaxReplayBuffer.
Trim(s) == IF Len(s) > MaxReplayBuffer THEN Tail(s) ELSE s

Kept(u, f) == Trim(Append(buf[u], f))

\* Mutant: the buffer of the empty account is written too.
Keep_Anybody(p) ==
  /\ task[p] = "keep"
  /\ LET c == target[p] IN
       /\ buf' = [u \in User \cup {userID[c]} |->
                   IF u = userID[c] /\ u # NoUser THEN Kept(u, [seq |-> frame[p], by |-> c])
                   ELSE IF u = NoUser THEN <<[seq |-> frame[p], by |-> c]>> ELSE buf[u]]
       /\ mu' = [mu EXCEPT ![c] = Free]
  /\ task' = [task EXCEPT ![p] = "send"]
  /\ UNCHANGED <<seq, target, frame, split, pathVars, replay>>

\* Still under client.Mu, the frame is kept for the account of the connection.
Keep(p) ==
  /\ task[p] = "keep"
  /\ LET c == target[p] IN
       /\ buf' = [u \in User |-> IF u = userID[c] THEN Kept(u, [seq |-> frame[p], by |-> c])
                                                  ELSE buf[u]]
       /\ mu' = [mu EXCEPT ![c] = Free]
  /\ task' = [task EXCEPT ![p] = "send"]
  /\ UNCHANGED <<seq, target, frame, split, pathVars, replay>>

\* The non-blocking send on the queue (its capacity, and the panic of a closed
\* queue, are Hub's subject).
Offer(p) ==
  /\ task[p] = "send"
  /\ task' = [task EXCEPT ![p] = "idle"]
  /\ target' = [target EXCEPT ![p] = NoConn]
  /\ frame' = [frame EXCEPT ![p] = 0]
  /\ UNCHANGED <<seq, buf, mu, split, pathVars, replay>>

-----------------------------------------------------------------------------
(* identify *)

Connect(c) ==
  /\ reader[c] = "absent"
  /\ reader' = [reader EXCEPT ![c] = "reading"]
  /\ UNCHANGED <<lineVars, route, taken, userID, asked, latest, replay>>

\* A valid token: the connection takes its account, perhaps not its first.
TakeName(c) ==
  /\ Reading(c)
  /\ userID[c] = NoUser \/ c \in Again
  /\ \E u \in Holds[c], n \in 0..MaxSeq :
       /\ buf[u] # <<>> => buf[u][Len(buf[u])].seq <= MaxSeq
       /\ userID' = [userID EXCEPT ![c] = u]
       /\ asked' = [asked EXCEPT ![c] = n]
       /\ split' = [split EXCEPT ![u] = @ \/ (userID[c] # u /\ \E p \in Process :
                                                task[p] = "keep" /\ target[p] = c)]
       /\ latest' = [v \in User |-> IF v # u /\ latest[v] = c THEN NoConn ELSE latest[v]]
  /\ reader' = [reader EXCEPT ![c] = "named"]
  /\ UNCHANGED <<seq, buf, mu, task, target, frame, route, taken, replay>>

\* Mutant: numbering goes on after the first kept frame, not the last.
ReadLast_First(c) ==
  /\ reader[c] = "named"
  /\ LET u == userID[c] IN
       /\ seq' = [seq EXCEPT ![c] = IF buf[u] # <<>> THEN buf[u][1].seq ELSE @]
       /\ latest' = [latest EXCEPT ![u] = c]
       /\ split' = [split EXCEPT ![u] = @ \/ \E p \in Process :
                                               task[p] = "keep" /\ userID[target[p]] = u]
  /\ reader' = [reader EXCEPT ![c] = "register"]
  /\ UNCHANGED <<buf, mu, task, target, frame, route, taken, userID, asked, replay>>

\* Under h.mu, but not client.Mu: numbering goes on after the account's last
\* kept frame.
ReadLast(c) ==
  /\ reader[c] = "named"
  /\ LET u == userID[c]
         n == Len(buf[u]) IN
       /\ seq' = [seq EXCEPT ![c] = IF n > 0 THEN buf[u][n].seq ELSE @]
       /\ latest' = [latest EXCEPT ![u] = c]
       /\ split' = [split EXCEPT ![u] = @ \/ \E p \in Process :
                                               task[p] = "keep" /\ userID[target[p]] = u]
  /\ reader' = [reader EXCEPT ![c] = "register"]
  /\ UNCHANGED <<buf, mu, task, target, frame, route, taken, userID, asked, replay>>

\* The frames of s at the places I, with their places.
At(s, I) == {<<i, s[i]>> : i \in I}

\* What the peer has not seen.
Missed(c) ==
  LET b == buf[userID[c]] IN At(b, {i \in DOMAIN b : b[i].seq > asked[c]})

\* The first of m, and m without it.
First(m) == CHOOSE x \in m : \A y \in m : x[1] <= y[1]
Rest(m)  == m \ {First(m)}

\* <-h.register meets the send of handleIdentify.
TakeRegister(c) ==
  /\ reader[c] = "register" /\ taken = NoConn
  /\ taken' = c
  /\ reader' = [reader EXCEPT ![c] = "greet"]
  /\ UNCHANGED <<lineVars, route, userID, asked, latest, replay>>

\* h.clients[client.UserID] = client; identify does not wait for it.
Register ==
  /\ taken # NoConn
  /\ route' = [route EXCEPT ![userID[taken]] = taken]
  /\ taken' = NoConn
  /\ UNCHANGED <<lineVars, userID, reader, asked, latest, replay>>

\* tryReplay finds something to replay that begins soon enough after last_seq.
CanReplay(c) ==
  /\ asked[c] > 0
  /\ Missed(c) # {}
  /\ First(Missed(c))[2].seq <= asked[c] + MaxReplayGap

\* A replay is prepared from a copy of the buffer, or a hello is sent.
Greet(c) ==
  /\ reader[c] = "greet"
  /\ \/ /\ CanReplay(c)
        /\ replay' = [replay EXCEPT ![c] = Missed(c)]
        /\ reader' = [reader EXCEPT ![c] = "lock"]
        /\ UNCHANGED <<task, target>>
     \/ /\ ~CanReplay(c)
        /\ reader' = [reader EXCEPT ![c] = "reading"]
        /\ Aim(c, c)
        /\ UNCHANGED replay
  /\ UNCHANGED <<seq, buf, mu, frame, split, route, taken, userID, asked, latest>>

\* tryReplay takes client.Mu for all its writes.
ReplayLock(c) ==
  /\ reader[c] = "lock" /\ mu[c] = Free
  /\ mu' = [mu EXCEPT ![c] = c]
  /\ reader' = [reader EXCEPT ![c] = "writing"]
  /\ UNCHANGED <<seq, buf, task, target, frame, split, route, taken, userID, asked, latest,
                 replay>>

\* One more frame straight to the socket; after the last, client.Mu is free.
ReplayWrite(c) ==
  /\ reader[c] = "writing"
  /\ replay' = [replay EXCEPT ![c] = Rest(@)]
  /\ IF Rest(replay[c]) = {}
     THEN /\ mu' = [mu EXCEPT ![c] = Free]
          /\ reader' = [reader EXCEPT ![c] = "reading"]
     ELSE UNCHANGED <<mu, reader>>
  /\ UNCHANGED <<seq, buf, task, target, frame, split, route, taken, userID, asked, latest>>

-----------------------------------------------------------------------------
(* The end of a connection, and of the process *)

\* The socket fails; ReadPump ends and Hub.Run takes its unregister.
Leave(c) ==
  /\ Reading(c) /\ taken = NoConn
  /\ reader' = [reader EXCEPT ![c] = "gone"]
  /\ LET u == userID[c] IN
       route' = IF u # NoUser /\ route[u] = c THEN [route EXCEPT ![u] = NoConn] ELSE route
  /\ UNCHANGED <<lineVars, taken, userID, asked, latest, replay>>

\* The process dies and starts again.
Restart ==
  /\ route' = [u \in User |-> NoConn]
  /\ taken' = NoConn
  /\ userID' = [c \in Conn |-> NoUser]
  /\ seq' = [c \in Conn |-> 0]
  /\ buf' = [u \in User |-> <<>>]
  /\ mu' = [c \in Conn |-> Free]
  /\ reader' = [c \in Conn |-> IF reader[c] = "absent" THEN "absent" ELSE "gone"]
  /\ asked' = [c \in Conn |-> 0]
  /\ replay' = [c \in Conn |-> {}]
  /\ task' = [p \in Process |-> "idle"]
  /\ target' = [p \in Process |-> NoConn]
  /\ frame' = [p \in Process |-> 0]
  /\ latest' = [u \in User |-> NoConn]
  /\ split' = [u \in User |-> FALSE]

Sending(p) == Number(p) \/ Keep(p) \/ Offer(p)
Identifying(c) ==
  ReadLast(c) \/ Greet(c) \/ ReplayLock(c) \/ ReplayWrite(c)

Next ==
  \/ \E p \in Process : Sending(p)
  \/ \E p \in Post : Collect(p)
  \/ \E c \in Conn : \/ Connect(c) \/ TakeName(c) \/ Identifying(c) \/ TakeRegister(c)
                     \/ Reply(c) \/ Leave(c)
  \/ Register
  \/ Restart

Spec == Init /\ [][Next]_vars

-----------------------------------------------------------------------------
(* Safety *)

\* Numbers advance with places.
Contiguous(s) == \A i, j \in DOMAIN s : s[j].seq + i = s[i].seq + j

\* What is to be written goes up, and misses no number in between.
NoHole(m) == \A x, y \in m :
  /\ x[1] < y[1] <=> x[2].seq < y[2].seq
  /\ \A n \in x[2].seq .. y[2].seq : \E z \in m : z[2].seq = n

\* The frames kept for an account bear consecutive numbers (lines 149-172 and
\* 369-374), whichever goroutines number at the same time and however often the
\* peer reconnects, as long as only the connection that identified last numbers
\* for it.
NumbersContiguous == \A u \in User : ~split[u] => Contiguous(buf[u])

\* What a replay writes is then without a hole inside.
ReplayContiguous ==
  \A c \in Conn : userID[c] \in User /\ ~split[userID[c]] => NoHole(replay[c])

=============================================================================
