-------------------------------- MODULE Hub --------------------------------
(***************************************************************************)
(* messaging/websocket.go: the hub, its connections and its goroutines.    *)
(*                                                                         *)
(* Goroutines: Hub.Run (one), ReadPump and writePump (one of each per      *)
(* connection), and one HTTP handler per posted message.  A step is what   *)
(* happens between two points where another goroutine can get in: one      *)
(* critical section of h.mu, one channel operation, one database call, or  *)
(* the hand-over of one frame to one connection.                           *)
(*                                                                         *)
(* A frame is only counted: what it says matters to Session.  Presence     *)
(* statuses (a user who is hidden is not announced) are left open, typing  *)
(* timers left out.  h.mu is held for straight-line code only, also where  *)
(* enqueue takes it inside client.Mu; client.Mu is held while its holder   *)
(* writes to a socket, so here it is a lock.                               *)
(***************************************************************************)
EXTENDS Naturals, FiniteSets

CONSTANTS
  Conn,       \* connections the peers open, each at most once
  User,       \* accounts
  Msg,        \* messages posted over HTTP
  NoConn,     \* a missing map entry
  NoUser,     \* a connection that has not identified; no receiver
  Run,        \* the goroutine running Hub.Run
  Holds,      \* Holds[c]: the users whose tokens the peer of c presents, now one,
              \* now another: a socket may identify again
  Talkers,    \* bound: connections whose peers say more than identify
  Sender,     \* Sender[m]: the user who posts m
  Receiver,   \* Receiver[m]: msg.ReceiverID, NoUser for a channel message
  SendCap     \* capacity of Client.Send (256 in the code)

ASSUME SendCapAssumption == SendCap \in Nat \ {0}
ASSUME NameAssumption ==
  /\ NoConn \notin Conn
  /\ NoUser \notin User
  /\ Run \notin Conn \cup Msg
  /\ Conn \cap Msg = {}
ASSUME PeerAssumption ==
  /\ Holds \in [Conn -> SUBSET User]
  /\ Sender \in [Msg -> User]
  /\ Receiver \in [Msg -> User \cup {NoUser}]
  /\ Talkers \subseteq Conn

VARIABLES
  clients,    \* Hub.clients
  userID,     \* Client.UserID
  been,       \* history: the users a connection has identified as
  send,       \* number of frames waiting in Client.Send
  closed,     \* Client.Send has been closed
  reader,     \* where the connection's ReadPump is
  writer,     \* where the connection's writePump is
  hubAt,      \* where Hub.Run is
  hubConn,    \* the client Hub.Run received last
  post,       \* where the HTTP handler of a message is
  todo,       \* connections a goroutine has still to hand its frame to
  told        \* history: the last word the hub sent out about a user

names    == <<userID, been>>
connVars == <<names, send, closed, reader, writer>>
hubVars  == <<clients, hubAt, hubConn, told>>
vars     == <<connVars, hubVars, post, todo>>

Process  == Conn \cup Msg \cup {Run}

ReaderAt == {"absent", "reading", "register", "greet", "await", "replay",
             "show", "hide", "leave", "gone"}
WriterAt == {"off", "idle", "lock", "writing"}
HubAt    == {"select", "register", "online", "unregister", "offline"}
PostAt   == {"idle", "online", "lookup", "send", "mark", "receipt",
             "snapshot", "fan", "done", "aborted"}
Word     == {"none", "online", "offline", "hidden"}

TypeOK ==
  /\ clients \in [User -> Conn \cup {NoConn}]
  /\ userID \in [Conn -> User \cup {NoUser}]
  /\ been \in [Conn -> SUBSET User]
  /\ send \in [Conn -> 0..SendCap]
  /\ closed \in [Conn -> BOOLEAN]
  /\ reader \in [Conn -> ReaderAt]
  /\ writer \in [Conn -> WriterAt]
  /\ hubAt \in HubAt
  /\ hubConn \in Conn \cup {NoConn}
  /\ post \in [Msg -> PostAt]
  /\ todo \in [Process -> SUBSET Conn]
  /\ told \in [User -> Word]

Init ==
  /\ clients = [u \in User |-> NoConn]
  /\ userID = [c \in Conn |-> NoUser]
  /\ been = [c \in Conn |-> {}]
  /\ send = [c \in Conn |-> 0]
  /\ closed = [c \in Conn |-> FALSE]
  /\ reader = [c \in Conn |-> "absent"]
  /\ writer = [c \in Conn |-> "off"]
  /\ hubAt = "select"
  /\ hubConn = NoConn
  /\ post = [m \in Msg |-> "idle"]
  /\ todo = [p \in Process |-> {}]
  /\ told = [u \in User |-> "none"]

-----------------------------------------------------------------------------
(* Frames and fan-outs *)

\* The connections a fan-out goes to, as collected under h.mu: everyone, or
\* everyone but the user it is about.  (A connection with two entries, which has
\* changed accounts, is collected twice in the code; here it gets one frame.)
Everyone == {c \in Conn : \E v \in User : clients[v] = c}

\* Mutant: the comparison with the sender is dropped.
Others_Everyone(u) == Everyone

Others(u) == {c \in Everyone : userID[c] # u}

\* Mutant: one frame too many fits.
HasRoom_OneMore(c) == send[c] <= SendCap

\* The non-blocking send of sendToClient: a full queue drops the frame.
HasRoom(c) == send[c] < SendCap
Offer(c) == send' = [send EXCEPT ![c] = IF HasRoom(c) THEN @ + 1 ELSE @]

\* client.Mu: writePump holds it over a write to the socket (268-274), tryReplay
\* over all of its writes (403-409), enqueue for a moment.
MuFree(c) == writer[c] # "writing" /\ reader[c] # "replay"

\* The process dies (a panic outside an HTTP handler, or a kill) and starts
\* again: sockets, queues and maps are gone, the database is not.
Restart ==
  /\ clients' = [u \in User |-> NoConn]
  /\ userID' = [c \in Conn |-> NoUser]
  /\ been' = [c \in Conn |-> {}]
  /\ send' = [c \in Conn |-> 0]
  /\ closed' = [c \in Conn |-> FALSE]
  /\ reader' = [c \in Conn |-> IF reader[c] = "absent" THEN "absent" ELSE "gone"]
  /\ writer' = [c \in Conn |-> "off"]
  /\ hubAt' = "select"
  /\ hubConn' = NoConn
  /\ post' = [m \in Msg |-> IF post[m] \in {"idle", "done"} THEN post[m] ELSE "aborted"]
  /\ todo' = [p \in Process |-> {}]
  /\ told' = [u \in User |-> "none"]

\* Mutant: a plain channel send, which waits for room instead of dropping.
HandOver_Blocking(p, c) ==
  /\ c \in todo[p] /\ MuFree(c) /\ ~closed[c] /\ HasRoom(c)
  /\ Offer(c)
  /\ todo' = [todo EXCEPT ![p] = @ \ {c}]
  /\ UNCHANGED <<names, closed, reader, writer, hubVars, post>>

\* Goroutine p hands its frame to one more connection of its fan-out, once
\* enqueue has had the connection's lock.  Outside an HTTP handler nothing
\* recovers the panic of a send on a closed channel.
HandOver(p, c) ==
  /\ c \in todo[p] /\ MuFree(c)
  /\ \/ /\ closed[c]
        /\ Restart
     \/ /\ ~closed[c]
        /\ Offer(c)
        /\ todo' = [todo EXCEPT ![p] = @ \ {c}]
        /\ UNCHANGED <<names, closed, reader, writer, hubVars, post>>

-----------------------------------------------------------------------------
(* ReadPump and the handlers it calls *)

\* ReadPump is between two messages, all fan-outs of the last one finished.
Reading(c) == reader[c] = "reading" /\ todo[c] = {}
Hears(c) == Reading(c) /\ c \in Talkers

\* A socket is upgraded and its two pumps start.  (The welcome that follows is the
\* first write on the socket and finds its buffer empty: no step of its own.)
Connect(c) ==
  /\ reader[c] = "absent"
  /\ reader' = [reader EXCEPT ![c] = "reading"]
  /\ writer' = [writer EXCEPT ![c] = "idle"]
  /\ UNCHANGED <<names, send, closed, hubVars, post, todo>>

\* "identify" with a valid token: the client takes its user before it waits
\* for the hub, whatever its user was.
Identify(c) ==
  /\ Reading(c)
  /\ \E u \in Holds[c] :
       /\ userID' = [userID EXCEPT ![c] = u]
       /\ been' = [been EXCEPT ![c] = @ \cup {u}]
  /\ reader' = [reader EXCEPT ![c] = "register"]
  /\ UNCHANGED <<send, closed, writer, hubVars, post, todo>>

\* After the hub took the registration: either there are frames to replay, for
\* which tryReplay waits for client.Mu, or a hello goes through the queue.
Greet(c) ==
  /\ reader[c] = "greet"
  /\ \/ /\ reader' = [reader EXCEPT ![c] = "await"]
        /\ UNCHANGED todo
     \/ /\ reader' = [reader EXCEPT ![c] = "reading"]
        /\ todo' = [todo EXCEPT ![c] = {c}]
  /\ UNCHANGED <<names, send, closed, writer, hubVars, post>>

\* The missed frames are written straight to the socket under the lock.
ReplayLock(c) ==
  /\ reader[c] = "await" /\ MuFree(c)
  /\ reader' = [reader EXCEPT ![c] = "replay"]
  /\ UNCHANGED <<names, send, closed, writer, hubVars, post, todo>>

\* The last write has returned, with or without an error.
EndReplay(c) ==
  /\ reader[c] = "replay"
  /\ reader' = [reader EXCEPT ![c] = "reading"]
  /\ UNCHANGED <<names, send, closed, writer, hubVars, post, todo>>

\* "typing.start", "typing.stop" and "receipt.read": to everyone else.
Say(c) ==
  /\ Hears(c)
  /\ userID[c] # NoUser
  /\ todo' = [todo EXCEPT ![c] = Others(userID[c])]
  /\ UNCHANGED <<connVars, hubVars, post>>

\* "ping": answered on the same connection, identified or not.
Ping(c) ==
  /\ Hears(c)
  /\ todo' = [todo EXCEPT ![c] = {c}]
  /\ UNCHANGED <<connVars, hubVars, post>>

\* "presence" with a status the database accepted: the status goes to everyone,
SetStatus(c) ==
  /\ Hears(c)
  /\ userID[c] # NoUser
  /\ reader' \in {[reader EXCEPT ![c] = "show"], [reader EXCEPT ![c] = "hide"]}
  /\ todo' = [todo EXCEPT ![c] = Everyone]
  /\ UNCHANGED <<names, send, closed, writer, hubVars, post>>

\* and then the others hear that the user is online (not if the status, read
\* again, has become offline) or offline.
Announce(c) ==
  /\ reader[c] \in {"show", "hide"} /\ todo[c] = {}
  /\ reader' = [reader EXCEPT ![c] = "reading"]
  /\ \/ reader[c] = "show" /\ UNCHANGED <<told, todo>>
     \/ /\ told' = [told EXCEPT ![userID[c]] = IF reader[c] = "show" THEN "online" ELSE "hidden"]
        /\ todo' = [todo EXCEPT ![c] = Others(userID[c])]
  /\ UNCHANGED <<names, send, closed, writer, clients, hubAt, hubConn, post>>

\* ReadMessage fails: ReadPump's deferred send on h.unregister begins.
ReadError(c) ==
  /\ Reading(c)
  /\ reader' = [reader EXCEPT ![c] = "leave"]
  /\ UNCHANGED <<names, send, closed, writer, hubVars, post, todo>>

-----------------------------------------------------------------------------
(* writePump *)

\* A frame is taken from the queue, or the 30-second ticker fires: the pump goes
\* for client.Mu.
TakeFrame(c) ==
  /\ writer[c] = "idle" /\ send[c] > 0
  /\ send' = [send EXCEPT ![c] = @ - 1]
  /\ writer' = [writer EXCEPT ![c] = "lock"]
  /\ UNCHANGED <<names, closed, reader, hubVars, post, todo>>

Tick(c) ==
  /\ writer[c] = "idle"
  /\ writer' = [writer EXCEPT ![c] = "lock"]
  /\ UNCHANGED <<names, send, closed, reader, hubVars, post, todo>>

\* client.Mu.Lock(); the frame or the ping is being written.
WriteLock(c) ==
  /\ writer[c] = "lock" /\ MuFree(c)
  /\ writer' = [writer EXCEPT ![c] = "writing"]
  /\ UNCHANGED <<names, send, closed, reader, hubVars, post, todo>>

WriteDone(c) ==
  /\ writer[c] = "writing"
  /\ writer' = [writer EXCEPT ![c] = "idle"]
  /\ UNCHANGED <<names, send, closed, reader, hubVars, post, todo>>

\* A write fails: the pump releases the lock, closes the socket and ends.
WriteError(c) ==
  /\ writer[c] = "writing"
  /\ writer' = [writer EXCEPT ![c] = "off"]
  /\ UNCHANGED <<names, send, closed, reader, hubVars, post, todo>>

\* The queue is closed and empty: the pump writes a close frame and ends.
PumpClosed(c) ==
  /\ writer[c] = "idle" /\ closed[c] /\ send[c] = 0
  /\ writer' = [writer EXCEPT ![c] = "off"]
  /\ UNCHANGED <<names, send, closed, reader, hubVars, post, todo>>

-----------------------------------------------------------------------------
(* Hub.Run *)

\* Run is back at its select, the presence fan-out of the last case finished.
Selecting == hubAt = "select" /\ todo[Run] = {}

\* <-h.register meets the send of handleIdentify.
TakeRegister(c) ==
  /\ Selecting
  /\ reader[c] = "register"
  /\ reader' = [reader EXCEPT ![c] = "greet"]
  /\ hubAt' = "register"
  /\ hubConn' = c
  /\ UNCHANGED <<names, send, closed, writer, clients, told, post, todo>>

\* h.clients[client.UserID] = client
Register ==
  /\ hubAt = "register"
  /\ clients' = [clients EXCEPT ![userID[hubConn]] = hubConn]
  /\ hubAt' = "online"
  /\ UNCHANGED <<connVars, hubConn, told, post, todo>>

\* emitPresenceOnline: nothing for a user whose status is offline.
EmitOnline ==
  /\ hubAt = "online"
  /\ hubAt' = "select"
  /\ hubConn' = NoConn
  /\ \/ UNCHANGED <<told, todo>>
     \/ /\ told' = [told EXCEPT ![userID[hubConn]] = "online"]
        /\ todo' = [todo EXCEPT ![Run] = Others(userID[hubConn])]
  /\ UNCHANGED <<connVars, clients, post>>

\* <-h.unregister meets the deferred send of ReadPump.
TakeUnregister(c) ==
  /\ Selecting
  /\ reader[c] = "leave"
  /\ reader' = [reader EXCEPT ![c] = "gone"]
  /\ hubAt' = "unregister"
  /\ hubConn' = c
  /\ UNCHANGED <<names, send, closed, writer, clients, told, post, todo>>

\* Mutant: the entry is looked up by user only (`existing == client` dropped).
Owns_ByUser(c) == userID[c] # NoUser /\ clients[userID[c]] # NoConn

\* Only the client that still owns its user's entry is removed and its queue
\* closed.
Owns(c) == userID[c] # NoUser /\ clients[userID[c]] = c

\* Mutant: the queue is closed but the entry stays in the map.
Without_Kept(c) == clients

Without(c) == [clients EXCEPT ![userID[c]] = NoConn]

Unregister ==
  /\ hubAt = "unregister"
  /\ \/ /\ Owns(hubConn)
        /\ clients' = Without(hubConn)
        /\ closed' = [closed EXCEPT ![hubConn] = TRUE]
     \/ /\ ~Owns(hubConn)
        /\ UNCHANGED <<clients, closed>>
  /\ \/ /\ userID[hubConn] # NoUser
        /\ hubAt' = "offline"
        /\ UNCHANGED hubConn
     \/ /\ userID[hubConn] = NoUser
        /\ hubAt' = "select"
        /\ hubConn' = NoConn
  /\ UNCHANGED <<names, send, reader, writer, told, post, todo>>

\* Mutant: the offline word is skipped for a hidden user, like the online one.
EmitOffline_Hidden ==
  /\ hubAt = "offline"
  /\ hubAt' = "select"
  /\ hubConn' = NoConn
  /\ UNCHANGED <<connVars, clients, told, todo, post>>

\* emitPresenceOffline, whoever owns the entry now.
EmitOffline ==
  /\ hubAt = "offline"
  /\ hubAt' = "select"
  /\ hubConn' = NoConn
  /\ told' = [told EXCEPT ![userID[hubConn]] = "offline"]
  /\ todo' = [todo EXCEPT ![Run] = Others(userID[hubConn])]
  /\ UNCHANGED <<connVars, clients, post>>

-----------------------------------------------------------------------------
(* SendMessage / postChannelMessage: one HTTP handler per message *)

\* The message is in the database and EmitMessageNew starts.
Post(m) ==
  /\ post[m] = "idle"
  /\ post' = [post EXCEPT ![m] = IF Receiver[m] = NoUser THEN "snapshot" ELSE "online"]
  /\ UNCHANGED <<connVars, hubVars, todo>>

\* _, online := h.clients[msg.ReceiverID]
CheckOnline(m) ==
  /\ post[m] = "online"
  /\ post' = [post EXCEPT ![m] = IF clients[Receiver[m]] = NoConn THEN "done" ELSE "lookup"]
  /\ UNCHANGED <<connVars, hubVars, todo>>

\* The second lookup, in a critical section of its own: the recipient may have
\* left or reconnected since the first.
LookUp(m) ==
  /\ post[m] = "lookup"
  /\ LET c == clients[Receiver[m]] IN
       \/ /\ c = NoConn
          /\ post' = [post EXCEPT ![m] = "done"]
          /\ UNCHANGED todo
       \/ /\ c # NoConn
          /\ post' = [post EXCEPT ![m] = "send"]
          /\ todo' = [todo EXCEPT ![m] = {c}]
  /\ UNCHANGED <<connVars, hubVars>>

\* net/http recovers the panic of a send on a closed channel: the request ends
\* there.
Abort(m) ==
  /\ post' = [post EXCEPT ![m] = "aborted"]
  /\ todo' = [todo EXCEPT ![m] = {}]
  /\ UNCHANGED <<connVars, hubVars>>

\* Mutant: a plain channel send, which waits for room.
SendDirect_Blocking(m) ==
  /\ post[m] = "send"
  /\ \E c \in todo[m] :
       /\ MuFree(c) /\ ~closed[c] /\ HasRoom(c)
       /\ Offer(c)
       /\ todo' = [todo EXCEPT ![m] = {}]
       /\ post' = [post EXCEPT ![m] = "mark"]
       /\ UNCHANGED <<names, closed, reader, writer, hubVars>>

\* sendToClient(recipient, "message.new")
SendDirect(m) ==
  /\ post[m] = "send"
  /\ \E c \in {d \in todo[m] : MuFree(d)} :
       \/ closed[c] /\ Abort(m)
       \/ /\ ~closed[c]
          /\ Offer(c)
          /\ todo' = [todo EXCEPT ![m] = {}]
          /\ post' = [post EXCEPT ![m] = "mark"]
          /\ UNCHANGED <<names, closed, reader, writer, hubVars>>

\* MarkDelivered, whatever became of the frame; its error is ignored, and its row
\* is History's.
MarkDelivered(m) ==
  /\ post[m] = "mark"
  /\ post' = [post EXCEPT ![m] = "receipt"]
  /\ UNCHANGED <<connVars, hubVars, todo>>

\* Mutant: the receipt goes back to the receiver.
Receipt_ToReceiver(m) ==
  /\ post[m] = "receipt"
  /\ post' = [post EXCEPT ![m] = "fan"]
  /\ todo' = [todo EXCEPT ![m] = {clients[Receiver[m]]} \ {NoConn}]
  /\ UNCHANGED <<connVars, hubVars>>

\* sendReceiptDelivered: to the sender's connection, if there is one.
Receipt(m) ==
  /\ post[m] = "receipt"
  /\ post' = [post EXCEPT ![m] = "fan"]
  /\ todo' = [todo EXCEPT ![m] = {clients[Sender[m]]} \ {NoConn}]
  /\ UNCHANGED <<connVars, hubVars>>

\* A channel message goes to every routed connection but the sender's.
Snapshot(m) ==
  /\ post[m] = "snapshot"
  /\ post' = [post EXCEPT ![m] = "fan"]
  /\ todo' = [todo EXCEPT ![m] = Others(Sender[m])]
  /\ UNCHANGED <<connVars, hubVars>>

\* One frame of the handler's last fan-out.
SendFrame(m) ==
  /\ post[m] = "fan"
  /\ \E c \in {d \in todo[m] : MuFree(d)} :
       \/ closed[c] /\ Abort(m)
       \/ /\ ~closed[c]
          /\ Offer(c)
          /\ todo' = [todo EXCEPT ![m] = @ \ {c}]
          /\ UNCHANGED <<names, closed, reader, writer, hubVars, post>>

\* The handler answers 201.
Answer(m) ==
  /\ post[m] = "fan" /\ todo[m] = {}
  /\ post' = [post EXCEPT ![m] = "done"]
  /\ UNCHANGED <<connVars, hubVars, todo>>

-----------------------------------------------------------------------------
ReaderNext(c) ==
  \/ Connect(c) \/ Identify(c) \/ Greet(c) \/ ReplayLock(c) \/ EndReplay(c)
  \/ Say(c) \/ Ping(c) \/ SetStatus(c) \/ Announce(c) \/ ReadError(c)
  \/ \E d \in Conn : HandOver(c, d)

WriterNext(c) ==
  \/ TakeFrame(c) \/ Tick(c) \/ WriteLock(c) \/ WriteDone(c) \/ WriteError(c)
  \/ PumpClosed(c)

HubNext ==
  \/ \E c \in Conn : TakeRegister(c) \/ TakeUnregister(c) \/ HandOver(Run, c)
  \/ Register \/ EmitOnline \/ Unregister \/ EmitOffline

PostNext(m) ==
  \/ Post(m) \/ CheckOnline(m) \/ LookUp(m) \/ SendDirect(m) \/ MarkDelivered(m)
  \/ Receipt(m) \/ Snapshot(m) \/ SendFrame(m) \/ Answer(m)

Next ==
  \/ \E c \in Conn : ReaderNext(c) \/ WriterNext(c)
  \/ HubNext
  \/ \E m \in Msg : PostNext(m)
  \/ Restart

Spec == Init /\ [][Next]_vars

-----------------------------------------------------------------------------
(* Fairness                                                                *)
(*                                                                         *)
(* Every goroutine that can run is scheduled (weak fairness).  A goroutine *)
(* waiting on h.register or h.unregister is served again and again (strong *)
(* fairness): Go's select picks at random among its ready cases and serves *)
(* the senders of one channel in order.  So is one waiting for client.Mu:  *)
(* a Go mutex is handed to a waiter that has been passed over for a        *)
(* millisecond.  writePump's writes end within their 10-second deadline; a *)
(* socket whose peer has gone is pinged, and a ping fails sooner or later; *)
(* a socket the pump has closed fails ReadMessage once the few buffered    *)
(* messages are read.  tryReplay sets no deadline: that its writes end is  *)
(* not assumed here (NoReplayHangs).  Nobody has to connect, speak, post   *)
(* or crash.                                                               *)

PeerHasGone(c)    == reader[c] \in {"leave", "gone"}
GoneIsPinged(c)   == PeerHasGone(c) /\ Tick(c)
GoneIsNoticed(c)  == PeerHasGone(c) /\ WriteError(c)
CloseIsNoticed(c) == writer[c] = "off" /\ ReadError(c)

\* Each of these happens to a connection at most once, so that fairness of them
\* all together is fairness of each.
Departs(c) == CloseIsNoticed(c) \/ TakeUnregister(c) \/ GoneIsNoticed(c)

PumpStep(c) ==
  \/ TakeFrame(c) \/ WriteLock(c) \/ WriteDone(c) \/ WriteError(c) \/ PumpClosed(c)
  \/ GoneIsPinged(c)

ReaderStep(c) ==
  \/ TakeRegister(c) \/ Greet(c) \/ ReplayLock(c) \/ Announce(c)
  \/ \E d \in Conn : HandOver(c, d)

HubStep ==
  \/ Register \/ EmitOnline \/ Unregister \/ EmitOffline
  \/ \E c \in Conn : HandOver(Run, c)

HandlerStep(m) ==
  \/ CheckOnline(m) \/ LookUp(m) \/ SendDirect(m) \/ MarkDelivered(m)
  \/ Receipt(m) \/ Snapshot(m) \/ SendFrame(m) \/ Answer(m)

FairSpec ==
  /\ Spec
  /\ SF_vars(HubStep)
  /\ SF_vars(\E c \in Conn : Departs(c))
  /\ \A c \in Conn :
       /\ WF_vars(PumpStep(c))
       /\ SF_vars(ReaderStep(c))

\* Only the HTTP handlers and the writePumps are scheduled: Hub.Run and the
\* ReadPumps may stop for good.
HandlersSpec ==
  /\ Spec
  /\ \A m \in Msg : SF_vars(HandlerStep(m))
  /\ \A c \in Conn : WF_vars(PumpStep(c))

-----------------------------------------------------------------------------
(* Safety *)

\* A socket that identifies again with another account's token keeps its entry
\* under the first account.
ChangedAccounts(c) == \E u \in been[c] : u # userID[c]

\* Hub.clients never leads to a queue Hub.Run has closed (lines 80-97), whoever
\* takes over from whom, except from an account its connection has left for
\* another: that entry survives the unregister.
RoutesAreLive ==
  \A u \in User :
    clients[u] # NoConn /\ closed[clients[u]] => userID[clients[u]] # u

\* A ReadPump's reply to its own connection never meets a closed queue, for a
\* queue is closed only after its ReadPump has ended.  Hub.Run's own fan-outs do
\* so only at a connection that has changed accounts: Run is the only closer and
\* never closes during a fan-out.
OwnersNeverPanic ==
  /\ \A c \in todo[Run] : closed[c] => ChangedAccounts(c)
  /\ \A c \in Conn : c \in todo[c] => ~closed[c]

\* Between the look-up of Hub.clients and the hand-over of the last frame (lines
\* 201-252) connections come, go, and change their account (366), so a frame may
\* reach a socket that has become another account's.  But a direct message goes
\* only to a peer that has held a token of its receiver, its receipt to one of
\* its sender, a channel message to one of somebody else than its sender.
PostsAddressed ==
  \A m \in Msg : \A c \in todo[m] :
    \/ post[m] = "send" /\ Receiver[m] \in been[c]
    \/ post[m] = "fan" /\ Receiver[m] # NoUser /\ Sender[m] \in been[c]
    \/ post[m] = "fan" /\ Receiver[m] = NoUser /\ been[c] \ {Sender[m]} # {}

\* Likewise the notices of ReadPumps (501-512, 530-545, 606-650): they go to
\* peers that have identified, and unless they are a status never to one that has
\* only been the user they are about.
NoticesAddressed ==
  \A c \in Conn : \A d \in todo[c] \ {c} :
    IF reader[c] \in {"show", "hide"} THEN been[d] # {} ELSE been[d] \ {userID[c]} # {}

\* Whenever Hub.Run is back at its select, a user the others were last told is
\* online has a connection, though perhaps one that another has taken over; the
\* only exception is a user whose connection has become another account's, of
\* which nothing is ever said.
NoGhostOnline ==
  \A u \in User : Selecting /\ told[u] = "online" =>
    \E c \in Conn :
      \/ userID[c] = u /\ reader[c] \notin {"absent", "gone"}
      \/ u \in been[c] /\ userID[c] # u

\* The registry as its callers see it.  An entry counts while its connection
\* still goes by that name; a connection is finished with when Hub.Run has
\* processed its unregister.
Route == [u \in User |->
  IF \E c \in Conn : clients[u] = c /\ userID[c] = u THEN clients[u] ELSE NoConn]
Retired == {c \in Conn : reader[c] = "gone" /\ ~(hubAt = "unregister" /\ hubConn = c)}
Reg == INSTANCE Registry WITH route <- Route, name <- userID, retired <- Retired

\* Hub.Run implements the registry: an unregister that comes late does not
\* unseat a newer connection of the same user, and a connection that has left
\* never comes back as a route under its name.
ImplementsRegistry == Reg!Spec

-----------------------------------------------------------------------------
(* Liveness *)

\* What the code does not ensure: a replay writes to its socket under client.Mu
\* with no deadline of its own (403-409), so a peer that stops reading can hold
\* the lock, and whoever sends to that connection, for ever.
NoReplayHangs == \A c \in Conn : []<>(reader[c] # "replay")

\* A ReadPump waiting on the hub gets on, as long as no replay hangs: neither
\* full queues nor slow writes hold Hub.Run for good.
HubAnswers ==
  NoReplayHangs =>
    \A c \in Conn : reader[c] \in {"register", "leave"} ~> reader[c] \notin {"register", "leave"}

\* The entry of a connection that is leaving is removed (or taken over), as long
\* as no replay hangs.
RouteIsCleared ==
  NoReplayHangs => \A c \in Conn : (reader[c] = "leave" /\ Owns(c)) ~> ~Owns(c)

\* When one pump of a connection has ended, so does the other, as long as no
\* replay hangs.
PumpsEndTogether ==
  NoReplayHangs =>
    \A c \in Conn :
      (reader[c] = "gone" \/ (reader[c] # "absent" /\ writer[c] = "off"))
        ~> (reader[c] = "gone" /\ writer[c] = "off")

\* A posted message's handler comes to an end even if Hub.Run and the ReadPumps
\* stand still, as long as they do not stand in a replay: full queues do not
\* hold it up, and a slow write only for its deadline.
PostsEnd ==
  NoReplayHangs => \A m \in Msg : post[m] # "idle" ~> post[m] \in {"done", "aborted"}

-----------------------------------------------------------------------------
(* Stated by the repository, refuted by the code *)

\* README.md:46: "WebSocket hub for real-time messages, presence, and typing
\* indicators".  A ReadPump fanning out a typing or read notice never sends on
\* a queue that has been closed (the panic ends the whole process).
NoticesNeverPanic == \A c, d \in Conn : d \in todo[c] => ~closed[d]

=============================================================================
