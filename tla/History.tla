------------------------------ MODULE History ------------------------------
(***************************************************************************)
(* The message store: rows written with a second's stamp, the two kinds of *)
(* receipts, and a channel's history read page by page while messages are  *)
(* still being written (messaging/service.go, messaging/receipts.go and    *)
(* the handlers that page).                                                *)
(*                                                                         *)
(* Each SQL statement is a step; one that fails alone changes nothing and  *)
(* is no step.  Rows are never deleted and their stamp never changes.      *)
(***************************************************************************)
EXTENDS FiniteSets, Integers

CONSTANTS
  User, Channel, Message,
  By, In, To,      \* of each message: sender, channel and receiver or NoUser
  Socket,          \* connections whose frames mark a channel read
  Account,         \* Account[s]: who identified on socket s
  Asked, Named,    \* bound: the channels clients ask for, the messages they name
  LastSecond,      \* bound: the clock stops here
  Limits,          \* page limits a client asks for, after the cap of 100
  NoUser, NoMessage, NoMark, NoWalk,
  MaxCalls         \* bound: calls of MarkChannelRead that differ

Second == 0 .. LastSecond
Mark   == Channel \X Message
Walk   == [ended   : BOOLEAN,
           chan    : Channel,
           limit   : Limits,
           follow  : {"before", "next_cursor"},
           cursor  : Message \cup {NoMessage},
           cursors : SUBSET Message,       \* history: every cursor used
           begun   : SUBSET Message,       \* history: rows when the walk began
           seen    : SUBSET Message]

ASSUME LetterAssumption ==
  /\ By \in [Message -> User] /\ In \in [Message -> Channel]
  /\ To \in [Message -> User \cup {NoUser}] /\ Account \in [Socket -> User]
  /\ Asked \subseteq Channel /\ Named \subseteq Message /\ LastSecond \in Nat /\ Limits \subseteq Int
  /\ NoUser \notin User /\ NoMessage \notin Message /\ NoMark \notin Mark /\ NoWalk \notin Walk /\ MaxCalls \in Nat

VARIABLES
  now,         \* seconds of the clock
  stage,       \* how far the request that sends a message has come
  at,          \* created_at
  is_read,     \* rows with is_read = 1
  delivered,   \* message_receipts rows with delivered_at
  read,        \* message_receipts rows with read_at
  mark,        \* MarkChannelRead calls between their two statements
  named,       \* history: what MarkChannelRead was called with
  lost,        \* history: calls whose second statement failed
  walk         \* a client that reads a channel's history backwards

rowVars  == <<now, stage, at>>
markVars == <<is_read, read, mark, named, lost>>
vars     == <<rowVars, delivered, markVars, walk>>

TypeOK ==
  /\ now \in Second
  /\ stage \in [Message -> {"new", "stamped", "written"}]
  /\ at \in [Message -> Second]
  /\ is_read \subseteq Message
  /\ delivered \subseteq Message \X User
  /\ read \subseteq Message \X User
  /\ mark \in [Socket -> Mark \cup {NoMark}]
  /\ named \subseteq User \X Mark
  /\ lost \subseteq User \X Mark
  /\ walk \in Walk \cup {NoWalk}

Init ==
  /\ now = 0
  /\ stage = [m \in Message |-> "new"]
  /\ at = [m \in Message |-> 0]
  /\ is_read = {} /\ delivered = {} /\ read = {}
  /\ mark = [s \in Socket |-> NoMark]
  /\ named = {} /\ lost = {}
  /\ walk = NoWalk

Row == {m \in Message : stage[m] = "written"}

\* Seconds pass.
Tick ==
  /\ now < LastSecond
  /\ now' = now + 1
  /\ UNCHANGED <<stage, at, delivered, markVars, walk>>

-----------------------------------------------------------------------------
(* Sending *)

\* SendMessage takes the time, cut to seconds, before it writes.
Stamp(m) ==
  /\ stage[m] = "new"
  /\ stage' = [stage EXCEPT ![m] = "stamped"]
  /\ at' = [at EXCEPT ![m] = now]
  /\ UNCHANGED <<now, delivered, markVars, walk>>

\* The row is written.
Insert(m) ==
  /\ stage[m] = "stamped"
  /\ stage' = [stage EXCEPT ![m] = "written"]
  /\ UNCHANGED <<now, at, delivered, markVars, walk>>

\* Mutant: MarkDelivered replaces the receipt's row.
MarkDelivered_Replace(m) ==
  LET r == <<m, To[m]>> IN
  /\ m \in Row /\ To[m] # NoUser /\ r \notin delivered
  /\ delivered' = delivered \cup {r}
  /\ read' = read \ {r}
  /\ UNCHANGED <<rowVars, is_read, mark, named, lost, walk>>

\* Mutant: the receiver is not asked for.
MarkDelivered_Anyone(m) ==
  LET r == <<m, To[m]>> IN
  /\ m \in Row /\ r \notin delivered
  /\ delivered' = delivered \cup {r}
  /\ UNCHANGED <<rowVars, markVars, walk>>

\* EmitMessageNew reaches the receiver's connection, and MarkDelivered sets
\* delivered_at of the receipt, which reading may have made already.  For another
\* receiver, or none online, nothing is written.
MarkDelivered(m) ==
  LET r == <<m, To[m]>> IN
  /\ m \in Row /\ To[m] # NoUser /\ r \notin delivered
  /\ delivered' = delivered \cup {r}
  /\ UNCHANGED <<rowVars, markVars, walk>>

-----------------------------------------------------------------------------
(* MarkChannelRead *)

\* created_at <= (SELECT created_at FROM messages WHERE id = l), of whatever
\* channel l is; an unknown l selects NULL, and nothing compares with NULL.
UpTo(l) == IF l \in Row THEN {m \in Row : at[m] <= at[l]} ELSE {}

\* Mutant: the receipts are written for messages of every channel.
ReceiptsFor_AnyChannel(u, c, l) == {m \in UpTo(l) : By[m] # u}

\* Mutant: the receipts leave out what is addressed to nobody in particular.
ReceiptsFor_Addressed(u, c, l) == {m \in UpTo(l) : In[m] = c /\ By[m] # u /\ To[m] = u}

\* The rows of the second statement, which does not look at the receiver.
ReceiptsFor(u, c, l) == {m \in UpTo(l) : In[m] = c /\ By[m] # u}

\* The first statement: is_read of what others sent to the reader or to nobody
\* in particular.
MarkRead(s, c, l) ==
  LET u == Account[s] IN
  /\ mark[s] = NoMark
  /\ Cardinality(named \cup {<<u, <<c, l>>>>}) <= MaxCalls
  /\ mark' = [mark EXCEPT ![s] = <<c, l>>]
  /\ is_read' = is_read \cup
       {m \in UpTo(l) : In[m] = c /\ By[m] # u /\ To[m] \in {u, NoUser}}
  /\ named' = named \cup {<<u, <<c, l>>>>}
  /\ UNCHANGED <<rowVars, delivered, read, lost, walk>>

\* The second statement: a receipt for each row, or it fails and the first one
\* stays done.
MarkReceipts(s) ==
  /\ mark[s] # NoMark
  /\ mark' = [mark EXCEPT ![s] = NoMark]
  /\ \/ /\ read' = read \cup
             (ReceiptsFor(Account[s], mark[s][1], mark[s][2]) \X {Account[s]})
        /\ UNCHANGED lost
     \/ /\ lost' = lost \cup {<<Account[s], mark[s]>>}
        /\ UNCHANGED read
  /\ UNCHANGED <<rowVars, delivered, is_read, named, walk>>

-----------------------------------------------------------------------------
(* Paging *)

\* Mutant: the row named by before is asked for again.
Before_OrSame(c, x) ==
  {m \in Row : In[m] = c /\ (x = NoMessage \/ at[m] <= at[x])}

\* The rows of channel c before message x.
Before(c, x) ==
  {m \in Row : In[m] = c /\ (x = NoMessage \/ at[m] < at[x])}

\* Mutant: the page is put in ascending order by the query already.
Pages_Oldest(n, S) ==
  {P \in SUBSET S : /\ IF Cardinality(S) <= n THEN P = S ELSE Cardinality(P) = n
                    /\ \A m \in P, o \in S \ P : at[m] <= at[o]}

\* ORDER BY created_at DESC LIMIT n: rows of one second come in any order.
Pages(n, S) ==
  {P \in SUBSET S : /\ IF Cardinality(S) <= n THEN P = S ELSE Cardinality(P) = n
                    /\ \A m \in P, o \in S \ P : at[m] >= at[o]}

\* Messages that may come first, or last, on a page.
Newest(P) == {m \in P : \A o \in P : at[m] >= at[o]}
Oldest(P) == {m \in P : \A o \in P : at[m] <= at[o]}

Walking == walk # NoWalk /\ ~walk.ended

\* A client begins to read channel c.
StartWalk(c, n, f) ==
  /\ ~Walking
  /\ walk' = [ended |-> FALSE, chan |-> c, limit |-> n, follow |-> f, cursor |-> NoMessage,
              cursors |-> {}, begun |-> Before(c, NoMessage), seen |-> {}]
  /\ UNCHANGED <<rowVars, delivered, markVars>>

\* What the client does with a page: it goes on from the oldest message it was
\* shown or from next_cursor, which names the newest; without either it gives up.
\* One message more is fetched than asked for, to know whether there are more.
Follow(P) ==
  IF Cardinality(Before(walk.chan, walk.cursor)) <= walk.limit
  THEN walk' = [walk EXCEPT !.ended = TRUE, !.seen = @ \cup P]
  ELSE IF P = {} THEN walk' = NoWalk
  ELSE \E x \in IF walk.follow = "before" THEN Oldest(P) ELSE Newest(P) :
         walk' = [walk EXCEPT !.seen = @ \cup P, !.cursor = x, !.cursors = @ \cup {x}]

\* A page is answered, or the request fails: the query errs, or a negative limit
\* makes the slice panic.
NextPage ==
  /\ Walking
  /\ \/ /\ walk.limit >= 0
        /\ \E P \in Pages(walk.limit, Before(walk.chan, walk.cursor)) : Follow(P)
     \/ walk' = NoWalk
  /\ UNCHANGED <<rowVars, delivered, markVars>>

Next ==
  \/ Tick
  \/ \E m \in Message : Stamp(m) \/ Insert(m) \/ MarkDelivered(m)
  \/ \E s \in Socket : \/ \E c \in Asked, l \in Named : MarkRead(s, c, l)
                       \/ MarkReceipts(s)
  \/ \E c \in Asked, n \in Limits, f \in {"before", "next_cursor"} : StartWalk(c, n, f)
  \/ NextPage

\* A client that has begun to read goes on, and requests are answered.
Spec == Init /\ [][Next]_vars /\ WF_vars(NextPage)

-----------------------------------------------------------------------------
(* Properties *)

\* Nobody has read what nobody named: a receipt goes back to a call of that user
\* for that channel with a message at least as young (receipts.go lines 41-50).
ReadIsNamed ==
  \A r \in read : \E n \in named :
    /\ n[1] = r[2] /\ n[2][1] = In[r[1]]
    /\ By[r[1]] # r[2] /\ at[r[1]] <= at[n[2][2]]

\* is_read without a receipt: only while the call is between its statements, or
\* if the second one failed (receipts.go lines 24-53).
FlagsHaveReceipts ==
  \A m \in is_read : \E u \in User \ {By[m]} :
    \/ <<m, u>> \in read
    \/ \E s \in Socket : /\ mark[s] # NoMark /\ Account[s] = u
                         /\ m \in ReceiptsFor(u, mark[s][1], mark[s][2])
    \/ \E x \in lost : x[1] = u /\ x[2][1] = In[m]

\* What was read stays read, in whatever order delivery and reading of one
\* message are recorded (receipts.go lines 10-19 and 41-50).
ReadStaysRead == [][read \subseteq read' /\ is_read \subseteq is_read']_vars

\* A walk to the end shows every message that was there when it began, whatever
\* is written meanwhile, except those of the second of some cursor: before asks
\* for older seconds (service.go lines 86-100, org_handlers.go lines 152-187).
WalkMissesOnlyTies ==
  walk # NoWalk /\ walk.ended =>
    \A m \in walk.begun \ walk.seen : \E c \in walk.cursors : at[c] = at[m]

\* A walk comes to an end, even along next_cursor, which names the newest message
\* of a page and so shows most of the page again.
WalkEnds == Walking ~> ~Walking

=============================================================================
