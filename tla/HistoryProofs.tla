--------------------------- MODULE HistoryProofs ---------------------------
(***************************************************************************)
(* Theorems about History.tla for any messages, users, sockets and limits. *)
(***************************************************************************)
EXTENDS History, TLAPS

MarksNamed == \A s \in Socket : mark[s] # NoMark => <<Account[s], mark[s]>> \in named

\* A receipt's message is a row, and so is the one the call named.
ReadRows ==
  \A r \in read :
    /\ r[1] \in Row /\ By[r[1]] # r[2]
    /\ \E n \in named : /\ n[1] = r[2] /\ n[2][1] = In[r[1]]
                        /\ n[2][2] \in Row /\ at[r[1]] <= at[n[2][2]]

\* Every message that was there when the walk began is shown, or tied with a
\* cursor, or still ahead.
Ahead ==
  walk # NoWalk =>
    /\ walk.begun \subseteq {m \in Row : In[m] = walk.chan}
    /\ walk.cursors \subseteq Row
    /\ walk.cursor # NoMessage => walk.cursor \in walk.cursors
    /\ \A m \in walk.begun \ walk.seen :
         \/ \E c \in walk.cursors : at[c] = at[m]
         \/ ~walk.ended /\ m \in Before(walk.chan, walk.cursor)

Inv == TypeOK /\ MarksNamed /\ ReadRows /\ FlagsHaveReceipts /\ Ahead

-----------------------------------------------------------------------------
(* Rows are only added, and keep their stamp *)

Grow == /\ Row \subseteq Row'
        /\ \A m \in Row : at'[m] = at[m]

LEMMA GrowUpTo ==
  ASSUME Grow, NEW l
  PROVE  UpTo(l) \subseteq UpTo(l)'
BY DEF Grow, UpTo

\* What a step that leaves marks and walk alone keeps.
LEMMA GrowInv ==
  ASSUME Inv, Grow, TypeOK', UNCHANGED <<markVars, walk>>
  PROVE  Inv'
<1>1. MarksNamed'
  BY DEF Inv, MarksNamed, markVars
<1>2. ReadRows'
  BY DEF Inv, ReadRows, Grow, markVars
<1>3. FlagsHaveReceipts'
  <2>1. \A u, c, l : ReceiptsFor(u, c, l) \subseteq ReceiptsFor(u, c, l)'
    BY GrowUpTo DEF ReceiptsFor
  <2> QED BY <2>1 DEF Inv, FlagsHaveReceipts, markVars
<1>4. Ahead'
  <2> SUFFICES ASSUME walk # NoWalk PROVE Ahead'
    BY DEF Ahead
  <2>1. /\ walk.begun \subseteq Row' /\ walk.cursors \subseteq Row'
        /\ \A m \in walk.begun \cup walk.cursors : at'[m] = at[m]
    BY DEF Inv, Ahead, Grow
  <2> QED BY <2>1 DEF Inv, Ahead, Before, markVars
<1> QED BY <1>1, <1>2, <1>3, <1>4 DEF Inv

LEMMA TickInv == Inv /\ Tick => Inv'
<1> SUFFICES ASSUME Inv, Tick PROVE Inv'
  OBVIOUS
<1>1. TypeOK'
  BY LetterAssumption DEF Inv, TypeOK, Tick, Second, markVars
<1>2. Grow
  BY DEF Tick, Grow, Row
<1> QED BY <1>1, <1>2, GrowInv DEF Tick

LEMMA SendInv ==
  ASSUME Inv, NEW m \in Message, Stamp(m) \/ Insert(m) \/ MarkDelivered(m)
  PROVE  Inv'
<1>1. CASE Stamp(m)
  <2>1. TypeOK'
    BY <1>1 DEF Inv, TypeOK, Stamp, markVars
  <2>2. Grow
    BY <1>1 DEF Inv, TypeOK, Stamp, Grow, Row
  <2> QED BY <2>1, <2>2, <1>1, GrowInv DEF Stamp
<1>2. CASE Insert(m)
  <2>1. TypeOK'
    BY <1>2 DEF Inv, TypeOK, Insert, markVars
  <2>2. Grow
    BY <1>2 DEF Inv, TypeOK, Insert, Grow, Row
  <2> QED BY <2>1, <2>2, <1>2, GrowInv DEF Insert
<1>3. CASE MarkDelivered(m)
  <2>1. TypeOK'
    BY <1>3, LetterAssumption DEF Inv, TypeOK, MarkDelivered, rowVars, markVars
  <2>2. Grow
    BY <1>3 DEF MarkDelivered, Grow, Row, rowVars
  <2> QED BY <2>1, <2>2, <1>3, GrowInv DEF MarkDelivered
<1> QED BY <1>1, <1>2, <1>3

-----------------------------------------------------------------------------
(* Marks *)

LEMMA MarkReadInv ==
  ASSUME Inv, NEW s \in Socket, NEW c \in Asked, NEW l \in Named, MarkRead(s, c, l)
  PROVE  Inv'
<1> DEFINE u == Account[s]
           new == {m \in UpTo(l) : In[m] = c /\ By[m] # u /\ To[m] \in {u, NoUser}}
<1>1. /\ mark[s] = NoMark /\ mark' = [mark EXCEPT ![s] = <<c, l>>]
      /\ is_read' = is_read \cup new
      /\ named' = named \cup {<<u, <<c, l>>>>}
      /\ UNCHANGED <<rowVars, delivered, read, lost, walk>>
  BY DEF MarkRead
<1>2. u \in User /\ <<c, l>> \in Mark /\ <<c, l>> # NoMark
  BY LetterAssumption DEF Mark
<1>3. new \subseteq Message /\ new \subseteq ReceiptsFor(u, c, l)
  BY DEF UpTo, Row, ReceiptsFor
<1> HIDE DEF u, new
<1>4. TypeOK'
  BY <1>1, <1>2, <1>3 DEF Inv, TypeOK, rowVars
<1>5. MarksNamed'
  BY <1>1 DEF Inv, TypeOK, MarksNamed, u
<1>6. ReadRows'
  BY <1>1 DEF Inv, ReadRows, Row, rowVars
<1>7. FlagsHaveReceipts'
  <2>1. \A v, b, x : ReceiptsFor(v, b, x)' = ReceiptsFor(v, b, x)
    BY <1>1 DEF ReceiptsFor, UpTo, Row, rowVars
  <2>2. ASSUME NEW m \in new
        PROVE  /\ u # By[m]
               /\ mark'[s] # NoMark /\ Account[s] = u
               /\ m \in ReceiptsFor(u, mark'[s][1], mark'[s][2])
    <3>1. mark'[s] = <<c, l>>
      BY <1>1 DEF Inv, TypeOK
    <3> QED BY <3>1, <1>2, <1>3 DEF ReceiptsFor, u
  <2>3. \A r \in Socket : mark[r] # NoMark => mark'[r] = mark[r]
    BY <1>1 DEF Inv, TypeOK
  <2> QED BY <2>1, <2>2, <2>3, <1>1, <1>2 DEF Inv, FlagsHaveReceipts
<1>8. Ahead'
  BY <1>1 DEF Inv, Ahead, Before, Row, rowVars
<1> QED BY <1>4, <1>5, <1>6, <1>7, <1>8 DEF Inv

LEMMA MarkReceiptsInv ==
  ASSUME Inv, NEW s \in Socket, MarkReceipts(s)
  PROVE  Inv'
<1> DEFINE u == Account[s]
           new == ReceiptsFor(u, mark[s][1], mark[s][2])
<1>1. /\ mark[s] # NoMark /\ mark' = [mark EXCEPT ![s] = NoMark]
      /\ \/ read' = read \cup (new \X {u}) /\ UNCHANGED lost
         \/ lost' = lost \cup {<<u, mark[s]>>} /\ UNCHANGED read
      /\ UNCHANGED <<rowVars, delivered, is_read, named, walk>>
  BY DEF MarkReceipts
<1>2. u \in User /\ mark[s] \in Mark /\ <<u, mark[s]>> \in named
  BY <1>1, LetterAssumption DEF Inv, TypeOK, MarksNamed
<1>3. \A m \in new : /\ m \in Message /\ m \in Row /\ By[m] # u /\ In[m] = mark[s][1]
                     /\ mark[s][2] \in Row /\ at[m] <= at[mark[s][2]]
  BY DEF ReceiptsFor, UpTo, Row
<1>4. \A v, b, x : ReceiptsFor(v, b, x)' = ReceiptsFor(v, b, x)
  BY <1>1 DEF ReceiptsFor, UpTo, Row, rowVars
<1>5. UNCHANGED <<stage, at>> /\ Row' = Row
  BY <1>1 DEF Row, rowVars
<1> HIDE DEF u, new
<1>6. TypeOK'
  BY <1>1, <1>2, <1>3 DEF Inv, TypeOK, rowVars
<1>7. MarksNamed'
  BY <1>1 DEF Inv, TypeOK, MarksNamed
<1>8. ReadRows'
  <2>1. ASSUME NEW m \in new
        PROVE  LET r == <<m, u>> IN
               /\ r[1] \in Row /\ By[r[1]] # r[2]
               /\ \E n \in named : /\ n[1] = r[2] /\ n[2][1] = In[r[1]]
                                   /\ n[2][2] \in Row /\ at[r[1]] <= at[n[2][2]]
    BY <1>2, <1>3
  <2> QED BY <2>1, <1>1, <1>5 DEF Inv, ReadRows
<1>9. FlagsHaveReceipts'
  <2> SUFFICES ASSUME NEW m \in is_read
               PROVE  \E v \in User \ {By[m]} :
                 \/ <<m, v>> \in read'
                 \/ \E r \in Socket : /\ mark'[r] # NoMark /\ Account[r] = v
                                      /\ m \in ReceiptsFor(v, mark'[r][1], mark'[r][2])
                 \/ \E x \in lost' : x[1] = v /\ x[2][1] = In[m]
    BY <1>1, <1>4 DEF FlagsHaveReceipts
  <2>1. PICK v \in User \ {By[m]} :
                 \/ <<m, v>> \in read
                 \/ \E r \in Socket : /\ mark[r] # NoMark /\ Account[r] = v
                                      /\ m \in ReceiptsFor(v, mark[r][1], mark[r][2])
                 \/ \E x \in lost : x[1] = v /\ x[2][1] = In[m]
    BY DEF Inv, FlagsHaveReceipts
  <2>2. CASE <<m, v>> \in read \/ \E x \in lost : x[1] = v /\ x[2][1] = In[m]
    BY <2>2, <1>1
  <2>3. ASSUME NEW r \in Socket, mark[r] # NoMark, Account[r] = v, r # s,
               m \in ReceiptsFor(v, mark[r][1], mark[r][2])
        PROVE  mark'[r] # NoMark /\ m \in ReceiptsFor(v, mark'[r][1], mark'[r][2])
    BY <2>3, <1>1 DEF Inv, TypeOK
  <2>4. CASE v = u /\ m \in new
    <3>1. CASE read' = read \cup (new \X {u})
      BY <2>4, <3>1
    <3>2. CASE lost' = lost \cup {<<u, mark[s]>>}
      <4>1. <<u, mark[s]>> \in lost' /\ In[m] = mark[s][1]
        BY <2>4, <3>2, <1>3
      <4> QED BY <2>4, <4>1
    <3> QED BY <3>1, <3>2, <1>1
  <2> QED BY <2>1, <2>2, <2>3, <2>4 DEF u, new
<1>10. Ahead'
  BY <1>1, <1>5 DEF Inv, Ahead, Before
<1> QED BY <1>6, <1>7, <1>8, <1>9, <1>10 DEF Inv

-----------------------------------------------------------------------------
(* Walks *)

\* A step of the walk leaves the rest of the invariant alone.
LEMMA WalkStep ==
  ASSUME Inv, UNCHANGED <<rowVars, delivered, markVars>>,
         walk' \in Walk \cup {NoWalk}, Ahead'
  PROVE  Inv'
<1>1. TypeOK' /\ MarksNamed' /\ ReadRows'
  BY DEF Inv, TypeOK, MarksNamed, ReadRows, Row, rowVars, markVars
<1>2. FlagsHaveReceipts'
  BY DEF Inv, FlagsHaveReceipts, ReceiptsFor, UpTo, Row, rowVars, markVars
<1> QED BY <1>1, <1>2 DEF Inv

LEMMA StartInv ==
  ASSUME Inv, NEW c \in Asked, NEW n \in Limits, NEW f \in {"before", "next_cursor"},
         StartWalk(c, n, f)
  PROVE  Inv'
<1> DEFINE w == [ended |-> FALSE, chan |-> c, limit |-> n, follow |-> f, cursor |-> NoMessage,
                 cursors |-> {}, begun |-> Before(c, NoMessage), seen |-> {}]
<1>1. walk' = w /\ UNCHANGED <<rowVars, delivered, markVars>>
  BY DEF StartWalk
<1>2. w \in Walk
  BY LetterAssumption DEF Walk, Before, Row
<1>3. Before(c, NoMessage)' = Before(c, NoMessage)
  BY <1>1 DEF Before, Row, rowVars
<1>4. Ahead'
  BY <1>1, <1>3 DEF Ahead, Before
<1> QED BY <1>1, <1>2, <1>4, WalkStep

LEMMA PageInv == Inv /\ NextPage => Inv'
<1> SUFFICES ASSUME Inv, NextPage PROVE Inv'
  OBVIOUS
<1>1. /\ walk # NoWalk /\ walk \in Walk /\ ~walk.ended
      /\ UNCHANGED <<rowVars, delivered, markVars>>
      /\ Row' = Row /\ UNCHANGED at
  BY DEF NextPage, Walking, Inv, TypeOK, Row, rowVars
<1>2. CASE walk' = NoWalk
  <2>1. Ahead'
    BY <1>2 DEF Ahead
  <2> QED BY <1>1, <1>2, <2>1, WalkStep
<1> DEFINE S == Before(walk.chan, walk.cursor)
<1>3. ASSUME NEW P \in Pages(walk.limit, S), Follow(P), walk' # NoWalk
      PROVE  Inv'
  <2>1. P \subseteq S /\ S \subseteq Row /\ Row \subseteq Message
    BY DEF Pages, Before, Row
  <2>2. \A m \in walk.begun \ (walk.seen \cup P) :
          \/ \E c \in walk.cursors : at[c] = at[m]
          \/ m \in S \ P
    BY <1>1 DEF Inv, Ahead
  <2>3. CASE Cardinality(S) <= walk.limit
    <3>1. walk' = [walk EXCEPT !.ended = TRUE, !.seen = @ \cup P] /\ P = S
      BY <1>3, <2>3 DEF Follow, Pages
    <3>2. /\ walk' \in Walk /\ walk'.begun = walk.begun /\ walk'.seen = walk.seen \cup P
          /\ walk'.cursors = walk.cursors /\ walk'.cursor = walk.cursor
          /\ walk'.chan = walk.chan
      BY <3>1, <1>1, <2>1 DEF Walk
    <3>3. Ahead'
      BY <3>1, <3>2, <2>2, <1>1 DEF Inv, Ahead
    <3> QED BY <1>1, <3>2, <3>3, WalkStep
  <2>4. CASE ~(Cardinality(S) <= walk.limit)
    <3>1. PICK x \in P :
            walk' = [walk EXCEPT !.seen = @ \cup P, !.cursor = x, !.cursors = @ \cup {x}]
      BY <1>3, <2>4 DEF Follow, Oldest, Newest
    <3>2. /\ walk' \in Walk /\ walk'.begun = walk.begun /\ walk'.seen = walk.seen \cup P
          /\ walk'.cursors = walk.cursors \cup {x} /\ walk'.cursor = x
          /\ walk'.chan = walk.chan /\ walk'.ended = walk.ended
      BY <3>1, <1>1, <2>1 DEF Walk
    <3>3. \A m \in S \ P : at[m] = at[x] \/ at[m] < at[x]
      <4>1. \A m \in S \ P : at[x] >= at[m]
        BY DEF Pages
      <4>2. \A m \in Message : at[m] \in Int
        BY LetterAssumption DEF Inv, TypeOK, Second
      <4> QED BY <4>1, <4>2, <2>1
    <3>4. \A m \in S \ P : at[m] # at[x] => m \in Before(walk.chan, x)
      BY <3>3 DEF Before
    <3>5. Before(walk.chan, walk.cursor)' = Before(walk.chan, x)
      BY <3>2, <1>1 DEF Before
    <3>6. Ahead'
      BY <3>2, <3>4, <3>5, <2>1, <2>2, <1>1 DEF Inv, Ahead
    <3> QED BY <1>1, <3>2, <3>6, WalkStep
  <2> QED BY <2>3, <2>4
<1> QED BY <1>2, <1>3 DEF NextPage

-----------------------------------------------------------------------------
LEMMA InitInv == Init => Inv
<1> SUFFICES ASSUME Init PROVE Inv
  OBVIOUS
<1>1. TypeOK
  BY LetterAssumption DEF Init, TypeOK, Second
<1>2. MarksNamed /\ ReadRows /\ FlagsHaveReceipts /\ Ahead
  BY DEF Init, MarksNamed, ReadRows, FlagsHaveReceipts, Ahead
<1> QED BY <1>1, <1>2 DEF Inv

LEMMA NextInv == Inv /\ [Next]_vars => Inv'
<1> SUFFICES ASSUME Inv, [Next]_vars PROVE Inv'
  OBVIOUS
<1>1. CASE \E m \in Message : Stamp(m) \/ Insert(m) \/ MarkDelivered(m)
  BY <1>1, SendInv
<1>2. CASE \E s \in Socket : \E c \in Asked, l \in Named : MarkRead(s, c, l)
  BY <1>2, MarkReadInv
<1>3. CASE \E s \in Socket : MarkReceipts(s)
  BY <1>3, MarkReceiptsInv
<1>4. CASE \E c \in Asked, n \in Limits, f \in {"before", "next_cursor"} : StartWalk(c, n, f)
  BY <1>4, StartInv
<1>5. CASE UNCHANGED vars
  <2>1. UNCHANGED <<rowVars, delivered, markVars, walk>>
    BY <1>5 DEF vars
  <2>2. walk' \in Walk \cup {NoWalk} /\ Ahead'
    BY <2>1 DEF Inv, TypeOK, Ahead, Before, Row, rowVars
  <2> QED BY <2>1, <2>2, WalkStep
<1> QED BY <1>1, <1>2, <1>3, <1>4, <1>5, TickInv, PageInv DEF Next

LEMMA Invariant == Spec => []Inv
BY InitInv, NextInv, PTL DEF Spec

\* Rows, receipts, pending calls and the walk keep their types.
THEOREM TypeCorrect == Spec => []TypeOK
BY Invariant, PTL DEF Inv

\* However calls, failures and late rows interleave, no receipt is made that its
\* user did not ask for.
THEOREM ReadsAreNamed == Spec => []ReadIsNamed
<1>1. Inv => ReadIsNamed
  BY DEF Inv, ReadRows, ReadIsNamed
<1> QED BY <1>1, Invariant, PTL

\* A flag without a receipt is one whose receipt is about to be written or whose
\* second statement failed.
THEOREM FlagsGetReceipts == Spec => []FlagsHaveReceipts
BY Invariant, PTL DEF Inv

\* Paging misses nothing that was there but what shares a second with a cursor.
THEOREM WalksMissOnlyTies == Spec => []WalkMissesOnlyTies
<1>1. Inv => WalkMissesOnlyTies
  BY DEF Inv, Ahead, WalkMissesOnlyTies
<1> QED BY <1>1, Invariant, PTL

\* Nothing that was read becomes unread.
THEOREM ReadingLasts == Spec => ReadStaysRead
<1>1. [Next]_vars => [read \subseteq read' /\ is_read \subseteq is_read']_vars
  <2> SUFFICES ASSUME Next PROVE read \subseteq read' /\ is_read \subseteq is_read'
    OBVIOUS
  <2> QED BY DEF Next, Tick, Stamp, Insert, MarkDelivered, MarkRead, MarkReceipts,
             StartWalk, NextPage, markVars
<1> QED BY <1>1, PTL DEF Spec, ReadStaysRead

-----------------------------------------------------------------------------
(* Walks descend *)

CursorSecond == IF walk.cursor = NoMessage THEN LastSecond + 1 ELSE at[walk.cursor]

\* Every page that does not end the walk takes its cursor to an earlier second,
\* whichever of the two cursors the client follows and whatever is written
\* meanwhile (service.go lines 86-100, org_handlers.go lines 152-187).
WalkDescends ==
  [][NextPage /\ walk' # NoWalk /\ ~walk'.ended =>
       CursorSecond \in Nat /\ CursorSecond' \in Nat /\ CursorSecond' < CursorSecond]_vars

LEMMA PageDescends ==
  ASSUME Inv, NextPage, walk' # NoWalk, ~walk'.ended
  PROVE  CursorSecond \in Nat /\ CursorSecond' \in Nat /\ CursorSecond' < CursorSecond
<1>1. walk # NoWalk /\ walk \in Walk /\ UNCHANGED at
  BY DEF NextPage, Walking, Inv, TypeOK, rowVars
<1>2. LastSecond \in Nat /\ NoMessage \notin Message
      /\ \A m \in Message : at[m] \in Nat /\ at[m] <= LastSecond
  BY LetterAssumption DEF Inv, TypeOK, Second
<1>3. CursorSecond \in Nat
  BY <1>1, <1>2 DEF CursorSecond, Walk
<1>4. PICK P \in Pages(walk.limit, Before(walk.chan, walk.cursor)) : Follow(P)
  BY DEF NextPage
<1>5. PICK x \in P :
        walk' = [walk EXCEPT !.seen = @ \cup P, !.cursor = x, !.cursors = @ \cup {x}]
  <2>1. ~(Cardinality(Before(walk.chan, walk.cursor)) <= walk.limit)
    BY <1>1, <1>4 DEF Follow, Walk
  <2> QED BY <1>4, <2>1 DEF Follow, Oldest, Newest
<1>6. /\ x \in Message
      /\ walk.cursor = NoMessage \/ at[x] < at[walk.cursor]
  BY <1>4 DEF Pages, Before, Row
<1>7. walk'.cursor = x
  BY <1>1, <1>5 DEF Walk
<1>8. CursorSecond' = at[x]
  BY <1>1, <1>2, <1>6, <1>7 DEF CursorSecond
<1> QED BY <1>1, <1>2, <1>3, <1>6, <1>8 DEF CursorSecond, Walk

\* A walk has at most as many pages as there are seconds: what makes WalkEnds
\* true under fairness.
THEOREM WalksDescend == Spec => WalkDescends
<1>1. Inv /\ [Next]_vars =>
        [NextPage /\ walk' # NoWalk /\ ~walk'.ended =>
           CursorSecond \in Nat /\ CursorSecond' \in Nat /\ CursorSecond' < CursorSecond]_vars
  BY PageDescends
<1> QED BY <1>1, Invariant, PTL DEF Spec, WalkDescends
=============================================================================
