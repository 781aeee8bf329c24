---------------------------- MODULE DirectProofs ----------------------------
(***************************************************************************)
(* Theorems about Direct.tla for any users, workspaces, channels, requests *)
(* and messages.                                                           *)
(***************************************************************************)
EXTENDS Direct, TLAPS

\* What the transaction relies on and never checks again.
BothBelong(p) == \A x \in p[2] : <<x, p[1]>> \in member

AsksBelong == \A r \in Req : ask[r] # NoDm => BothBelong(ask[r])
DmsBelong  == \A d \in Dm : dm[d] # NoDm => BothBelong(dm[d])
DmsDiffer  == \A d, e \in Dm : dm[d] # NoDm /\ dm[d] = dm[e] => d = e
ToldTrue   == \A p \in Place : \A d \in told[p] : dm[d] = p

\* A post through a channel comes from one who may open it; once addressed it
\* names the other participant.
PostsBelong ==
  \A m \in Msg :
    post[m] # "new" =>
      /\ job[m] \in Job
      /\ post[m] = "address" => job[m].via = "channel"
      /\ job[m].via = "channel" /\ job[m].chan \in Dm =>
           /\ Participates(job[m].by, job[m].chan)
           /\ post[m] \in {"insert", "emit"} /\ m \notin blind =>
                job[m].to \in dm[job[m].chan][2]

Inv == TypeOK /\ AsksBelong /\ DmsBelong /\ DmsDiffer /\ ToldTrue /\ PostsBelong

-----------------------------------------------------------------------------
LEMMA PairFacts ==
  ASSUME NEW p \in Pair, NEW u \in p
  PROVE  /\ p \subseteq User
         /\ \E o \in p : o # u
         /\ (CHOOSE o \in p : o # u) \in p
BY DEF Pair

LEMMA PlaceFacts ==
  ASSUME NEW p \in Place
  PROVE  p[1] \in Workspace /\ p[2] \in Pair /\ p # NoDm
BY NameAssumption DEF Place

LEMMA SettledType ==
  ASSUME NEW m \in Msg, NEW f \in Posting[m]
  PROVE  /\ Settled(f) \in Job
         /\ Settled(f).via = f.via /\ Settled(f).by = f.by
         /\ f.via = "channel" => Settled(f).chan = f.chan
<1>1. f \in Form /\ f.to # f.by /\ (f.via = "channel" => f.chan \in Public \cup Dm)
      /\ (f.via = "messages" => f.chan # NoChan \/ f.to # NoUser)
  BY FormAssumption
<1>2. OtherUserInDMChannel(f.chan, f.by) \in User \cup {NoUser}
  <2>1. CASE f.chan \in Pair /\ f.by \in f.chan
    BY <2>1, PairFacts DEF OtherUserInDMChannel
  <2>2. CASE ~(f.chan \in Pair /\ f.by \in f.chan)
    BY <2>2 DEF OtherUserInDMChannel
  <2> QED BY <2>1, <2>2
<1>3. (IF f.chan = NoChan THEN {f.by, f.to} ELSE f.chan) \in Chan
  <2>1. CASE f.chan = NoChan
    <3>1. f.via = "messages" /\ f.to \in User /\ f.by \in User
      BY <1>1, <2>1, NameAssumption DEF Form, Chan
    <3>2. {f.by, f.to} \in Pair
      BY <3>1, <1>1 DEF Pair
    <3> QED BY <3>2, <2>1 DEF Chan
  <2>2. CASE f.chan # NoChan
    BY <1>1, <2>2 DEF Form
  <2> QED BY <2>1, <2>2
<1>4. f.via \in {"channel", "messages"} /\ f.by \in User /\ f.to \in User \cup {NoUser}
  BY <1>1 DEF Form
<1>5. Settled(f) \in Job
  BY <1>2, <1>3, <1>4 DEF Settled, Job
<1>6. f.via = "channel" => f.chan # NoChan
  BY <1>1, NameAssumption DEF Chan
<1> QED BY <1>5, <1>6 DEF Settled

LEMMA InitInv == Init => Inv
<1> SUFFICES ASSUME Init PROVE Inv
  OBVIOUS
<1>1. TypeOK
  BY NameAssumption DEF Init, TypeOK, PostAt
<1>2. AsksBelong /\ DmsBelong /\ DmsDiffer /\ ToldTrue /\ PostsBelong
  BY DEF Init, AsksBelong, DmsBelong, DmsDiffer, ToldTrue, PostsBelong
<1> QED BY <1>1, <1>2 DEF Inv

-----------------------------------------------------------------------------
LEMMA JoinInv ==
  ASSUME Inv, NEW u \in User, NEW w \in Workspace, Join(u, w)
  PROVE  Inv'
BY DEF Inv, TypeOK, AsksBelong, DmsBelong, DmsDiffer, ToldTrue, PostsBelong, BothBelong,
   Participates, Join, dmVars, postVars

LEMMA AskInv ==
  ASSUME Inv, NEW r \in Req, NEW u \in User, NEW o \in User, NEW w \in Workspace,
         AskDM(r, u, o, w)
  PROVE  Inv'
<1> DEFINE p == <<w, {u, o}>>
<1>1. p \in Place /\ p[1] = w /\ p[2] = {u, o} /\ p # NoDm
  <2>1. {u, o} \in Pair
    BY DEF AskDM, MayShare, Pair
  <2> QED BY <2>1, NameAssumption DEF Place
<1>2. BothBelong(p)
  BY <1>1 DEF BothBelong, AskDM, MayShare
<1> HIDE DEF p
<1>3. UNCHANGED <<member, dm, postVars>>
  BY DEF AskDM
<1>4. \/ ask' = ask /\ told' = [told EXCEPT ![p] = @ \cup Existing(p)]
      \/ told' = told /\ ask' = [ask EXCEPT ![r] = p]
  BY DEF AskDM, p
<1>5. TypeOK' /\ AsksBelong' /\ ToldTrue'
  BY <1>1, <1>2, <1>3, <1>4
     DEF Inv, TypeOK, AsksBelong, ToldTrue, BothBelong, Existing, postVars
<1>6. DmsBelong' /\ DmsDiffer' /\ PostsBelong'
  BY <1>3 DEF Inv, DmsBelong, DmsDiffer, PostsBelong, BothBelong, Participates, postVars
<1> QED BY <1>5, <1>6 DEF Inv

LEMMA CreateInv ==
  ASSUME Inv, NEW r \in Req, CreateDM(r)
  PROVE  Inv'
<1> DEFINE p == ask[r]
<1>1. p \in Place /\ p # NoDm /\ BothBelong(p) /\ UNCHANGED <<member, postVars>>
  BY DEF CreateDM, Inv, TypeOK, AsksBelong
<1>2. /\ ask' = [ask EXCEPT ![r] = NoDm]
      /\ AsksBelong' /\ ask' \in [Req -> Place \cup {NoDm}]
  BY <1>1 DEF CreateDM, Inv, TypeOK, AsksBelong, BothBelong
<1>3. CASE UNCHANGED <<dm, told>>
  BY <1>1, <1>2, <1>3 DEF Inv, TypeOK, DmsBelong, DmsDiffer, ToldTrue, PostsBelong,
     BothBelong, Participates, postVars
<1>4. ASSUME Existing(p) = {}, NEW d \in Dm, dm[d] = NoDm, dm' = [dm EXCEPT ![d] = p],
             told' = [told EXCEPT ![p] = @ \cup {d}] \/ UNCHANGED told
      PROVE  Inv'
  <2> HIDE DEF p
  <2>1. TypeOK'
    BY <1>1, <1>2, <1>4 DEF Inv, TypeOK, postVars
  <2>2. DmsBelong'
    BY <1>1, <1>4 DEF Inv, TypeOK, DmsBelong, BothBelong
  <2>3. DmsDiffer'
    BY <1>4 DEF Inv, TypeOK, DmsDiffer, Existing
  <2>4. ToldTrue'
    <3>1. \A q \in Place : d \notin told[q]
      BY <1>4, NameAssumption DEF Inv, ToldTrue
    <3>2. \A q \in Place : told'[q] \subseteq told[q] \cup (IF q = p THEN {d} ELSE {})
      BY <1>4 DEF Inv, TypeOK
    <3> QED BY <3>1, <3>2, <1>4 DEF Inv, TypeOK, ToldTrue
  <2>5. PostsBelong'
    <3>1. \A u, c : Participates(u, c) /\ c \in Dm => c # d /\ dm'[c] = dm[c]
      BY <1>4 DEF Participates, Inv, TypeOK
    <3> QED BY <3>1, <1>1 DEF Inv, PostsBelong, Participates, postVars
  <2> QED BY <2>1, <2>2, <2>3, <2>4, <2>5, <1>2 DEF Inv
<1> QED BY <1>3, <1>4 DEF CreateDM

-----------------------------------------------------------------------------
\* A step of a post touches the post alone.
LEMMA PostStep ==
  ASSUME Inv, NEW m \in Msg, UNCHANGED <<member, dmVars>>, TypeOK',
         \A n \in Msg \ {m} :
           /\ post'[n] = post[n] /\ job'[n] = job[n]
           /\ n \in blind' <=> n \in blind,
         post'[m] # "new" =>
           /\ job'[m] \in Job
           /\ post'[m] = "address" => job'[m].via = "channel"
           /\ job'[m].via = "channel" /\ job'[m].chan \in Dm =>
                /\ Participates(job'[m].by, job'[m].chan)
                /\ post'[m] \in {"insert", "emit"} /\ m \notin blind' =>
                     job'[m].to \in dm[job'[m].chan][2]
  PROVE  Inv'
<1>1. PostsBelong'
  BY DEF Inv, PostsBelong, Participates, dmVars
<1> QED BY <1>1 DEF Inv, AsksBelong, DmsBelong, DmsDiffer, ToldTrue, BothBelong, dmVars

LEMMA BeginInv ==
  ASSUME Inv, NEW m \in Msg, Begin(m)
  PROVE  Inv'
<1>1. PICK f \in Posting[m] :
        /\ f.via = "channel" => UserCanAccessChannel(f.by, f.chan)
        /\ job' = [job EXCEPT ![m] = Settled(f)]
        /\ post' = [post EXCEPT ![m] = IF f.via = "channel" THEN "address" ELSE "insert"]
  BY DEF Begin
<1>2. UNCHANGED <<member, dmVars, blind>>
  BY DEF Begin
<1>3. /\ Settled(f) \in Job /\ Settled(f).via = f.via /\ Settled(f).by = f.by
      /\ f.via = "channel" => Settled(f).chan = f.chan
  BY SettledType
<1>4. TypeOK'
  BY <1>1, <1>2, <1>3 DEF Inv, TypeOK, PostAt, dmVars
<1>5. job'[m] = Settled(f) /\ post'[m] = IF f.via = "channel" THEN "address" ELSE "insert"
  BY <1>1 DEF Inv, TypeOK
<1>6. f.via = "channel" /\ f.chan \in Dm => Participates(f.by, f.chan)
  BY <1>1, NameAssumption DEF UserCanAccessChannel
<1>7. \A n \in Msg \ {m} : post'[n] = post[n] /\ job'[n] = job[n]
  BY <1>1 DEF Inv, TypeOK
<1> QED BY <1>2, <1>3, <1>4, <1>5, <1>6, <1>7, PostStep

LEMMA AddressInv ==
  ASSUME Inv, NEW m \in Msg, Address(m)
  PROVE  Inv'
<1>1. /\ post[m] = "address" /\ post' = [post EXCEPT ![m] = "insert"]
      /\ UNCHANGED <<member, dmVars>>
  BY DEF Address
<1>2. job[m] \in Job
      /\ (job[m].via = "channel" /\ job[m].chan \in Dm => Participates(job[m].by, job[m].chan))
  BY <1>1 DEF Inv, PostsBelong
<1>3. CASE UNCHANGED job /\ blind' = IF job[m].chan \in Dm THEN blind \cup {m} ELSE blind
  <2>1. TypeOK'
    BY <1>1, <1>3 DEF Inv, TypeOK, PostAt, dmVars
  <2>2. \A n \in Msg \ {m} : /\ post'[n] = post[n] /\ job'[n] = job[n]
                             /\ n \in blind' <=> n \in blind
    BY <1>1, <1>3 DEF Inv, TypeOK
  <2>3. post'[m] = "insert" /\ (job[m].chan \in Dm => m \in blind')
    BY <1>1, <1>3 DEF Inv, TypeOK
  <2> QED BY <2>1, <2>2, <2>3, <1>1, <1>2, <1>3, PostStep
<1>4. CASE /\ job[m].chan \in Dm /\ UNCHANGED blind
           /\ job' = [job EXCEPT ![m].to = CHOOSE o \in dm[job[m].chan][2] : o # job[m].by]
  <2> DEFINE c == job[m].chan
             to == CHOOSE o \in dm[c][2] : o # job[m].by
             j == [job[m] EXCEPT !.to = to]
  <2>1. job' = [job EXCEPT ![m] = j] /\ c \in Dm
    BY <1>4
  <2>2. job[m].via = "channel" /\ Participates(job[m].by, c)
    BY <1>1, <1>2, <2>1 DEF Inv, PostsBelong
  <2>3. dm[c][2] \in Pair /\ job[m].by \in dm[c][2]
    BY <2>1, <2>2, PlaceFacts DEF Inv, TypeOK, Participates
  <2>4. to \in dm[c][2] /\ to \in User
    BY <2>3, PairFacts
  <2>5. /\ j \in Job /\ j.via = "channel" /\ j.by = job[m].by /\ j.chan = c
        /\ j.to \in dm[c][2]
    <3> HIDE DEF to
    <3> QED BY <1>2, <2>2, <2>4 DEF Job
  <2> HIDE DEF c, j
  <2>6. TypeOK'
    <3>1. job' \in [Msg -> Job \cup {NoJob}] /\ blind' = blind
      BY <1>4, <2>1, <2>5 DEF Inv, TypeOK
    <3> QED BY <1>1, <3>1 DEF Inv, TypeOK, PostAt, dmVars
  <2>7. /\ job'[m] = j
        /\ \A n \in Msg \ {m} : post'[n] = post[n] /\ job'[n] = job[n]
    BY <1>1, <2>1 DEF Inv, TypeOK
  <2>8. Participates(j.by, j.chan) /\ j.to \in dm[j.chan][2] /\ post'[m] # "address"
    BY <1>1, <2>2, <2>5 DEF Inv, TypeOK
  <2> QED BY <2>5, <2>6, <2>7, <2>8, <1>1, <1>4, PostStep
<1> QED BY <1>3, <1>4 DEF Address

\* Insert and Emit move a post on; neither looks at what it holds.
LEMMA SendInv ==
  ASSUME Inv, NEW m \in Msg, Insert(m) \/ Emit(m)
  PROVE  Inv'
<1>1. PICK to \in {"emit", "failed", "done"} :
        /\ post' = [post EXCEPT ![m] = to]
        /\ to = "emit" => post[m] = "insert"
  BY DEF Insert, Emit
<1>2. UNCHANGED <<member, dmVars, job, blind>> /\ post[m] \in {"insert", "emit"}
  BY DEF Insert, Emit
<1>3. TypeOK'
  BY <1>1, <1>2 DEF Inv, TypeOK, PostAt, dmVars
<1>4. post'[m] = to /\ \A n \in Msg \ {m} : post'[n] = post[n]
  BY <1>1 DEF Inv, TypeOK
<1>5. /\ job[m] \in Job
      /\ job[m].via = "channel" /\ job[m].chan \in Dm =>
           /\ Participates(job[m].by, job[m].chan)
           /\ m \notin blind => job[m].to \in dm[job[m].chan][2]
  BY <1>2 DEF Inv, PostsBelong
<1> QED BY <1>1, <1>2, <1>3, <1>4, <1>5, PostStep

-----------------------------------------------------------------------------
LEMMA NextInv == Inv /\ [Next]_vars => Inv'
<1> SUFFICES ASSUME Inv, [Next]_vars PROVE Inv'
  OBVIOUS
<1>1. CASE \E u \in User, w \in Workspace : Join(u, w)
  BY <1>1, JoinInv
<1>2. CASE \E r \in Req : \E u, o \in User, w \in Workspace : AskDM(r, u, o, w)
  BY <1>2, AskInv
<1>3. CASE \E r \in Req : CreateDM(r)
  BY <1>3, CreateInv
<1>4. CASE \E m \in Msg : Begin(m) \/ Address(m) \/ Insert(m) \/ Emit(m)
  BY <1>4, BeginInv, AddressInv, SendInv
<1>5. CASE UNCHANGED vars
  BY <1>5 DEF vars, dmVars, postVars, Inv, TypeOK, AsksBelong, DmsBelong, DmsDiffer,
     ToldTrue, PostsBelong, BothBelong, Participates
<1> QED BY <1>1, <1>2, <1>3, <1>4, <1>5 DEF Next

LEMMA Invariant == Spec => []Inv
BY InitInv, NextInv, PTL DEF Spec

\* Channels, requests and posts keep their types: a channel's id of an older
\* post, too, is one of a channel or of two different users.
THEOREM TypeCorrect == Spec => []TypeOK
BY Invariant, PTL DEF Inv

\* However many requests race to create it and wherever one of them fails, a pair
\* has at most one channel in a workspace, and every answer names that one.
THEOREM PairsHaveOneChannel == Spec => []OneChannelPerPair
<1>1. Inv => OneChannelPerPair
  BY PlaceFacts DEF Inv, DmsDiffer, ToldTrue, OneChannelPerPair, Existing, TypeOK
<1> QED BY <1>1, Invariant, PTL

\* What a user is shown is what the user can open, whatever was created and
\* whoever joined in between.
THEOREM ListsAgreeWithAccess == Spec => []ListsMatchAccess
<1>1. ASSUME Inv, NEW u \in User
      PROVE  GetConversations(u) \subseteq BuildHelloForUser(u)
  <2>1. ASSUME NEW d \in Dm, Participates(u, d)
        PROVE  <<u, dm[d][1]>> \in member /\ dm[d][1] \in Workspace
    BY <1>1, <2>1, PlaceFacts DEF Inv, TypeOK, DmsBelong, BothBelong, Participates
  <2> QED BY <2>1 DEF GetConversations, BuildHelloForUser, ListChannels
<1>2. ASSUME Inv, NEW u \in User, NEW c \in BuildHelloForUser(u)
      PROVE  c \in Chan /\ UserCanAccessChannel(u, c)
  BY DEF BuildHelloForUser, ListChannels, UserCanAccessChannel, Chan
<1>3. ASSUME Inv, NEW u \in User, NEW c \in Chan, UserCanAccessChannel(u, c)
      PROVE  c \in BuildHelloForUser(u)
  <2>1. CASE c \in Public
    BY <1>3, <2>1, NameAssumption DEF UserCanAccessChannel, BuildHelloForUser, ListChannels
  <2>2. CASE c \in Dm /\ Participates(u, c)
    BY <1>1, <1>3, <2>2 DEF GetConversations
  <2> QED BY <1>3, <2>1, <2>2 DEF UserCanAccessChannel
<1>4. Inv => ListsMatchAccess
  BY <1>1, <1>2, <1>3 DEF ListsMatchAccess
<1> QED BY <1>4, Invariant, PTL

\* A post into a direct-message channel never reaches a third user's connection
\* while the channel's row can be read.
THEOREM DirectStaysInside == Spec => []DirectStaysDirect
<1>1. Inv => DirectStaysDirect
  <2> SUFFICES ASSUME Inv, NEW m \in Msg, post[m] \in {"insert", "emit"}, m \notin blind,
                      job[m].via = "channel", job[m].chan \in Dm
               PROVE  Audience(m) \subseteq dm[job[m].chan][2]
    BY DEF DirectStaysDirect
  <2>1. Participates(job[m].by, job[m].chan) /\ job[m].to \in dm[job[m].chan][2]
    BY DEF Inv, PostsBelong
  <2>2. dm[job[m].chan][2] \subseteq User
    BY <2>1, PlaceFacts, PairFacts DEF Inv, TypeOK, Participates
  <2> QED BY <2>1, <2>2, NameAssumption DEF Audience
<1> QED BY <1>1, Invariant, PTL
=============================================================================
