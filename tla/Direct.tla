------------------------------- MODULE Direct -------------------------------
(***************************************************************************)
(* Channels: who may open them, how a pair of users comes to one direct-   *)
(* message channel, and whom a message posted into a channel reaches       *)
(* (org/service.go, messaging/dm.go and the handlers over them).           *)
(*                                                                         *)
(* A statement is one step, and so is a transaction; the steps of two      *)
(* requests interleave.  Rows of channels, dm_participants and             *)
(* workspace_members never change or vanish, so a read of them that must   *)
(* find one is merged with the step before it.                             *)
(***************************************************************************)
EXTENDS FiniteSets

CONSTANTS
  User, Workspace,
  Public,          \* public channels
  Home,            \* Home[c]: the workspace of public channel c
  Dm,              \* ids GenerateChannelID may return
  Msg,             \* messages posted, each once
  Req,             \* concurrent requests for a direct-message channel
  Early,           \* workspace_members at the start
  Asked,           \* bound: pairs some request asks for
  Posting,         \* Posting[m]: the requests that may post m
  NoUser, NoDm, NoChan, NoJob

Pair == UNION {{{u, o} : o \in User \ {u}} : u \in User}
Place == Workspace \X Pair
\* A pair stands for the channel id that BuildDMChannelID makes of it: sorted,
\* it is the same for both.
Chan == Public \cup Dm \cup Pair

\* A POST to a channel's messages, or to the older /messages.
Form == [via : {"channel", "messages"}, by : User, to : User \cup {NoUser},
         chan : Chan \cup {NoChan}]
Job  == [via : {"channel", "messages"}, by : User, to : User \cup {NoUser}, chan : Chan]

ASSUME FormAssumption ==
  /\ Posting \in [Msg -> SUBSET Form]
  /\ \A m \in Msg : \A f \in Posting[m] :
       /\ f.to # f.by
       /\ f.via = "channel" => f.chan \in Public \cup Dm
       /\ f.via = "messages" => f.chan # NoChan \/ f.to # NoUser
ASSUME NameAssumption ==
  /\ Home \in [Public -> Workspace] /\ Early \subseteq User \X Workspace
  /\ Asked \subseteq Pair
  /\ NoUser \notin User /\ NoDm \notin Place /\ NoChan \notin Chan /\ NoJob \notin Job
  /\ Public \cap Dm = {} /\ Public \cap Pair = {} /\ Dm \cap Pair = {}

VARIABLES
  member,    \* workspace_members
  dm,        \* channels of type dm, dm_participants: workspace and pair
  ask,       \* requests that found no channel for a workspace and pair
  told,      \* history: the channels answered for a workspace and pair
  post,      \* where the request posting a message is
  job,       \* the message it has come to
  blind      \* history: posted into a DM channel whose row could not be read

dmVars   == <<dm, ask, told>>
postVars == <<post, job, blind>>
vars     == <<member, dmVars, postVars>>

PostAt == {"new", "address", "insert", "emit", "done", "failed"}

TypeOK ==
  /\ member \subseteq User \X Workspace
  /\ dm \in [Dm -> Place \cup {NoDm}]
  /\ ask \in [Req -> Place \cup {NoDm}]
  /\ told \in [Place -> SUBSET Dm]
  /\ post \in [Msg -> PostAt]
  /\ job \in [Msg -> Job \cup {NoJob}]
  /\ blind \subseteq Msg

Init ==
  /\ member = Early
  /\ dm = [d \in Dm |-> NoDm]
  /\ ask = [r \in Req |-> NoDm]
  /\ told = [p \in Place |-> {}]
  /\ post = [m \in Msg |-> "new"]
  /\ job = [m \in Msg |-> NoJob]
  /\ blind = {}

\* addUserToOrg writes a workspace_members row.
Join(u, w) ==
  /\ <<u, w>> \notin member
  /\ member' = member \cup {<<u, w>>}
  /\ UNCHANGED <<dmVars, postVars>>

-----------------------------------------------------------------------------
(* Which channels *)

\* A channel of type dm with u among its participants.
Participates(u, d) == dm[d] # NoDm /\ u \in dm[d][2]

\* Mutant: participants are not looked at.
UserCanAccessChannel_AnyMember(u, c) ==
  \/ c \in Public /\ <<u, Home[c]>> \in member
  \/ c \in Dm /\ dm[c] # NoDm /\ <<u, dm[c][1]>> \in member

UserCanAccessChannel(u, c) ==
  \/ c \in Public /\ <<u, Home[c]>> \in member
  \/ c \in Dm /\ Participates(u, c) /\ <<u, dm[c][1]>> \in member

\* A workspace's channels, for one of its members.
ListChannels(u, w) ==
  IF <<u, w>> \in member
  THEN {c \in Public : Home[c] = w} \cup {d \in Dm : Participates(u, d) /\ dm[d][1] = w}
  ELSE {}

\* The channels of a hello: of every workspace of the user.
BuildHelloForUser(u) ==
  UNION {ListChannels(u, w) : w \in {v \in Workspace : <<u, v>> \in member}}

\* The conversations of a user, whose query asks for no membership.
GetConversations(u) == {d \in Dm : Participates(u, d)}

Existing(p) == {d \in Dm : dm[d] = p}

-----------------------------------------------------------------------------
(* GetOrCreateDM *)

MayShare(u, o, w) == u # o /\ <<u, w>> \in member /\ <<o, w>> \in member

\* The pair's channel is found, or is to be created.
AskDM(r, u, o, w) ==
  /\ ask[r] = NoDm /\ {u, o} \in Asked
  /\ MayShare(u, o, w)
  /\ LET p == <<w, {u, o}>> IN
     IF Existing(p) # {}
     THEN /\ told' = [told EXCEPT ![p] = @ \cup Existing(p)]
          /\ UNCHANGED ask
     ELSE /\ ask' = [ask EXCEPT ![r] = p]
          /\ UNCHANGED told
  /\ UNCHANGED <<member, dm, postVars>>

\* Mutant: dm_participants has no UNIQUE constraint.
CreateDM_Twice(r) ==
  /\ ask[r] # NoDm
  /\ \E d \in Dm :
       /\ dm[d] = NoDm
       /\ dm' = [dm EXCEPT ![d] = ask[r]]
       /\ told' = [told EXCEPT ![ask[r]] = @ \cup {d}]
  /\ ask' = [ask EXCEPT ![r] = NoDm]
  /\ UNCHANGED <<member, postVars>>

\* The transaction: the channel, its participants and channel_members, all or
\* nothing.  UNIQUE refuses it if the pair has a channel by now; a statement may
\* fail; and so may the read that answers the request once it is committed.
CreateDM(r) ==
  /\ ask[r] # NoDm
  /\ \/ /\ Existing(ask[r]) = {}
        /\ \E d \in Dm :
             /\ dm[d] = NoDm
             /\ dm' = [dm EXCEPT ![d] = ask[r]]
             /\ \/ told' = [told EXCEPT ![ask[r]] = @ \cup {d}]
                \/ UNCHANGED told
     \/ UNCHANGED <<dm, told>>
  /\ ask' = [ask EXCEPT ![r] = NoDm]
  /\ UNCHANGED <<member, postVars>>

-----------------------------------------------------------------------------
(* Posting *)

\* OtherUserInDMChannel: whom the channel id names besides u.
OtherUserInDMChannel(c, u) ==
  IF c \in Pair /\ u \in c THEN CHOOSE o \in c : o # u ELSE NoUser

\* SendMessage settles channel and receiver from what it was sent.
Settled(f) ==
  [via  |-> f.via,
   by   |-> f.by,
   to   |-> IF f.via = "messages" /\ f.to = NoUser THEN OtherUserInDMChannel(f.chan, f.by)
                                                   ELSE f.to,
   chan |-> IF f.chan = NoChan THEN {f.by, f.to} ELSE f.chan]

\* ChannelMessages lets the poster in; SendMessage asks for no channel.
Begin(m) ==
  /\ post[m] = "new"
  /\ \E f \in Posting[m] :
       /\ f.via = "channel" => UserCanAccessChannel(f.by, f.chan)
       /\ job' = [job EXCEPT ![m] = Settled(f)]
       /\ post' = [post EXCEPT ![m] = IF f.via = "channel" THEN "address" ELSE "insert"]
  /\ UNCHANGED <<member, dmVars, blind>>

\* Mutant: postChannelMessage keeps the receiver it was sent.
Address_AsSent(m) ==
  /\ post[m] = "address"
  /\ post' = [post EXCEPT ![m] = "insert"]
  /\ UNCHANGED <<member, dmVars, job, blind>>

\* postChannelMessage: a DM goes to its other participant.  GetChannelByID errs
\* for any other channel, and may fail for a DM; its error is dropped and the
\* receiver stays as sent.
Address(m) ==
  /\ post[m] = "address"
  /\ \/ /\ job[m].chan \in Dm
        /\ job' = [job EXCEPT ![m].to = CHOOSE o \in dm[job[m].chan][2] : o # job[m].by]
        /\ UNCHANGED blind
     \/ /\ blind' = IF job[m].chan \in Dm THEN blind \cup {m} ELSE blind
        /\ UNCHANGED job
  /\ post' = [post EXCEPT ![m] = "insert"]
  /\ UNCHANGED <<member, dmVars>>

\* The row is written, or the request fails.
Insert(m) ==
  /\ post[m] = "insert"
  /\ \E to \in {"emit", "failed"} : post' = [post EXCEPT ![m] = to]
  /\ UNCHANGED <<member, dmVars, job, blind>>

\* EmitMessageNew, to whoever of the audience is online.
Emit(m) ==
  /\ post[m] = "emit"
  /\ post' = [post EXCEPT ![m] = "done"]
  /\ UNCHANGED <<member, dmVars, job, blind>>

\* The users whose connections EmitMessageNew sends the message to.
Audience(m) == IF job[m].to # NoUser THEN {job[m].to} ELSE User \ {job[m].by}

Next ==
  \/ \E u \in User, w \in Workspace : Join(u, w)
  \/ \E r \in Req : \/ \E u, o \in User, w \in Workspace : AskDM(r, u, o, w)
                    \/ CreateDM(r)
  \/ \E m \in Msg : Begin(m) \/ Address(m) \/ Insert(m) \/ Emit(m)

Spec == Init /\ [][Next]_vars

-----------------------------------------------------------------------------
(* Properties *)

\* However requests for it overlap and fail, a pair has one channel in a
\* workspace, and every answer names it (org/service.go lines 196-254).
OneChannelPerPair ==
  \A p \in Place : \A d, e \in told[p] \cup Existing(p) : d = e

\* What the hello and the conversations list show to a user are the channels the
\* user can open: three queries that each decide by other tables (ListChannels,
\* GetConversations, UserCanAccessChannel).
ListsMatchAccess ==
  \A u \in User :
    /\ BuildHelloForUser(u) = {c \in Chan : UserCanAccessChannel(u, c)}
    /\ GetConversations(u) \subseteq BuildHelloForUser(u)

\* A message in a direct-message channel is sent to its participants only, if it
\* was posted through the channel and the channel's row could be read
\* (org_handlers.go lines 136-222).
DirectStaysDirect ==
  \A m \in Msg :
    /\ post[m] \in {"insert", "emit"} /\ m \notin blind /\ job[m].via = "channel"
    /\ job[m].chan \in Dm /\ job[m].by \in dm[job[m].chan][2]
    => Audience(m) \subseteq dm[job[m].chan][2]

=============================================================================
