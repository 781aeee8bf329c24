# Verification of the Cocina chat server

TLA+ models of the server in `src/` (Go, SQLite, WebSockets), the TLC runs that
check them on small instances, and theorems about them checked by TLAPS.
Line numbers refer to the files under `src/`. The repository has no tests; its
`README.md` and comments are the only statements about it besides the code.

    tlc -workers 2 -config HubNotices.cfg HubMC.tla      one run; likewise HubPosts, HubLive,
                                                         HubNoticePanic
    tlc -workers 2 -config Session.cfg SessionMC.tla     likewise Direct, History, Server, Keys
    tlc -workers 2 -config MembershipRace.cfg MembershipMC.tla
                                                         likewise MembershipSerial, MembershipLinked
    tlapm HubProofs.tla                                  likewise SessionProofs, DirectProofs,
                                                         HistoryProofs, ServerProofs, KeysProofs,
                                                         MembershipProofs, DirectoryProofs

## 1. Inventory

| Component | State | Operations | Hard part |
|---|---|---|---|
| Hub (`messaging/websocket.go`) | `Hub.clients` (one entry per user), per connection a 256-frame queue `Send`, `UserID`, the two pumps | `Run` (register, unregister), `ReadPump` and its handlers, `writePump`, `EmitMessageNew` and the other fan-outs | goroutines meet on unbuffered channels; recipients are collected under `h.mu` and sent to after it is released; queues are closed while others send |
| Session numbering and replay (same file) | `Client.seq`, `Hub.sessionBuf`, `client.Mu` | `enqueue`, `handleIdentify`, `tryReplay` | several goroutines and several sockets number for one user; the buffer is read before the client registers and copied after |
| Typing (same file) | `Client.typingTTL`, timers | `typing.start`, `typing.stop`, expiry | timer goroutines and ReadPump share a map without a lock |
| Presence | `Hub.presence`, `users.presence_status` | websocket and REST updates, hello | a cache written by several goroutines after separate database calls |
| Message store (`messaging/service.go`, `receipts.go`, `handlers/org_handlers.go`) | `messages`, `message_receipts` | `SendMessage`, channel history, `MarkDelivered`, `MarkChannelRead` | times have one-second resolution; paging while messages are written; two statements per mark |
| Direct-message channels (`org/service.go`, `messaging/dm.go`) | `channels`, `dm_participants` | `GetOrCreateDM`, the lists of channels, posting into them | check then insert; three queries and two endpoints with different conditions |
| Membership (`org/`, `auth/service.go`, `handlers/`) | `users`, `org_members`, `workspace_members`, `channel_members`, `org_invitations`, `server_settings` | register, login, bootstrap, roles, invitations, Identity sync, link | requests run at the same time, one autocommitted SQL statement at a time; errors ignored in some reads; writes that fail half-way |
| Network settings (`network/settings.go`, `handlers/admin_handlers.go`) | settings rows, `Service.serverURL`, URLs of organisations | load, save, registration, probe | settings are saved one by one, then memory, then rows, then Identity |
| Identity client (`identityclient/`) | the URL Identity holds for this server | register server, fetch memberships | lost requests and lost answers before four local statements |
| JWKS cache (`auth/identity.go`) | key set, time of the fetch | verify a token | overlapping fetches; the last answer stored wins |
| Database and migrations (`database/`) | schema, seed, user ids, `organizations.server_url` | `seedDefaultOrg`, `migrateUserIDsToUUID`, `backfillOrgServerURLs` | many statements, a crash between any two |
| Process (`cmd/server/main.go`) | none that survives but the database | start, shutdown | order of the start; the shutdown does not wait |
| Tokens and passwords, routing, CORS, configuration, ids, admin page | none of their own | encoding, cryptography, plumbing | not modelled |

How they interact: HTTP handlers call the services, which share one SQLite file
through `database/sql`'s pool; `SendMessage` then calls the hub, which writes
receipts through the message service. A `ReadPump` calls the auth, organisation
and message services for what its peer says. Identity is asked over HTTP at
login, at start-up and when the network settings are saved. After a restart the
database is all that is left.

What makes each part correct:

* the hub routes to a connection it has retired only under an account that
  connection has left for another, addresses every frame to somebody who has held
  the right token, cannot be held up by full queues, and takes a leaving
  connection off its list;
* numbers of a session have no gap, and neither has a replay;
* a direct message reaches its two participants, a pair has one channel, and
  what is listed can be opened;
* nobody's receipt says more than that person named, and a walk through history
  ends and shows everything;
* membership counts an invitation's uses exactly, lets only administrators hand
  out administration and only in their organisation, never gives access to a
  workspace without membership, and loses its last administrator only to a request
  whose caller was demoted while it ran;
* the database is consistent wherever the process dies, and a save of the
  network settings leaves everybody with the same URL;
* a withdrawn key stops being accepted, a published one is known.

`PROJECT.json` lists the hazards one by one.

## 2. Modules

| Module | What it is |
|---|---|
| `Registry` | abstract: one current connection per user, a retired connection never comes back |
| `Hub`, `HubMC` | the goroutines of `websocket.go`, one atomic step each; implements `Registry` |
| `HubProofs` | inductive invariant of `Hub`, eight theorems |
| `Session`, `SessionMC` | numbers, kept frames and replays, with `client.Mu` as a lock |
| `SessionProofs` | inductive invariant of `Session`, three theorems |
| `Direct`, `DirectMC` | channels of a pair, lists of channels, addressing of posts |
| `DirectProofs` | inductive invariant of `Direct`, four theorems |
| `History`, `HistoryMC` | messages with one-second times, receipts, paging |
| `HistoryProofs` | inductive invariant of `History`, six theorems |
| `Directory` | abstract: the membership tables as a serial service of atomic operations |
| `Membership`, `MembershipMC` | the requests over `org/` and `auth/`, one SQL statement per step; implements `Directory` when requests do not overlap |
| `MembershipProofs` | inductive invariant of `Membership`, nine theorems |
| `DirectoryProofs` | administrators and founders under overlapping requests; without overlap, the refinement of `Directory` and the bound on uses |
| `Server`, `ServerMC` | start of the process, network settings, Identity |
| `ServerProofs` | inductive invariant of `Server`, five theorems |
| `Keys`, `KeysMC` | the cache of Identity's keys |
| `KeysProofs` | inductive invariant of `Keys`, three theorems |

The modules meet at the tables and calls they share. A message is addressed in
`Direct`, written in `History`, handed to connections in `Hub` and numbered in
`Session`; each takes what the one before decides as any value it may have
(`Sender` and `Receiver` of `Hub`, `To` and `In` of `History`). `Membership`
takes linking as one step that `Server` opens up into the request to Identity and
four statements, and `Server` leaves to `Membership` the rows of members.
Definitions whose comment begins with "Mutant" are variants of the code with a
plausible bug, which the properties are tried on; no specification uses them.

### Hub

A step is what happens between two points where another goroutine can get in:
one critical section of `h.mu`, one channel operation, one database call, or the
hand-over of one frame to one connection.

* `clients`, `userID`, `send`, `closed` are the fields of the same names; of the
  queue only its length is kept. `reader[c]`, `writer[c]` and `hubAt` are the
  program counters of a ReadPump, a writePump and of `Hub.Run`, `post[m]` that of
  the HTTP handler of a message. `todo[p]` is the rest of the slice a goroutine
  collected under `h.mu` and is walking through (lines 201-234, 501-512, 530-545,
  606-650). A connection with two entries is in that slice twice; here it gets
  one frame.
* `client.Mu` is a lock, for its holders write to the socket: `MuFree(c)` says
  that neither the writePump (`WriteLock`, then `WriteDone` or `WriteError`) nor a
  replay (`ReplayLock`, `EndReplay`) has it. `enqueue` holds it for straight-line
  code, so that waiting for it is a guard of `HandOver`, `SendDirect` and
  `SendFrame`. `h.mu` is held for straight-line code only, also where `enqueue`
  takes it under `client.Mu` (160-167); nobody takes them in the other order.
* `TakeRegister`, `TakeUnregister`: the unbuffered channels, so both goroutines
  move. `Register`, `Unregister`: the critical sections of `Run`; `EmitOnline`,
  `EmitOffline` its presence words.
* `HandOver(p, c)`: `sendToClient`. A full queue drops the frame. A closed one
  panics; outside an HTTP handler nothing recovers it, so the step is `Restart`;
  in a handler `net/http` recovers and the request ends (`Abort`).
* `Greet`: after registration either a replay straight to the socket (nothing
  enters the queue) or a hello through the queue.
* `told` and `been` are history: the last presence word sent out about a user, and
  the users a connection has identified as.

Left open on purpose (every outcome allowed): whether a status is "offline",
whether a replay succeeds, whether `MarkDelivered` fails. Not in the model:
frame contents, typing expiry, `BroadcastPresence` of the REST handler, the
exported functions nobody calls (`BroadcastRaw`, `SendToUser`,
`UnregisterClient`, the `broadcast` channel), and the welcome (485-487), which is
the first write to a socket whose buffer is empty.

*A peer may change accounts.* `handleIdentify` accepts another account's token on
a socket that has identified before. `userID` then changes while `Hub.clients`
still names the connection under the first account, nothing is said about that
account, and its entry survives the unregister with a closed queue. `Holds[c]` are
the accounts whose tokens a peer has, and every property of the hub is stated for
any `Holds`: what the code keeps although accounts change, and the exceptions,
which are all of connections that have changed (`been`). *Talkers* only bounds
which peers say more than "identify".

*Data races.* `Client.UserID` is written by `handleIdentify` and read by every
fan-out without a lock, `Service.serverURL` by a save and by logins. A read is
modelled as returning one of the values written; a torn Go string header is not.

### Session

`seq`, `buf` and `mu` are `Client.seq`, `Hub.sessionBuf` and `client.Mu`; a kept
frame is its number and the connection that numbered it. A goroutine that sends
one frame is at `task[p]`: `Collect` or `Reply` chooses the connection, `Number`
takes `client.Mu` and the number (lines 149-156), `Keep` appends to the
account's buffer under `h.mu` and releases (157-172), `Offer` is the send on the
queue, whose capacity is `Hub`'s subject. `reader[c]` walks through
`handleIdentify`: `TakeName`, `ReadLast` (369-374), `TakeRegister`, `Greet` (a
copy of what the peer has not seen, or a hello), `ReplayLock` and one
`ReplayWrite` per frame (386-420). Here a peer may change accounts (`Again`).

* `Restart` empties everything: the buffers are in memory only.
* `latest`, `split` are history. `split[u]` is set when a frame is
  numbered for the account on a connection that did not read its buffer last, or
  kept after another has read it: two devices of one account do number against
  each other, and then nothing is claimed about their numbers.
* `replayBuf` is written and never read, so it is left out. `Leave` merges the
  end of ReadPump with the hub's unregister (`Hub` has both), and the writePump's
  holds of `client.Mu` are `Hub`'s.

### Direct

`dm[d]` is a row of `channels` with its two of `dm_participants`, `ask[r]` a
`GetOrCreateDM` that has found no channel (`AskDM`) and not yet run its
transaction (`CreateDM`, which UNIQUE may refuse, a statement may fail, and whose
answer may be lost). `ListChannels`, `BuildHelloForUser`, `GetConversations` and
`UserCanAccessChannel` are the queries of these names. A post goes `Begin`
(access check, and what `SendMessage` settles from a receiver or a channel id),
`Address` (`postChannelMessage`, which drops the error of `GetChannelByID`),
`Insert`, `Emit`; `Audience` is whom `EmitMessageNew` looks for. An id made by
`BuildDMChannelID` is the unordered pair. `blind` is history: posts whose channel
row could not be read. Rows of these tables are never changed, so a read that
must find one is merged with the step before.

### History

A message is `Stamp`ed with the second, then written (`Insert`): time stands
still for nobody in between, so rows need not appear in the order of their times.
`MarkDelivered` and the two statements of `MarkChannelRead` (`MarkRead`,
`MarkReceipts`) are steps; the second may fail. `Pages(n, S)` are the results of
`ORDER BY created_at DESC LIMIT n`, rows of one second in any order; `Follow` is
the client, going on from the oldest message it was shown (`before`) or from
`next_cursor`. The page, `limit + 1` rows of it, and the panic of a negative
limit are `NextPage`. `named`, `lost` and the walk's `begun`, `seen`, `cursors`
are history. A statement that fails alone changes nothing and is no step.

### Membership

`at[r]` is the statement the request `r` runs next, `op[r]` what was asked, and
`org[r]` the organisation it works on. SQLite autocommits each statement, so a
statement is a step; `AcceptInvitation`'s transaction (`Join`) is one step, since
`_txlock` or not, its first write takes the write lock and its later statements
see what it saw.

* `Fail` is a statement that returns an error where the code looks at it
  (`SQLITE_BUSY` is possible: the busy-timeout parameter in `database.go`'s DSN
  is not one this driver reads); `Unreadable` allows a failed query where the
  code ignores the error and goes on with a zero (`HasAnyOrgAdmin`,
  `UserIsOrgAdmin`, the callers of `getLinkedIdentityOrgID`). `Crash` loses
  every request in flight and keeps the tables.
* Merged reads: `UserIsOrgAdmin`'s two queries, the linked organisation read twice in
  `EnsureDefaultOrgForUser`, and `Register`'s `COUNT` with its `INSERT` (the
  unique columns refuse what the count refuses).
* A request with an Identity token is one `sync` per matching membership, or
  `fallback` when Identity could not be asked. `link` is
  `TryLinkIdentityOrg`; `relink` is the registration at start-up and in
  `SaveNetworkSettings`, which do not ask whether the server is linked already
  (the admission check before the latter is left out: any caller may relink).
* `Seed` says how far the start's seed of the default organisation may have come:
  2 is all of it, 0 and 1 lack the workspace or the channel for good
  (`database.go` 226: the seed is not tried again).
* Not represented: tables nothing reads back (`sessions`, the role column of
  `workspace_members`, the setting `admin_bootstrap_complete`), names, passwords,
  tokens, URLs. The target of a role change need not be an account: the code
  does not check it, and the schema's foreign keys are not enforced.
* `sentinel` are the accounts Identity provisioned, which have no password here:
  signing in locally is refused (`auth/service.go` 286).
* `via`, `by`, `everAdmin` are history: which token inserted a row, who ordered
  the role it holds, and who has ever been made an administrator of what by
  somebody else (the first bootstrap and Identity included). Promoting oneself
  puts nobody on that record, so it is evidence of authority, not its echo.

### Server

`at[Start]` walks through the start: `Count`, `Seed` (three statements),
`Backfill`, then the registration (`RegisterServer`, `EnsureIdentityOrg` with its
four statements). A request is a `Save` of the network settings (`SaveSettings`
statement by statement, `Load`, `SetOwn` and `UpdateRows` of `UpdateNetworkURLs`,
registration) or a `Login` through Identity (`TryLinkIdentityOrg`, `GetUserOrgs`).
`row`, `space`, `channel`, `link`, `setting` are in the database; `own` is
`Service.serverURL`; `told` is what Identity holds. A URL is its host and whether
it ends in `/api/v1`; `ServerAPIURL` adds the path, `BaseURL` is what
`NormalizeServerURL` compares by.

* Identity is external: a request may be lost, or taken while its answer is lost.
* `Crash` may come between any two steps; `Fail` is a statement that errs.
* A read whose error the code drops may find nothing: `Load` then takes the
  configured URL (`settings.go` 99-106), `SetOwn` and `Login` take the link for
  absent (`org/service.go` 315, 460).
* `alone`, `synced` and `misread` are history: the save nothing has run beside,
  those whose registration was written down, and those that could not read back
  the base they had saved.
* The configured host stands for `http://localhost…`, which
  `UpdateNetworkURLs` and the backfill look for; `Backfill` writes the configured
  URL, the code's default port included.
* Left out: the frontend's and Identity's URL, deployment mode and
  `last_sync_at`, which only answers show; the rows of members that a login
  writes; the probe; the migration of user ids, one transaction; the
  rewriting of the channel id `general` and the
  `ALTER TABLE`s, single statements that can be repeated.

### Keys

A call of `Validate` is `Begin` (the key id of its token), `Lookup` under the read
lock, and, if the key is missing or the set is old, a fetch (`Answer` at
Identity, then `Store`, which replaces the set and dates it by its arrival) and
a second look (`Reread`). Nothing keeps two calls from fetching at once. Identity
publishes and withdraws keys when it likes. Time is counted in ticks; a fetch
takes at most `Timeout`, and what does not wait for the network takes less than a
tick. Signature, issuer and claims come after the key and are left out.

## 3. What the runs check

| Run | Instance | Shows |
|---|---|---|
| `HubNotices` | a socket that changes between two accounts and talks, one of one account, 2.6M states | `TypeOK`, `RoutesAreLive`, `OwnersNeverPanic`, `NoGhostOnline`, `NoticesAddressed`: what closed queues, presence words and notices go to, and that the exceptions are connections that changed accounts; `ImplementsRegistry`: a late unregister does not unseat a newer connection, a dead one never comes back under its name |
| `HubPosts` | a socket that changes accounts, a direct and a channel message, 195k states | `PostsAddressed`: frames and receipts go to holders of the right token; `PostsEnd`: a handler ends though only handlers and writePumps are scheduled, unless a replay hangs |
| `HubLive` | one socket each of two users, no messages, 108k states | `HubAnswers`, `RouteIsCleared`, `PumpsEndTogether`, unless a replay hangs |
| `Session` | two sockets, two accounts, a fan-out and pongs, 1.2M states | `TypeOK`, `NumbersContiguous`, `ReplayContiguous` |
| `Direct` | three users, two workspaces, two requests, two posts, 535k states | `OneChannelPerPair` although requests race; `ListsMatchAccess`; `DirectStaysDirect` |
| `History` | four messages of two seconds in two channels, one reader, pages of two, 897k states | `TypeOK`, `ReadIsNamed`, `FlagsHaveReceipts`, `ReadStaysRead`; `WalkMissesOnlyTies`, `WalkEnds` |
| `Server` | two requests beside the start, two public hosts, two deaths, 1.2M states | `RowsHaveParents`, `LinkIsWhole`, `SetupMeansSaved`, `SyncedSaveAgrees` |
| `Keys` | three calls, two keys, four ticks, 1.9M states | `WithdrawnKeysFade` after the TTL and a request; `PublishedKeysAreKnown` after a request |
| `MembershipSerial` | one request at a time, server of its own, failures and crashes, a seed cut short or not, 472k states | `TypeOK`; `ImplementsDirectory`; `AdminStays`, which is here that an administrator always remains; `FoundersBounded`, which is here that there is one founder |
| `MembershipRace` | two requests at a time, failing writes and reads, crashes, 2.8M states | `UseCountExact`, `GrantsAreAuthorised`, `NoStrayAccess`; `AdminStays`: the last administrator goes only to a request whose caller another one has demoted |
| `MembershipLinked` | four accounts, two requests at a time while the server is linked, a seed cut short or not, 4.8M states | `GrantsStayInside`, `MembersAreComplete`, `UsesBounded` |
| `HubNoticePanic` | one socket each, one peer talks | refutes "WebSocket hub for real-time messages, presence, and typing indicators" (`README.md` 46): a typing, read or status fan-out of a ReadPump meets a queue that `Hub.Run` has closed since, and the panic ends the process |

The type invariants of `Direct`, `Server` and `Keys` are theorems only.

### Bounds

*Hub.* In `HubNotices` bob may have two sockets, which take over from each other,
and the first may be alice's or bob's in turn, so that entries survive and notices
to others happen too; only that socket talks. `HubPosts` has one recipient for two
messages and two handlers, who meet in its lock and its queue. `HubLive` has a
socket each, for liveness over changing accounts is too large; take-over is in
`HubNotices`. A queue of one frame is full after one frame. Each connection is
opened at most once, so a reconnect is another connection.

*Session.* Two sockets can take over from each other, and one may change
accounts. A buffer of two frames is trimmed by the third; the gap of two lies
inside it. `MaxSeq` bounds which connections are given another frame to send, by
the number they have reached: frames under way may pass it.

*Direct.* Three users make two overlapping pairs, one of whose members joins
while the run goes on; two ids are enough for a pair to get a second channel.

*History.* Four messages with pages of two make a walk of several pages; two
seconds make ties inside a page and between pages. One message in another channel
is there to be named by mistake. `MaxCalls` bounds the different calls that mark
the channel read, not how often they are made.

*Server.* Two public hosts and the configured one tell an old save from a new one
and from the start; two deaths allow one during the start that follows another.

*Keys.* A key may be published and withdrawn again within `MaxTime`, and the two
bounds of the properties are tight: with one tick less each is violated.

*Membership.* Two requests in flight give every pairwise race, two accounts every
subject/target/caller combination a request can name; `MembershipLinked` adds two
newcomers, so that a token with one use is wanted by three: enough for an overrun
and for one more than the bound allows. `Expire` may happen at any moment.
`Seed` is every length of the seed where one request runs, none or all of it where
the server is linked, and all of it in `MembershipRace`, whose properties do not
speak of workspaces that are missing.
`Standalone`, `Racing` and `Linking` in `MembershipMC` bound what is asked.

The theorems below hold for any bound.

*Symmetry* is used only where accounts, connections, calls or ids are
interchangeable in the instance, and with safety properties only (the action
properties of `Keys` and `Membership` among them).

*Deadlock* is not checked: every connection may have left, every message been
posted, and nobody has to send a request.

### Fairness

*Hub.* Goroutines that can run are scheduled: weak fairness for the pumps. A
goroutine waiting on `register` or `unregister` is served again and again: strong
fairness, as Go's `select` picks at random among ready cases and serves one
channel's senders in order. So is one waiting for `client.Mu`: a Go mutex is handed
to a waiter that has been passed over for a millisecond. writePump's writes end
within their 10-second deadline (268-283); the 30-second ping fails once the peer
has gone; a socket the pump has closed fails `ReadMessage`. What happens to a
connection once only (`Departs`) shares one fairness condition, which is as good as
one each. Nobody has to connect, speak, post or crash. `PostsEnd` assumes the
handlers' and the writePumps' goroutines only.

`tryReplay` sets no deadline before it writes under `client.Mu` (403-409), and if
writePump has not written yet, none is in force: a peer that does not read can then
hold whoever sends to it, `Hub.Run` included, for good. The code does not prevent
it, so fairness does not either: each liveness property of the hub says "as long as
no replay hangs" (`NoReplayHangs`). Without that condition TLC finds all four
violated.

*History.* A client that has begun to read goes on, and its requests are answered
or fail: weak fairness of `NextPage`. That a walk along `next_cursor` ends is not
clear from the code, for it names the newest message of a page; it does because
each cursor is of an earlier second than the one before.

*Assumptions of single properties.* `NumbersContiguous` and `ReplayContiguous`
are about accounts for which only the connection that identified last numbers.
`DirectStaysDirect` is about posts through the channel whose row could be read.
`SyncedSaveAgrees` is about a save nothing runs beside. `GrantsStayInside` is
stated for one organisation of Identity and readable tables, whatever else fails:
linking to a second organisation, or taking an unreadable link for none, sends a
caller admitted for one organisation on to another. `MembersAreComplete` is for
requests none of whose statements fails, and for organisations whose seed was not
cut short (`Placeable`): a failure in the middle of `addUserToOrg` leaves a partial
membership that a server of its own never repairs. `FoundersBounded` and
`ImplementsDirectory` are for readable tables, for a bootstrap that cannot count
administrators goes on as if there were none; the latter is also for requests that
do not overlap. `AdminStays` assumes nothing.

### What the code does besides

Seen while modelling, and denied by no property; each is a consequence of code the
modules contain or of the lines named.

*Connections and frames.*
- A second device of a user replaces the first one's route; the first stays open
  and silent (`websocket.go` 42, 82). Its late unregister announces offline a user
  who is still connected (95).
- A socket that identifies again with another account's token keeps its entry
  under the first account, which stays announced online. When the socket closes,
  the entry survives with a closed queue (89-91), and the next fan-out of
  `Hub.Run` or of a ReadPump to it ends the process. Frames under way to the
  first account reach the second (366).
- A replay to a peer that does not read can hold `Hub.Run` (150, 403-409).
- A frame dropped by a full queue is recorded and receipted as delivered all the
  same (213, `receipts.go` 9).
- Two sockets of one account give the same numbers. A frame numbered between the
  hub's receive of a registration and the new route may miss both the replay and
  the new connection. Frames may enter the queue in another order than that of
  their numbers. Messages for a user who is offline are never numbered, hence
  never replayed.
- `last_seq` belongs to one run of the process and nothing says so: after a
  restart an old one is compared with new numbers. After trimming, a replay that
  begins less than `MaxReplayGap` later leaves out frames without a word.
- The deadline writePump sets on the socket stays; a later replay may run into it.

*Messages and channels.*
- `POST /messages/send` with the id of a direct-message channel and no receiver
  goes to everyone online, since only `dm::` and `dm_` names are taken apart. So
  does a post whose channel row cannot be read (`org_handlers.go` 204).
- `GetMessageHistory` of a user reads `message_participants`, a table no statement
  creates: it always answers an error, though `README.md` 192 lists the endpoint.
- `next_cursor` names the newest message of a page (`org_handlers.go` 179); a page
  that ends within a second loses the rest of that second; a negative limit makes
  the slice expression panic (176).

*Membership.*
- Two overlapping bootstraps both count no administrator and both succeed
  (`org/admin.go` 30; `README.md` 207 says "only when no admin exists"). Two
  administrators who demote each other at the same time both succeed, and none is
  left: the exception `AdminStays` makes.
- On a server that is not linked, registering makes a plain member before the
  invitation is looked at, so the token's role is not given and its use not
  counted (`handlers.go` 90; `README.md` 48). If the first step fails, it is.
- After linking, the owner made by bootstrap is refused by the admin API, while
  `HasAnyOrgAdmin` still refuses a new bootstrap (`org/service.go` 332-352).
- Identity's role is applied with `INSERT OR IGNORE` (506): later promotions and
  demotions there do not reach the row.

*Process, settings and Identity.*
- The seed is skipped once there is an organisation: a crash after its first
  statement leaves no default workspace for good, and whoever registers then
  becomes a member who can open nothing.
- A save whose public URL cannot be read back goes on with the configured one, in
  memory and at Identity (`settings.go` 99-106).
- The migration does not rewrite `message_receipts.user_id` and
  `org_invitations.created_by`. The schema's foreign keys are not enforced:
  SQLite needs a PRAGMA, which inside the migration's transaction does nothing.
- A restart registers the configured URL, and memory starts from it, whatever was
  saved. Without a link a row keeps the first public URL it was given
  (`org/service.go` 326). Overlapping saves mix.
- Each token with an unknown key id fetches the key set anew.
- `ListenAndServe` returns as soon as `Shutdown` begins, and `main` with it:
  requests in flight are cut between two statements (`main.go` 113-140).

## 4. What is proved

Each `…Proofs` module states an inductive invariant (`IInv` or `Inv`), proves that
`Init` implies it and every step keeps it, one step per action, and derives its
theorems. All hold for all sets of connections, users, messages, requests and
keys and every capacity and bound.

`HubProofs`, for any accounts a peer may hold: `TypeCorrect` (a queue never
exceeds its capacity), `RoutesStayLive`, `OwnersStaySafe`, `FramesStayAddressed`,
`NoticesStayAddressed`, `NoGhosts`, and `HubImplementsRegistry`, the refinement
step by step, of the entries that still bear their connection's name.
`RoutesAreLive` needs to know that a queue is closed only after its ReadPump has
ended and its unregister was processed (`ClosedInv`), that a connection is filed
under users it has been, and that an entry outlives its ReadPump only while `Run`
works on that very unregister, or under an account the connection has left
(`RouteInv`); that needs what `Run` holds at each of its points (`HubInv`) and
that a connection goes by one of the users it has been (`PeerInv`). `ToldInv`
follows whom the hub last announced to a connection that is still there or has
changed. `OwnersNeverPanic` needs that `Run` fans out only between cases and then
has no closed queue before it but those of changed connections (`RunInv`), and
that a ReadPump or a handler has targets only while it sends (`FanInv`).
`PostsAddressed` and `NoticesAddressed` are inductive because `been` only grows.
`HandlersGoOn` is the safety half of `PostsEnd`: a handler that is to send has a
target, nobody else touches its place or its targets, and each of its steps lowers
how far it has to go (`Left`, then the targets that remain). What is left to TLC
is that it is scheduled and that `client.Mu` is given back.

`SessionProofs`: `TypeCorrect`, `NumbersStayContiguous`, `ReplaysHaveNoHole`.
Numbers stay contiguous because, while only the last reader of a buffer numbers
for its account, at most one frame is under way to the buffer and it is the
successor of the last one kept (`LineInv`); that it is only one is the lock
(`LockInv`), and that the last reader of a buffer still has its account is
`NameInv`. A replay is a copy of an end of a contiguous buffer.

`DirectProofs`: `TypeCorrect`, `PairsHaveOneChannel`, `ListsAgreeWithAccess`,
`DirectStaysInside`. The transaction does not check again that both users belong
to the workspace; that they still do (`AsksBelong`, `DmsBelong`) is why a
conversation can always be opened.

`HistoryProofs`: `TypeCorrect`, `ReadsAreNamed`, `FlagsGetReceipts`,
`ReadingLasts`, `WalksMissOnlyTies`. A walk's invariant is that each message of
the beginning is shown, or tied with a cursor, or still ahead (`Ahead`).
`WalksDescend` is the safety half of `WalkEnds`: each page that does not end the
walk takes the cursor to an earlier second, also along `next_cursor`.

`ServerProofs`: `TypeCorrect`, `RowsKeepParents`, `LinksAreWhole`, `SetupIsSaved`,
`SyncedSavesAgree`. How far seed, registration
and save have come is read off their places (`Rows`, `Saved`); what a lonely save
has settled stays as it left it (`Agree`).

`KeysProofs`: `TypeCorrect`, `WithdrawalsTakeEffect`, `PublicationsTakeEffect`.
The key is to date a set by what it tells of Identity (`Tells`): an answer tells
of the moment its call asked, so a set in the cache is at most `Timeout` older
than its date, whichever was stored last (`Ages`).

`MembershipProofs`, for whichever statements and reads fail: `TypeCorrect`;
`UsesAreExact`, inductive together with "an account without a row came by no
token" (`UseInv`): a use and its row are one transaction, and a later change of
role keeps the token the row came by; `UsesStayBounded`: the state alone does not
say how often the bound may still be overrun, so `BoundInv` adds the requests that
have compared and not yet counted, at most one use each; `NobodyStrays`, from the
order of `addUserToOrg`'s statements (`PlaceInv`); `GrantsStayAuthorised`: what a
request checked may be stale when it writes, so the invariant follows authority,
not roles: every administrator, every issuer of a token and every caller past the
first check of the admin API is on the record of `everAdmin` (`AuthorityInv`);
`OrganisationsAreReady`: the linked organisation is whole, and whatever else is
referred to, by a request or a token, was made whole before or is the default one,
which a seed that was cut short leaves without (`ReadyInv`, `SeedStays`);
`TokensClose`, from the three statements that write a token. All rest on
`ControlInv` (which kinds of request run which statement, with which arguments)
and `TokenInv` (a token in use has been issued); `OthersStay` and `Origins` say
once and for all which steps lead to which statement.

Two theorems of `MembershipProofs` assume something. `MembersStayComplete`, that
no statement fails: then a member is complete, or the request that inserted the
row is still on its way to the workspace and the channel (`CompleteInv`), which
are there to be found (`ReadyInv`) if the organisation was made whole.
`GrantsKeepInside`, one organisation at Identity and readable tables: the hard
case is a request of the admin API that is admitted before the server is linked
and works after. `HomeInv` says that before the link everything happens in the
default organisation, so whoever was admitted then is on its record; `OrderInv`
carries that to the second check, made after the organisation was chosen, and says
that whoever is past it is on the record of that organisation. `JoinInv` does the
same for tokens: a request joins the organisation its token is of.

`DirectoryProofs` has two theorems for any number of overlapping requests.
`AdminsRemain`, whatever fails: only a role change takes an administrator away, it
was let in past "cannot demote yourself" (`SelfInv`), and its caller was then an
administrator of record (`AuthorityInv`), so that either the caller still is one,
or another request has demoted it since; a request that is alone is not overtaken
(`AloneIsAhead`). `FoundersStayBounded`, if tables can be read: the founders there
are and the bootstraps that are past the count never outnumber the requests, since
who counts finds no administrator, hence no founder who is one (`FirstOwns`,
`FoundInv`).

`SerialImplements` and `UsesNeverOverrun` assume that requests do not overlap
(`OneAtATime`). Statements still fail and the process still dies between any two of
them. What a request has read then stays true until it writes: an admitted caller
is an administrator who does not demote itself (`CallerInv`), a bootstrap finds no
administrator (`FounderInv`, where tables must be readable), a token that was
usable has at most expired (`UsableInv`), and a membership Identity asserts is
written in its own organisation (`AssertedInv`). `SerialImplements`, for readable
tables, maps every statement to one operation of `Directory` or to none: `AddOrg`
and `SetOrg` to `Enrol`, `Found`, `Appoint` or `Assert` by the kind of request,
`Join` to `Redeem`, `Insert`, `Revoke` and `Expire` to theirs.

Otherwise the assumptions used are those the modules declare about their
constants.

Only model-checked: the five liveness properties (`HubAnswers`, `RouteIsCleared`,
`PumpsEndTogether`, `PostsEnd`, `WalkEnds`), since fairness and ENABLED are out of
this prover's reach. Every safety invariant, action property and refinement that
a passing run checks is also a theorem.

## 5. Not modelled

* *Typing timers.* `Hub` has typing notices, not the timers that end them. A
  timer's callback deletes the channel's entry of `typingTTL` without a lock
  (`websocket.go` 475): it may delete the entry of a newer timer, which
  `typing.stop` then cannot stop, and a concurrent write to the map ends the
  process. Its "stop" may overtake a "start" held up at a slow socket. Everything
  the code promises here is broken by that race, and no text states more.
* *Presence.* `UpdatePresence` and `BroadcastPresence` of the REST handler,
  `handlePresenceUpdate` and `getPresenceForUser` each touch the database and the
  cache in two steps, so that they may differ until the next read; `Hub` leaves
  the status open instead.
* The migration of user ids (`migrateUserIDsToUUID`), one transaction: that it
  writes all or nothing is SQLite's promise, and which columns it leaves out is
  said in section 3.
* The health probe, whose answer changes nothing.
* Cryptography, token formats and passwords, HTTP plumbing, CORS, configuration,
  the embedded page, logging: stateless.
* The Identity service itself: its answers are inputs.

Worth doing next: `Presence` as a module of its own, and the safety halves of the
hub's three liveness properties.
