------------------------------- MODULE Server -------------------------------
(***************************************************************************)
(* The life of the server process: opening the database (seed, backfill),  *)
(* registering with Identity, saving the network settings, and the links   *)
(* that logins through Identity make (main.go, database/,                  *)
(* network/settings.go, org/service.go, identityclient/).                  *)
(*                                                                         *)
(* An SQL statement is a step, and so is a request to Identity.  The       *)
(* process may die between any two of them.  A read whose error the code   *)
(* drops may also find nothing.  Identity is external: one                 *)
(* organisation, to which this server's API key belongs, and the URL that  *)
(* it was last told.                                                       *)
(***************************************************************************)
EXTENDS Naturals

CONSTANTS
  Default, Linked,    \* the seeded organisation, and Identity's
  Cfg, Public,        \* host of COCINA_SERVER_URL, hosts an administrator may name
  Req,                \* requests, each of which saves settings or logs in once
  Asked,              \* bound: what administrators ask to save
  HasKey,             \* an Identity URL and API key are configured
  MaxCrash,           \* bound: deaths of the process
  NoUrl, Absent, NoOrg, NoReq, Start

Org  == {Default, Linked}
Host == {Cfg} \cup Public
\* With or without the path /api/v1; slashes and case are settled by then.
Url  == [host : Host, api : BOOLEAN]
Proc == Req \cup {Start}

Input == [mode : {"local", "public"}, base : Url \cup {NoUrl}, sync : BOOLEAN]

ASSUME NameAssumption ==
  /\ Default # Linked /\ Cfg \notin Public /\ Start \notin Req /\ NoReq \notin Req
  /\ NoUrl \notin Url /\ Absent \notin Url \cup {NoUrl} /\ NoOrg \notin Org
  /\ Asked \subseteq Input
  /\ HasKey \in BOOLEAN /\ MaxCrash \in Nat

VARIABLES
  row,         \* organizations: server_url of each, or Absent
  space,       \* organisations whose default workspace exists
  channel,     \* organisations whose general channel exists
  link,        \* server_settings: identity_org_id
  setting,     \* server_settings: exposure mode, public base URL, setup_complete
  told,        \* the URL Identity has for this server
  own,         \* Service.serverURL
  at,          \* where the start and each request are
  input,       \* what a request was asked to save
  then,        \* where a registration goes on when it is done or has failed
  url,         \* URL a registration uses, or the organisation it answered has
  misread,     \* history: saves that could not read back the base they had saved
  alone,       \* history: a request that nothing else ran beside, or NoReq
  synced,      \* history: requests that have written Identity's answer
  crashes

dbVars  == <<row, space, channel, link, setting>>
memVars == <<own, at, input, then, url, misread>>
vars    == <<dbVars, told, memVars, alone, synced, crashes>>

StartAt == {"down", "count", "seed_org", "seed_space", "seed_channel", "backfill",
             "register", "org", "space", "channel", "link", "up"}
ReqAt   == {"idle", "mode", "base", "setup", "load", "own", "rows_linked", "rows_all",
            "register", "org", "space", "channel", "link", "orgs", "done"}

TypeOK ==
  /\ row \in [Org -> Url \cup {NoUrl, Absent}]
  /\ space \subseteq Org /\ channel \subseteq Org
  /\ link \in Org \cup {NoOrg}
  /\ setting \in [mode : {"", "local", "public"}, base : Url \cup {NoUrl}, setup : BOOLEAN]
  /\ told \in Url \cup {NoUrl}
  /\ own \in Url
  /\ at \in [Proc -> StartAt \cup ReqAt]
  /\ input \in [Req -> Input]
  /\ then \in [Proc -> {"up", "orgs", "done"}]
  /\ url \in [Proc -> Url]
  /\ misread \subseteq Req
  /\ alone \in Req \cup {NoReq}
  /\ synced \subseteq Req
  /\ crashes \in 0 .. MaxCrash

-----------------------------------------------------------------------------
(* URLs *)

\* ServerAPIURL, and its inverse, which NormalizeServerURL compares by.
ServerAPIURL(u) == [u EXCEPT !.api = TRUE]
BaseURL(u)      == [u EXCEPT !.api = FALSE]

CfgURL == [host |-> Cfg, api |-> TRUE]
Nothing == [mode |-> "local", base |-> NoUrl, sync |-> FALSE]

Init ==
  /\ row = [o \in Org |-> Absent] /\ space = {} /\ channel = {} /\ link = NoOrg
  /\ setting = [mode |-> "", base |-> NoUrl, setup |-> FALSE]
  /\ told = NoUrl
  /\ own = CfgURL
  /\ at = [p \in Proc |-> IF p = Start THEN "down" ELSE "idle"]
  /\ input = [r \in Req |-> Nothing]
  /\ then = [p \in Proc |-> "up"]
  /\ url = [p \in Proc |-> CfgURL]
  /\ misread = {}
  /\ alone = NoReq
  /\ synced = {}
  /\ crashes = 0

Go(p, from, to) == at[p] = from /\ at' = [at EXCEPT ![p] = to]

-----------------------------------------------------------------------------
(* Start *)

Launch ==
  /\ Go(Start, "down", "count")
  /\ UNCHANGED <<dbVars, told, own, input, then, url, misread, alone, synced, crashes>>

\* seedDefaultOrg does nothing once there is any organisation.  (The migration
\* of user ids that follows the seed is one transaction, of which nothing here
\* takes notice.)
Count ==
  /\ at[Start] = "count"
  /\ at' = [at EXCEPT ![Start] =
       IF \E o \in Org : row[o] # Absent THEN "backfill" ELSE "seed_org"]
  /\ UNCHANGED <<dbVars, told, own, input, then, url, misread, alone, synced, crashes>>

\* Mutant: the seed writes the channel before its workspace.
Seed_ChannelFirst ==
  /\ \/ /\ Go(Start, "seed_org", "seed_space")
        /\ row' = [row EXCEPT ![Default] = NoUrl]
        /\ UNCHANGED <<space, channel>>
     \/ /\ Go(Start, "seed_space", "seed_channel")
        /\ channel' = channel \cup {Default}
        /\ UNCHANGED <<row, space>>
     \/ /\ Go(Start, "seed_channel", "backfill")
        /\ space' = space \cup {Default}
        /\ UNCHANGED <<row, channel>>
  /\ UNCHANGED <<link, setting, told, own, input, then, url, misread, alone, synced, crashes>>

\* Three statements of their own.
Seed ==
  /\ \/ /\ Go(Start, "seed_org", "seed_space")
        /\ row' = [row EXCEPT ![Default] = NoUrl]
        /\ UNCHANGED <<space, channel>>
     \/ /\ Go(Start, "seed_space", "seed_channel")
        /\ space' = space \cup {Default}
        /\ UNCHANGED <<row, channel>>
     \/ /\ Go(Start, "seed_channel", "backfill")
        /\ channel' = channel \cup {Default}
        /\ UNCHANGED <<row, space>>
  /\ UNCHANGED <<link, setting, told, own, input, then, url, misread, alone, synced, crashes>>

\* backfillOrgServerURLs, whose error is dropped.
Backfill ==
  /\ Go(Start, "backfill", IF HasKey THEN "register" ELSE "up")
  /\ \/ row' = [o \in Org |-> IF row[o] = NoUrl THEN CfgURL ELSE row[o]]
     \/ UNCHANGED row
  /\ url' = [url EXCEPT ![Start] = CfgURL]
  /\ own' = CfgURL
  /\ UNCHANGED <<space, channel, link, setting, told, input, then, misread, alone, synced, crashes>>

-----------------------------------------------------------------------------
(* Registration with Identity, of the start, a save or a login *)

\* Identity takes the URL and answers; or it takes it and the answer is lost; or
\* it does not even take it.
RegisterServer(p) ==
  /\ at[p] = "register"
  /\ \/ told' = url[p] /\ at' = [at EXCEPT ![p] = "org"]
     \/ told' = url[p] /\ at' = [at EXCEPT ![p] = then[p]]
     \/ UNCHANGED told /\ at' = [at EXCEPT ![p] = then[p]]
  /\ UNCHANGED <<dbVars, own, input, then, url, misread, alone, synced, crashes>>

\* Mutant: the link is set as soon as the organisation is there.
EnsureIdentityOrg_LinkFirst(p) ==
  /\ \/ /\ Go(p, "org", "link")
        /\ row' = [row EXCEPT ![Linked] = url[p]]
        /\ UNCHANGED <<space, channel, link, synced>>
     \/ /\ Go(p, "link", "space")
        /\ link' = Linked
        /\ UNCHANGED <<row, space, channel, synced>>
     \/ /\ Go(p, "space", "channel")
        /\ space' = space \cup {Linked}
        /\ UNCHANGED <<row, channel, link, synced>>
     \/ /\ Go(p, "channel", then[p])
        /\ channel' = channel \cup {Linked}
        /\ synced' = synced \cup (Req \cap {p})
        /\ UNCHANGED <<row, space, link>>
  /\ UNCHANGED <<setting, told, own, input, then, url, misread, alone, crashes>>

\* EnsureIdentityOrg: four statements of their own, the link last.
EnsureIdentityOrg(p) ==
  /\ \/ /\ Go(p, "org", "space")
        /\ row' = [row EXCEPT ![Linked] = url[p]]
        /\ UNCHANGED <<space, channel, link, synced>>
     \/ /\ Go(p, "space", "channel")
        /\ space' = space \cup {Linked}
        /\ UNCHANGED <<row, channel, link, synced>>
     \/ /\ Go(p, "channel", "link")
        /\ channel' = channel \cup {Linked}
        /\ UNCHANGED <<row, space, link, synced>>
     \/ /\ Go(p, "link", then[p])
        /\ link' = Linked
        /\ synced' = synced \cup (Req \cap {p})
        /\ UNCHANGED <<row, space, channel>>
  /\ UNCHANGED <<setting, told, own, input, then, url, misread, alone, crashes>>

-----------------------------------------------------------------------------
(* Requests *)

Running(r) == at[r] \notin {"idle", "done"}

\* History: r runs beside nothing, or it ends the loneliness of another.
Alone(r) == alone' = IF \E q \in Req : Running(q) THEN NoReq ELSE r

\* SaveNetworkSettings: a mode that is not local needs a base, and without one
\* the configured URL's is saved.
Save(r) ==
  /\ at[Start] = "up" /\ Go(r, "idle", "mode")
  /\ \E i \in Asked :
       /\ i.mode # "local" => i.base # NoUrl
       /\ input' = [input EXCEPT ![r] =
            [i EXCEPT !.base = IF @ = NoUrl THEN BaseURL(CfgURL) ELSE @]]
  /\ then' = [then EXCEPT ![r] = "done"]
  /\ Alone(r)
  /\ UNCHANGED <<dbVars, told, own, url, misread, synced, crashes>>

\* Mutant: setup_complete is written before the rest.
SaveSettings_SetupFirst(r) ==
  /\ \/ /\ Go(r, "mode", "base")
        /\ setting' = [setting EXCEPT !.setup = TRUE]
     \/ /\ Go(r, "base", "setup")
        /\ setting' = [setting EXCEPT !.mode = input[r].mode]
     \/ /\ Go(r, "setup", "load")
        /\ setting' = [setting EXCEPT !.base = input[r].base]
     \/ /\ at[r] \in {"mode", "base", "setup"} /\ Go(r, at[r], "done")
        /\ UNCHANGED setting
  /\ UNCHANGED <<row, space, channel, link, told, own, input, then, url, misread,
                 alone, synced, crashes>>

\* Store.Save: a statement per setting, the first that fails ends the request.
\* The frontend's and Identity's URL are written between base and setup.
SaveSettings(r) ==
  /\ \/ /\ Go(r, "mode", "base")
        /\ setting' = [setting EXCEPT !.mode = input[r].mode]
     \/ /\ Go(r, "base", "setup")
        /\ setting' = [setting EXCEPT !.base = input[r].base]
     \/ /\ Go(r, "setup", "load")
        /\ setting' = [setting EXCEPT !.setup = TRUE]
     \/ /\ at[r] \in {"mode", "base", "setup"} /\ Go(r, at[r], "done")
        /\ UNCHANGED setting
  /\ UNCHANGED <<row, space, channel, link, told, own, input, then, url, misread,
                 alone, synced, crashes>>

\* Store.Load reads the settings back, whoever wrote them last.  A base that is
\* not set, or cannot be read, is taken from the configuration.
Load(r) ==
  /\ Go(r, "load", "own")
  /\ \E fails \in BOOLEAN :
       /\ url' = [url EXCEPT ![r] = ServerAPIURL(
            IF fails \/ setting.base = NoUrl THEN BaseURL(CfgURL) ELSE setting.base)]
       /\ misread' = IF fails THEN misread \cup {r} ELSE misread
  /\ UNCHANGED <<dbVars, told, own, input, then, alone, synced, crashes>>

\* Mutant: the URL in memory stays what it was at the start.
SetOwn_Stays(r) ==
  /\ \/ link # NoOrg /\ Go(r, "own", "rows_linked")
     \/ Go(r, "own", "rows_all")
  /\ UNCHANGED <<dbVars, told, own, input, then, url, misread, alone, synced, crashes>>

\* UpdateNetworkURLs sets the URL in memory and reads the link; a link that
\* cannot be read is taken for none.
SetOwn(r) ==
  /\ \/ link # NoOrg /\ Go(r, "own", "rows_linked")
     \/ Go(r, "own", "rows_all")
  /\ own' = url[r]
  /\ UNCHANGED <<dbVars, told, input, then, url, misread, alone, synced, crashes>>

\* Rows UpdateNetworkURLs writes: the linked organisation's, or all that have no
\* URL or one of this host.
Outdated(linked) ==
  IF linked THEN {Linked}
  ELSE {o \in Org : row[o] = NoUrl \/ (row[o] \in Url /\ row[o].host = Cfg)}

\* UpdateNetworkURLs writes rows, or fails and is only logged; then the save
\* registers, if it was asked to and Identity is configured.
UpdateRows(r) ==
  /\ at[r] \in {"rows_linked", "rows_all"}
  /\ at' = [at EXCEPT ![r] = IF input[r].sync /\ HasKey THEN "register" ELSE "done"]
  /\ \/ row' = [o \in Org |->
            IF o \in Outdated(at[r] = "rows_linked") /\ row[o] # Absent THEN url[r] ELSE row[o]]
     \/ UNCHANGED row
  /\ UNCHANGED <<space, channel, link, setting, told, own, input, then, url, misread,
                 alone, synced, crashes>>

\* SyncIdentityMemberships, of a login: TryLinkIdentityOrg registers if there is
\* no link yet, or none it can read.
Login(r) ==
  /\ at[Start] = "up" /\ HasKey
  /\ \/ link # NoOrg /\ Go(r, "idle", "orgs")
     \/ Go(r, "idle", "register")
  /\ url' = [url EXCEPT ![r] = own]
  /\ then' = [then EXCEPT ![r] = "orgs"]
  /\ Alone(r)
  /\ UNCHANGED <<dbVars, told, own, input, misread, synced, crashes>>

\* Identity lists the organisation with the URL it was told.  If that is this
\* server's, the organisation is written again; else, or if Identity does not
\* answer, only members are written, which is Membership's.
GetUserOrgs(r) ==
  /\ at[r] = "orgs"
  /\ \/ /\ told # NoUrl /\ BaseURL(told) = BaseURL(own)
        /\ at' = [at EXCEPT ![r] = "org"]
        /\ url' = [url EXCEPT ![r] = told]
     \/ /\ at' = [at EXCEPT ![r] = "done"]
        /\ UNCHANGED url
  /\ then' = [then EXCEPT ![r] = "done"]
  /\ UNCHANGED <<dbVars, told, own, input, misread, alone, synced, crashes>>

\* The process dies: what is in memory is gone.
Crash ==
  /\ crashes < MaxCrash /\ at[Start] # "down"
  /\ crashes' = crashes + 1
  /\ at' = [p \in Proc |-> CASE p = Start -> "down"
                           [] p # Start /\ at[p] = "idle" -> "idle"
                           [] OTHER -> "done"]
  /\ own' = CfgURL
  /\ alone' = NoReq
  /\ UNCHANGED <<dbVars, told, input, then, url, misread, synced>>

\* A statement of seed or registration fails: the start gives up in the seed,
\* and goes on without the link otherwise.
Fail(p) ==
  /\ \/ at[p] \in {"count", "seed_org", "seed_space", "seed_channel"} /\ Go(p, at[p], "down")
     \/ at[p] \in {"org", "space", "channel", "link"} /\ Go(p, at[p], then[p])
  /\ UNCHANGED <<dbVars, told, own, input, then, url, misread, alone, synced, crashes>>

Starting ==
  \/ Launch \/ Count \/ Seed \/ Backfill
  \/ RegisterServer(Start) \/ EnsureIdentityOrg(Start)

Next ==
  \/ Starting \/ Crash
  \/ \E p \in Proc : Fail(p)
  \/ \E r \in Req :
       \/ RegisterServer(r) \/ EnsureIdentityOrg(r)
       \/ Save(r) \/ SaveSettings(r) \/ Load(r) \/ SetOwn(r) \/ UpdateRows(r)
       \/ Login(r) \/ GetUserOrgs(r)

Spec == Init /\ [][Next]_vars

-----------------------------------------------------------------------------
(* Properties *)

\* Wherever the process dies and whatever fails, a channel has its workspace and a
\* workspace its organisation: REFERENCES that the schema declares and SQLite,
\* left at its default, does not enforce (database.go lines 105-132, 221-254).
RowsHaveParents ==
  channel \subseteq space /\ \A o \in space : row[o] # Absent

\* An organisation that logins may be added to is complete (org/service.go lines
\* 388-444): whoever reads the link finds workspace and channel.
LinkIsWhole == link # NoOrg => link \in channel

\* A server that says its setup is complete has been told a mode and a base URL
\* once, though perhaps by two saves (settings.go lines 164-178).
SetupMeansSaved == setting.setup => setting.mode # "" /\ setting.base # NoUrl

\* After a save that nothing ran beside, and whose registration went through,
\* memory, Identity and the organisation have one URL, whatever the save failed to
\* read or to write: the one saved, or the configured one if the base it had just
\* saved could not be read (admin_handlers.go lines 347-391, settings.go 99-112).
SyncedSaveAgrees ==
  \A r \in synced :
    alone = r /\ at[r] = "done" /\ input[r].sync =>
      /\ told = own /\ row[Linked] = own
      /\ BaseURL(own) = IF r \in misread THEN BaseURL(CfgURL) ELSE BaseURL(setting.base)

=============================================================================
