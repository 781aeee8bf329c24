---------------------------- MODULE ServerProofs ----------------------------
(***************************************************************************)
(* Theorems about Server.tla for any hosts, requests and bounds.           *)
(***************************************************************************)
EXTENDS Server, TLAPS

\* How far seed and registrations have come, by where they are.
Rows ==
  /\ RowsHaveParents /\ LinkIsWhole
  /\ at[Start] = "seed_space" => row[Default] # Absent
  /\ at[Start] = "seed_channel" => Default \in space
  /\ \A p \in Proc :
       /\ at[p] = "space" => row[Linked] # Absent
       /\ at[p] = "channel" => Linked \in space
       /\ at[p] = "link" => Linked \in channel

\* What a save has written, by where it is.
Saved ==
  /\ SetupMeansSaved
  /\ \A r \in Req :
       /\ at[r] \in {"mode", "base", "setup"} => input[r].mode # "" /\ input[r].base # NoUrl
       /\ at[r] \in {"base", "setup"} => setting.mode # ""
       /\ at[r] \in {"setup", "load"} => setting.base # NoUrl

\* Steps of a save from where on something is settled.
BeforeOwn    == {"mode", "base", "setup", "load"}
FromLoad     == {"setup", "load"}
FromOwn      == {"own", "rows_linked", "rows_all", "register", "org", "space", "channel", "link"}
FromRows     == FromOwn \ {"own"}
FromOrg      == {"org", "space", "channel", "link"}
FromSpace    == FromOrg \ {"org"}

\* The start goes on to serve; a save ends when it has registered, and has not
\* registered before it ends.
Basic ==
  /\ at[Start] \notin {"idle", "done"} /\ then[Start] = "up"
  /\ \A r \in Req : at[r] = "idle" => ~input[r].sync /\ r \notin synced \cup misread
  /\ \A r \in Req : Running(r) /\ input[r].sync => then[r] = "done" /\ r \notin synced

\* Nothing runs beside a.
Lonely(a) ==
  at[Start] = "up" /\ at[a] # "idle" /\ \A q \in Req \ {a} : ~Running(q)

\* The URL that a goes by.
Meant(a) == IF a \in misread THEN BaseURL(CfgURL) ELSE BaseURL(setting.base)

\* What a has settled is as it left it.
Settled(a) ==
  /\ at[a] # "orgs"
  /\ at[a] \in FromLoad => setting.base = input[a].base
  /\ at[a] \in BeforeOwn => a \notin misread
  /\ at[a] \in FromOwn \/ a \in synced => BaseURL(url[a]) = Meant(a)
  /\ at[a] \in FromRows \/ a \in synced => own = url[a]
  /\ at[a] \in FromOrg \/ a \in synced => told = url[a]
  /\ at[a] \in FromSpace \/ a \in synced => row[Linked] = url[a]

Agree == Basic /\ (alone # NoReq => Lonely(alone) /\ (input[alone].sync => Settled(alone)))

Place == StartAt \cup ReqAt

Inv == TypeOK /\ Rows /\ Saved /\ Agree

-----------------------------------------------------------------------------
(* URLs and places *)

LEMMA UrlFacts ==
  ASSUME NEW u \in Url
  PROVE  /\ ServerAPIURL(u) \in Url /\ BaseURL(u) \in Url
         /\ BaseURL(ServerAPIURL(u)) = BaseURL(u)
BY DEF Url, ServerAPIURL, BaseURL

LEMMA CfgFacts == CfgURL \in Url /\ BaseURL(CfgURL) \in Url /\ Nothing \in Input
BY UrlFacts DEF CfgURL, Url, Host, Nothing, Input

\* Whatever the place is called, going there keeps the type of at.
LEMMA Move ==
  ASSUME TypeOK, NEW p \in Proc, NEW f, NEW x \in Place, Go(p, f, x)
  PROVE  at' \in [Proc -> Place] /\ at'[p] = x /\ \A q \in Proc \ {p} : at'[q] = at[q]
BY DEF TypeOK, Go, Place

\* The places by name.
LEMMA Places ==
  /\ \A x \in {"down", "count", "seed_org", "seed_space", "seed_channel", "backfill", "register", "org", "space", "channel", "link", "up"} : x \in Place
  /\ \A x \in {"idle", "mode", "base", "setup", "load", "own", "rows_linked", "rows_all",
               "orgs", "done"} : x \in Place
BY DEF Place, StartAt, ReqAt

-----------------------------------------------------------------------------
(* Types *)

LEMMA InitType == Init => TypeOK
<1> SUFFICES ASSUME Init PROVE TypeOK
  OBVIOUS
<1>1. at \in [Proc -> Place]
  BY Places DEF Init
<1>2. /\ row \in [Org -> Url \cup {NoUrl, Absent}] /\ link \in Org \cup {NoOrg}
      /\ setting \in [mode : {"", "local", "public"}, base : Url \cup {NoUrl}, setup : BOOLEAN]
  BY DEF Init
<1>3. crashes \in 0 .. MaxCrash
  <2>1. crashes = 0 /\ MaxCrash \in Nat
    BY NameAssumption DEF Init
  <2> QED
    BY <2>1
<1>4. input \in [Req -> Input] /\ url \in [Proc -> Url] /\ own \in Url
  BY CfgFacts DEF Init
<1> QED
  BY <1>1, <1>2, <1>3, <1>4 DEF Init, TypeOK, Place

LEMMA TypeStep ==
  ASSUME TypeOK, [Next]_vars
  PROVE  TypeOK'
<1>0. Start \in Proc /\ Req \subseteq Proc /\ at \in [Proc -> Place]
  BY DEF Proc, TypeOK, Place
<1>1. CASE Launch
  BY <1>1, <1>0, Places DEF Launch, Go, dbVars, TypeOK, Place
<1>2. CASE Count
  BY <1>2, <1>0, Places DEF Count, dbVars, TypeOK, Place
<1>3. CASE Seed
  <2>1. at' \in [Proc -> Place]
    BY <1>0, <1>3, Places DEF Seed, Go
  <2>2. row' \in [Org -> Url \cup {NoUrl, Absent}] /\ space' \subseteq Org /\ channel' \subseteq Org
    BY <1>3 DEF Seed, TypeOK, Org
  <2> QED
    BY <1>3, <2>1, <2>2 DEF Seed, TypeOK, Place
<1>5. CASE Backfill
  BY <1>5, CfgFacts DEF Backfill, Go, TypeOK, StartAt, Proc
<1>6. ASSUME NEW p \in Proc, RegisterServer(p) PROVE TypeOK'
  <2>0. then[p] \in Place /\ url[p] \in Url
    BY Places DEF TypeOK
  <2>1. at' \in [Proc -> Place]
    BY <1>0, <1>6, <2>0, Places DEF RegisterServer
  <2>2. told' \in Url \cup {NoUrl}
    BY <1>6, <2>0 DEF RegisterServer, TypeOK
  <2> QED
    BY <1>6, <2>1, <2>2 DEF RegisterServer, dbVars, TypeOK, Place
<1>7. ASSUME NEW p \in Proc, EnsureIdentityOrg(p) PROVE TypeOK'
  <2>0. then[p] \in Place /\ url[p] \in Url
    BY Places DEF TypeOK
  <2>1. at' \in [Proc -> Place]
    BY <1>0, <1>7, <2>0, Places DEF EnsureIdentityOrg, Go
  <2>2. row' \in [Org -> Url \cup {NoUrl, Absent}]
    BY <1>7, <2>0 DEF EnsureIdentityOrg, TypeOK
  <2>3. /\ space' \subseteq Org /\ channel' \subseteq Org /\ link' \in Org \cup {NoOrg}
        /\ synced' \subseteq Req
    BY <1>7 DEF EnsureIdentityOrg, TypeOK, Org
  <2> QED
    BY <1>7, <2>1, <2>2, <2>3 DEF EnsureIdentityOrg, TypeOK, Place
<1>8. ASSUME NEW p \in Proc, Fail(p) PROVE TypeOK'
  BY <1>8 DEF Fail, Go, dbVars, TypeOK, StartAt, ReqAt
<1>9. ASSUME NEW r \in Req, Save(r) PROVE TypeOK'
  <2>1. at' \in [Proc -> Place]
    BY <1>0, <1>9, Places DEF Save, Go
  <2>2. input' \in [Req -> Input]
    <3>1. PICK i \in Asked : input' = [input EXCEPT ![r] =
            [i EXCEPT !.base = IF @ = NoUrl THEN BaseURL(CfgURL) ELSE @]]
      BY <1>9 DEF Save
    <3>2. i \in Input
      BY NameAssumption
    <3>3. [i EXCEPT !.base = IF @ = NoUrl THEN BaseURL(CfgURL) ELSE @] \in Input
      BY <3>2, CfgFacts DEF Input
    <3> QED
      BY <3>1, <3>3 DEF TypeOK
  <2>3. then' \in [Proc -> {"up", "orgs", "done"}] /\ alone' \in Req \cup {NoReq}
    BY <1>9, <1>0 DEF Save, Alone, TypeOK
  <2> QED
    BY <1>9, <2>1, <2>2, <2>3 DEF Save, dbVars, TypeOK, Place
<1>10. ASSUME NEW r \in Req, SaveSettings(r) PROVE TypeOK'
  <2>1. at' \in [Proc -> Place]
    BY <1>0, <1>10, Places DEF SaveSettings, Go
  <2>2. input[r].mode \in {"local", "public"} /\ input[r].base \in Url \cup {NoUrl}
    BY DEF TypeOK, Input
  <2>3. setting' \in [mode : {"", "local", "public"}, base : Url \cup {NoUrl}, setup : BOOLEAN]
    BY <1>10, <2>2 DEF SaveSettings, TypeOK
  <2> QED
    BY <1>10, <2>1, <2>3 DEF SaveSettings, TypeOK, Place
<1>11. ASSUME NEW r \in Req, Load(r) PROVE TypeOK'
  <2>1. at' \in [Proc -> Place]
    BY <1>0, <1>11, Places DEF Load, Go
  <2>2. PICK fails \in BOOLEAN :
          /\ url' = [url EXCEPT ![r] = ServerAPIURL(
               IF fails \/ setting.base = NoUrl THEN BaseURL(CfgURL) ELSE setting.base)]
          /\ misread' = IF fails THEN misread \cup {r} ELSE misread
    BY <1>11 DEF Load
  <2>3. url' \in [Proc -> Url]
    <3>1. setting.base \in Url \cup {NoUrl} /\ url \in [Proc -> Url]
      BY DEF TypeOK
    <3> QED
      BY <2>2, <3>1, UrlFacts, CfgFacts
  <2>4. misread' \subseteq Req
    BY <2>2 DEF TypeOK
  <2> QED
    BY <1>11, <2>1, <2>3, <2>4 DEF Load, dbVars, TypeOK, Place
<1>12. ASSUME NEW r \in Req, SetOwn(r) PROVE TypeOK'
  BY <1>12 DEF SetOwn, Go, dbVars, TypeOK, ReqAt, Proc
<1>13. ASSUME NEW r \in Req, UpdateRows(r) PROVE TypeOK'
  <2>1. at' \in [Proc -> Place]
    BY <1>0, <1>13, Places DEF UpdateRows
  <2>2. row' \in [Org -> Url \cup {NoUrl, Absent}]
    BY <1>13, <1>0 DEF UpdateRows, TypeOK
  <2> QED
    BY <1>13, <2>1, <2>2 DEF UpdateRows, TypeOK, Place
<1>14. ASSUME NEW r \in Req, Login(r) PROVE TypeOK'
  BY <1>14 DEF Login, Go, dbVars, TypeOK, Alone, ReqAt, Proc
<1>15. ASSUME NEW r \in Req, GetUserOrgs(r) PROVE TypeOK'
  <2>1. at' \in [Proc -> Place]
    BY <1>0, <1>15, Places DEF GetUserOrgs
  <2>2. url' \in [Proc -> Url]
    BY <1>15, <1>0 DEF GetUserOrgs, TypeOK
  <2>3. then' \in [Proc -> {"up", "orgs", "done"}]
    BY <1>15, <1>0 DEF GetUserOrgs, TypeOK
  <2> QED
    BY <1>15, <2>1, <2>2, <2>3 DEF GetUserOrgs, dbVars, TypeOK, Place
<1>16. CASE Crash
  <2>1. at' \in [Proc -> Place]
    BY <1>16, Places DEF Crash
  <2>2. crashes' \in 0 .. MaxCrash
    <3>1. crashes \in 0 .. MaxCrash /\ MaxCrash \in Nat
      BY NameAssumption DEF TypeOK
    <3>2. crashes < MaxCrash /\ crashes' = crashes + 1
      BY <1>16 DEF Crash
    <3> QED
      BY <3>1, <3>2
  <2> QED
    BY <1>16, <2>1, <2>2, CfgFacts DEF Crash, dbVars, TypeOK, Place
<1>17. CASE UNCHANGED vars
  BY <1>17 DEF vars, dbVars, memVars, TypeOK
<1> QED
  BY <1>1, <1>2, <1>3, <1>5, <1>6, <1>7, <1>8, <1>9, <1>10, <1>11, <1>12, <1>13,
     <1>14, <1>15, <1>16, <1>17 DEF Next, Starting, Proc

-----------------------------------------------------------------------------
(* Rows *)

LEMMA InitRows == Init => Rows
BY NameAssumption DEF Init, Rows, RowsHaveParents, LinkIsWhole, Proc

\* Seed, registration and their failures move one step on at a time; whatever else
\* a request does leaves the tables as they are, or writes rows that exist.
LEMMA RowsStep ==
  ASSUME TypeOK, Rows, [Next]_vars
  PROVE  Rows'
<1>0. Start \in Proc /\ at \in [Proc -> Place] /\ row \in [Org -> Url \cup {NoUrl, Absent}]
  BY DEF Proc, TypeOK, Place
<1>00. CfgURL # Absent /\ NoUrl # Absent /\ \A u \in Url : u # Absent
  BY NameAssumption, CfgFacts
<1>1. CASE Launch
  BY <1>1, NameAssumption DEF Launch, Go, dbVars, TypeOK, Rows, RowsHaveParents, LinkIsWhole, Proc, Org
<1>2. CASE Count
  BY <1>2, NameAssumption DEF Count, Go, dbVars, TypeOK, Rows, RowsHaveParents, LinkIsWhole, Proc, Org
<1>3. CASE Seed
  <2> USE <1>0, <1>00 DEF Go
  <2>1. CASE at[Start] = "seed_org"
    <3>1. /\ at' = [at EXCEPT ![Start] = "seed_space"] /\ row' = [row EXCEPT ![Default] = NoUrl]
          /\ UNCHANGED <<space, channel, link>>
      BY <1>3, <2>1 DEF Seed
    <3> QED
      BY <2>1, <3>1, NameAssumption DEF Rows, RowsHaveParents, LinkIsWhole, Org
  <2>2. CASE at[Start] = "seed_space"
    <3>1. /\ at' = [at EXCEPT ![Start] = "seed_channel"] /\ space' = space \cup {Default}
          /\ UNCHANGED <<row, channel, link>>
      BY <1>3, <2>2 DEF Seed
    <3> QED
      BY <2>2, <3>1, NameAssumption DEF Rows, RowsHaveParents, LinkIsWhole
  <2>3. CASE at[Start] = "seed_channel"
    <3>1. /\ at' = [at EXCEPT ![Start] = "backfill"] /\ channel' = channel \cup {Default}
          /\ UNCHANGED <<row, space, link>>
      BY <1>3, <2>3 DEF Seed
    <3> QED
      BY <2>3, <3>1, NameAssumption DEF Rows, RowsHaveParents, LinkIsWhole
  <2> QED
    BY <1>3, <2>1, <2>2, <2>3 DEF Seed
<1>5. CASE Backfill
  <2>1. /\ at[Start] = "backfill" /\ at'[Start] \in {"register", "up"}
        /\ \A p \in Proc \ {Start} : at'[p] = at[p]
        /\ UNCHANGED <<space, channel, link>>
    BY <1>5, <1>0 DEF Backfill, Go
  <2>2. \A o \in Org : row[o] # Absent => row'[o] # Absent
    BY <1>5, <1>0, <1>00 DEF Backfill
  <2>3. space \subseteq Org /\ Linked \in Org
    BY DEF TypeOK, Org
  <2> QED
    BY <2>1, <2>2, <2>3, <1>0 DEF Rows, RowsHaveParents, LinkIsWhole
<1>6. ASSUME NEW p \in Proc, RegisterServer(p) PROVE Rows'
  <2>1. UNCHANGED <<row, space, channel, link>> /\ at[p] = "register"
    BY <1>6 DEF RegisterServer, dbVars
  <2>2. at'[p] \in {"org", "up", "orgs", "done"} /\ \A q \in Proc \ {p} : at'[q] = at[q]
    BY <1>6, <1>0 DEF RegisterServer, TypeOK
  <2> QED
    BY <2>1, <2>2, <1>0 DEF Rows, RowsHaveParents, LinkIsWhole
<1>7. ASSUME NEW p \in Proc, EnsureIdentityOrg(p) PROVE Rows'
  <2>0. then[p] \in {"up", "orgs", "done"} /\ url[p] # Absent /\ Linked \in Org /\ space \subseteq Org
    BY <1>00 DEF TypeOK, Org
  <2> USE <1>0, <1>00, <2>0 DEF Go
  <2>1. CASE at[p] = "org"
    <3>1. /\ at' = [at EXCEPT ![p] = "space"] /\ row' = [row EXCEPT ![Linked] = url[p]]
          /\ UNCHANGED <<space, channel, link>>
      BY <1>7, <2>1 DEF EnsureIdentityOrg
    <3> QED
      BY <2>1, <3>1 DEF Rows, RowsHaveParents, LinkIsWhole
  <2>2. CASE at[p] = "space"
    <3>1. /\ at' = [at EXCEPT ![p] = "channel"] /\ space' = space \cup {Linked}
          /\ UNCHANGED <<row, channel, link>>
      BY <1>7, <2>2 DEF EnsureIdentityOrg
    <3> QED
      BY <2>2, <3>1 DEF Rows, RowsHaveParents, LinkIsWhole
  <2>3. CASE at[p] = "channel"
    <3>1. /\ at' = [at EXCEPT ![p] = "link"] /\ channel' = channel \cup {Linked}
          /\ UNCHANGED <<row, space, link>>
      BY <1>7, <2>3 DEF EnsureIdentityOrg
    <3> QED
      BY <2>3, <3>1 DEF Rows, RowsHaveParents, LinkIsWhole
  <2>4. CASE at[p] = "link"
    <3>1. /\ at' = [at EXCEPT ![p] = then[p]] /\ link' = Linked
          /\ UNCHANGED <<row, space, channel>>
      BY <1>7, <2>4 DEF EnsureIdentityOrg
    <3> QED
      BY <2>4, <3>1 DEF Rows, RowsHaveParents, LinkIsWhole
  <2> QED
    BY <1>7, <2>1, <2>2, <2>3, <2>4 DEF EnsureIdentityOrg
<1>8. ASSUME NEW p \in Proc, Fail(p) PROVE Rows'
  <2>1. UNCHANGED <<row, space, channel, link>>
    BY <1>8 DEF Fail, dbVars
  <2>2. at'[p] \in {"down", "up", "orgs", "done"} /\ \A q \in Proc \ {p} : at'[q] = at[q]
    BY <1>8, <1>0 DEF Fail, Go, TypeOK
  <2> QED
    BY <2>1, <2>2, <1>0 DEF Rows, RowsHaveParents, LinkIsWhole
<1>9. ASSUME NEW r \in Req, Save(r) PROVE Rows'
  BY <1>9, NameAssumption DEF Save, Go, dbVars, TypeOK, Rows, RowsHaveParents, LinkIsWhole, Proc, Org
<1>10. ASSUME NEW r \in Req, SaveSettings(r) PROVE Rows'
  <2>1. UNCHANGED <<row, space, channel, link>>
    BY <1>10 DEF SaveSettings
  <2>2. at'[r] \in {"base", "setup", "load", "done"} /\ \A q \in Proc \ {r} : at'[q] = at[q]
    BY <1>10, <1>0 DEF SaveSettings, Go, Proc
  <2> QED
    BY <2>1, <2>2, <1>0, NameAssumption DEF Rows, RowsHaveParents, LinkIsWhole, Proc
<1>11. ASSUME NEW r \in Req, Load(r) PROVE Rows'
  BY <1>11, NameAssumption DEF Load, Go, dbVars, TypeOK, Rows, RowsHaveParents, LinkIsWhole, Proc, Org
<1>12. ASSUME NEW r \in Req, SetOwn(r) PROVE Rows'
  BY <1>12, NameAssumption DEF SetOwn, Go, dbVars, TypeOK, Rows, RowsHaveParents, LinkIsWhole, Proc, Org
<1>13. ASSUME NEW r \in Req, UpdateRows(r) PROVE Rows'
  <2>1. /\ at'[r] \in {"register", "done"}
        /\ \A q \in Proc \ {r} : at'[q] = at[q]
        /\ UNCHANGED <<space, channel, link>>
    BY <1>13, <1>0 DEF UpdateRows, Proc
  <2>2. \A o \in Org : row[o] # Absent => row'[o] # Absent
    BY <1>13, <1>0, <1>00 DEF UpdateRows, TypeOK, Proc
  <2>3. space \subseteq Org /\ Linked \in Org /\ Default \in Org /\ r # Start
    BY NameAssumption DEF TypeOK, Org
  <2> QED
    BY <2>1, <2>2, <2>3, <1>0 DEF Rows, RowsHaveParents, LinkIsWhole
<1>14. ASSUME NEW r \in Req, Login(r) PROVE Rows'
  <2>1. UNCHANGED <<row, space, channel, link>>
    BY <1>14 DEF Login, dbVars
  <2>2. at'[r] \in {"register", "orgs"} /\ \A q \in Proc \ {r} : at'[q] = at[q]
    BY <1>14, <1>0 DEF Login, Go, Proc
  <2> QED
    BY <2>1, <2>2, <1>0, NameAssumption DEF Rows, RowsHaveParents, LinkIsWhole, Proc
<1>15. ASSUME NEW r \in Req, GetUserOrgs(r) PROVE Rows'
  <2>1. UNCHANGED <<row, space, channel, link>>
    BY <1>15 DEF GetUserOrgs, dbVars
  <2>2. at'[r] \in {"org", "done"} /\ \A q \in Proc \ {r} : at'[q] = at[q]
    BY <1>15, <1>0 DEF GetUserOrgs, Proc
  <2> QED
    BY <2>1, <2>2, <1>0 DEF Rows, RowsHaveParents, LinkIsWhole
<1>16. CASE Crash
  BY <1>16, NameAssumption DEF Crash, Go, dbVars, TypeOK, Rows, RowsHaveParents, LinkIsWhole, Proc, Org
<1>17. CASE UNCHANGED vars
  BY <1>17 DEF vars, dbVars, memVars, Rows, RowsHaveParents, LinkIsWhole
<1> QED
  BY <1>1, <1>2, <1>3, <1>5, <1>6, <1>7, <1>8, <1>9, <1>10, <1>11, <1>12, <1>13,
     <1>14, <1>15, <1>16, <1>17 DEF Next, Starting, Proc

-----------------------------------------------------------------------------
(* Settings *)

LEMMA InitSaved == Init => Saved
<1> SUFFICES ASSUME Init PROVE Saved
  OBVIOUS
<1>1. ~setting.setup /\ \A r \in Req : at[r] = "idle"
  BY NameAssumption DEF Init, Proc
<1> QED
  BY <1>1 DEF Saved, SetupMeansSaved

\* A step that writes no setting and takes no request into a save.
LEMMA SavedStays ==
  ASSUME Saved, UNCHANGED setting,
         \A r \in Req : at'[r] \in {"mode", "base", "setup", "load"} =>
                          at'[r] = at[r] /\ input'[r] = input[r]
  PROVE  Saved'
BY DEF Saved, SetupMeansSaved

LEMMA SavedStep ==
  ASSUME TypeOK, Saved, [Next]_vars
  PROVE  Saved'
<1>0. at \in [Proc -> Place] /\ Start \in Proc /\ Req \subseteq Proc /\ Start \notin Req
  BY NameAssumption DEF TypeOK, Place, Proc
<1>1. CASE Launch \/ Count \/ Seed \/ Backfill \/ Crash
  <2>1. UNCHANGED <<setting, input>>
    BY <1>1 DEF Launch, Count, Seed, Backfill, Crash, dbVars
  <2>2. \A r \in Req : at'[r] = at[r] \/ at'[r] = "done"
    BY <1>0, <1>1 DEF Launch, Count, Seed, Backfill, Crash, Go
  <2> QED
    BY <2>1, <2>2, SavedStays
<1>2. ASSUME NEW p \in Proc, RegisterServer(p) \/ EnsureIdentityOrg(p) \/ Fail(p)
      PROVE Saved'
  <2>0. then[p] \in {"up", "orgs", "done"}
    BY DEF TypeOK
  <2>1. UNCHANGED <<setting, input>>
    BY <1>2 DEF RegisterServer, EnsureIdentityOrg, Fail, dbVars
  <2>2. /\ \A r \in Proc \ {p} : at'[r] = at[r]
        /\ at'[p] \in {"org", "space", "channel", "link", "down", "up", "orgs", "done"}
    <3>1. CASE RegisterServer(p)
      BY <1>0, <2>0, <3>1 DEF RegisterServer
    <3>2. CASE EnsureIdentityOrg(p)
      BY <1>0, <2>0, <3>2 DEF EnsureIdentityOrg, Go
    <3>3. CASE Fail(p)
      BY <1>0, <2>0, <3>3 DEF Fail, Go
    <3> QED
      BY <1>2, <3>1, <3>2, <3>3
  <2> QED
    BY <1>0, <2>1, <2>2, SavedStays
<1>3. ASSUME NEW r \in Req, Load(r) \/ SetOwn(r) \/ UpdateRows(r) \/ Login(r) \/ GetUserOrgs(r)
      PROVE Saved'
  <2>1. UNCHANGED <<setting, input>>
    BY <1>3 DEF Load, SetOwn, UpdateRows, Login, GetUserOrgs, dbVars
  <2>2. /\ \A q \in Req \ {r} : at'[q] = at[q]
        /\ at'[r] \in {"own", "rows_linked", "rows_all", "register", "orgs", "org", "done"}
    BY <1>0, <1>3 DEF Load, SetOwn, UpdateRows, Login, GetUserOrgs, Go
  <2> QED
    BY <1>0, <2>1, <2>2, SavedStays
<1>4. ASSUME NEW r \in Req, Save(r) PROVE Saved'
  <2>1. /\ UNCHANGED setting
        /\ \A q \in Req \ {r} : at'[q] = at[q] /\ input'[q] = input[q]
        /\ at'[r] = "mode"
    BY <1>0, <1>4 DEF Save, Go, dbVars, TypeOK
  <2>2. input'[r].mode # "" /\ input'[r].base # NoUrl
    <3>1. PICK i \in Asked : input' = [input EXCEPT ![r] =
            [i EXCEPT !.base = IF @ = NoUrl THEN BaseURL(CfgURL) ELSE @]]
      BY <1>4 DEF Save
    <3>2. i \in Input /\ NoUrl \notin Url
      BY NameAssumption
    <3>3. input'[r] = [i EXCEPT !.base = IF @ = NoUrl THEN BaseURL(CfgURL) ELSE @]
      BY <3>1 DEF TypeOK
    <3> QED
      BY <3>2, <3>3, CfgFacts DEF Input
  <2> QED
    BY <2>1, <2>2 DEF Saved, SetupMeansSaved
<1>5. ASSUME NEW r \in Req, SaveSettings(r) PROVE Saved'
  <2>0. /\ setting \in [mode : {"", "local", "public"}, base : Url \cup {NoUrl}, setup : BOOLEAN]
        /\ UNCHANGED input
    BY <1>5 DEF TypeOK, SaveSettings
  <2>1. /\ \A q \in Req \ {r} : at'[q] = at[q]
        /\ \/ at[r] = "mode" /\ at'[r] = "base" /\ setting' = [setting EXCEPT !.mode = input[r].mode]
           \/ at[r] = "base" /\ at'[r] = "setup" /\ setting' = [setting EXCEPT !.base = input[r].base]
           \/ at[r] = "setup" /\ at'[r] = "load" /\ setting' = [setting EXCEPT !.setup = TRUE]
           \/ at[r] \in {"mode", "base", "setup"} /\ at'[r] = "done" /\ UNCHANGED setting
    BY <1>0, <1>5 DEF SaveSettings, Go
  <2>2. CASE at[r] = "mode" /\ at'[r] = "base" /\ setting' = [setting EXCEPT !.mode = input[r].mode]
    BY <2>0, <2>1, <2>2 DEF Saved, SetupMeansSaved
  <2>3. CASE at[r] = "base" /\ at'[r] = "setup" /\ setting' = [setting EXCEPT !.base = input[r].base]
    BY <2>0, <2>1, <2>3 DEF Saved, SetupMeansSaved
  <2>4. CASE at[r] = "setup" /\ at'[r] = "load" /\ setting' = [setting EXCEPT !.setup = TRUE]
    BY <2>0, <2>1, <2>4 DEF Saved, SetupMeansSaved
  <2>5. CASE at'[r] = "done" /\ UNCHANGED setting
    BY <2>0, <2>1, <2>5 DEF Saved, SetupMeansSaved
  <2> QED
    BY <2>1, <2>2, <2>3, <2>4, <2>5
<1>6. CASE UNCHANGED vars
  BY <1>6 DEF vars, dbVars, memVars, Saved, SetupMeansSaved
<1> QED
  BY <1>1, <1>2, <1>3, <1>4, <1>5, <1>6 DEF Next, Starting, Proc

-----------------------------------------------------------------------------
(* A save on its own *)

LEMMA InitAgree == Init => Agree
<1> SUFFICES ASSUME Init PROVE Agree
  OBVIOUS
<1>1. /\ at[Start] = "down" /\ then[Start] = "up" /\ alone = NoReq /\ synced = {} /\ misread = {}
      /\ \A r \in Req : at[r] = "idle" /\ input[r] = Nothing
  BY NameAssumption DEF Init, Proc
<1> QED
  BY <1>1 DEF Agree, Basic, Running, Nothing

\* While alone stands for a request, nothing else is between idle and done.
LEMMA OneRuns ==
  ASSUME Agree, alone # NoReq, NEW p \in Proc, at[p] \notin {"idle", "done", "up"}
  PROVE  p = alone
BY DEF Agree, Lonely, Running, Proc

\* A step of p on its way, after which p is where it was to go, has ended, or is
\* still on its way.
LEMMA BasicStep ==
  ASSUME Basic, NEW p \in Proc, at[p] \notin {"idle", "done"}, at'[p] \notin {"idle"},
         p = Start => at'[p] # "done",
         \A q \in Proc \ {p} : at'[q] = at[q],
         UNCHANGED <<input, then>>, synced' \subseteq synced \cup {p},
         p \in synced' => p \in synced \/ at'[p] = "done" \/ then[p] # "done",
         misread' \subseteq misread \cup {p}
  PROVE  Basic'
<1>1. Start \in Proc /\ Req \subseteq Proc /\ Start \notin Req
  BY NameAssumption DEF Proc
<1> QED
  BY <1>1 DEF Basic, Running

LEMMA AgreeStep ==
  ASSUME TypeOK, Saved, Agree, [Next]_vars
  PROVE  Agree'
<1>0. /\ at \in [Proc -> Place] /\ Start \in Proc /\ Req \subseteq Proc
      /\ Start \notin Req /\ NoReq \notin Req /\ alone \in Req \cup {NoReq}
      /\ setting.base \in Url \cup {NoUrl}
  BY NameAssumption DEF TypeOK, Place, Proc
<1>1. CASE Launch \/ Count \/ Seed \/ Backfill
  <2>1. /\ alone = NoReq /\ alone' = NoReq /\ UNCHANGED <<input, then, misread, synced>>
        /\ at[Start] # "up"
    BY <1>1 DEF Launch, Count, Seed, Backfill, Go, Agree, Lonely
  <2>2. (\A q \in Req : at'[q] = at[q]) /\ at'[Start] \notin {"idle", "done"}
    BY <1>0, <1>1 DEF Launch, Count, Seed, Backfill, Go, Agree, Basic
  <2> QED
    BY <2>1, <2>2, <1>0 DEF Agree, Basic, Running
<1>6. ASSUME NEW p \in Proc, RegisterServer(p) PROVE Agree'
  <2>1. /\ at[p] = "register"
        /\ UNCHANGED <<row, setting, own, input, then, url, misread, alone, synced>>
        /\ \A q \in Proc \ {p} : at'[q] = at[q]
        /\ at'[p] = then[p] \/ (at'[p] = "org" /\ told' = url[p])
        /\ then[p] \in {"up", "orgs", "done"}
    BY <1>6, <1>0 DEF RegisterServer, dbVars, TypeOK
  <2>2. Basic'
    BY <2>1, BasicStep DEF Agree, Basic
  <2>3. ASSUME alone # NoReq PROVE Lonely(alone)' /\ (input[alone].sync => Settled(alone)')
    <3>1. p = alone /\ alone # Start /\ alone \in Req
      BY <1>0, <2>1, <2>3, OneRuns DEF Agree, Lonely
    <3>2. Lonely(alone)'
      BY <1>0, <2>1, <2>3, <3>1 DEF Agree, Lonely, Running
    <3>3. ASSUME input[alone].sync PROVE Settled(alone)'
      <4>1. then[alone] = "done" /\ alone \notin synced
        BY <2>1, <3>1, <3>3 DEF Agree, Basic, Running
      <4> QED
        BY <2>1, <2>3, <3>1, <3>3, <4>1 DEF Agree, Settled, Meant, BeforeOwn, FromLoad, FromOwn, FromRows, FromOrg, FromSpace
    <3> QED
      BY <3>2, <3>3
  <2> QED
    BY <2>1, <2>2, <2>3 DEF Agree
<1>7. ASSUME NEW p \in Proc, EnsureIdentityOrg(p) PROVE Agree'
  <2>1. /\ UNCHANGED <<setting, told, own, input, then, url, misread, alone>>
        /\ then[p] \in {"up", "orgs", "done"}
        /\ \A q \in Proc \ {p} : at'[q] = at[q]
    BY <1>7, <1>0 DEF EnsureIdentityOrg, Go, TypeOK
  <2>2. \/ at[p] = "org" /\ at'[p] = "space" /\ row'[Linked] = url[p] /\ UNCHANGED synced
        \/ at[p] \in {"space", "channel"} /\ at'[p] \in {"channel", "link"} /\ UNCHANGED <<row, synced>>
        \/ at[p] = "link" /\ at'[p] = then[p] /\ UNCHANGED row /\ synced' = synced \cup (Req \cap {p})
    BY <1>7, <1>0 DEF EnsureIdentityOrg, Go, TypeOK, Org
  <2>3. Basic'
    BY <2>1, <2>2, BasicStep DEF Agree, Basic
  <2>4. ASSUME alone # NoReq PROVE Lonely(alone)' /\ (input[alone].sync => Settled(alone)')
    <3>1. p = alone /\ alone # Start /\ alone \in Req
      BY <1>0, <2>2, <2>4, OneRuns DEF Agree, Lonely
    <3>2. Lonely(alone)'
      BY <1>0, <2>1, <2>2, <2>4, <3>1 DEF Agree, Lonely, Running
    <3>3. ASSUME input[alone].sync PROVE Settled(alone)'
      <4>1. then[alone] = "done" /\ alone \notin synced
        BY <2>2, <3>1, <3>3 DEF Agree, Basic, Running
      <4> QED
        BY <2>1, <2>2, <2>4, <3>1, <3>3, <4>1 DEF Agree, Settled, Meant, BeforeOwn, FromLoad, FromOwn, FromRows, FromOrg, FromSpace
    <3> QED
      BY <3>2, <3>3
  <2> QED
    BY <2>1, <2>3, <2>4 DEF Agree
<1>8. ASSUME NEW p \in Proc, Fail(p) PROVE Agree'
  <2>1. /\ UNCHANGED <<row, setting, told, own, input, then, url, misread, alone, synced>>
        /\ then[p] \in {"up", "orgs", "done"}
        /\ \A q \in Proc \ {p} : at'[q] = at[q]
    BY <1>8, <1>0 DEF Fail, dbVars, Go, TypeOK
  <2>2. \/ at[p] \in {"count", "seed_org", "seed_space", "seed_channel"} /\ at'[p] = "down"
        \/ at[p] \in FromOrg /\ at'[p] = then[p]
    BY <1>8, <1>0 DEF Fail, Go, FromOrg
  <2>3. Basic'
    BY <2>1, <2>2, BasicStep DEF Agree, Basic, FromOrg
  <2>4. ASSUME alone # NoReq PROVE Lonely(alone)' /\ (input[alone].sync => Settled(alone)')
    <3>1. p = alone /\ alone # Start /\ alone \in Req
      BY <1>0, <2>2, <2>4, OneRuns DEF Agree, Lonely, FromOrg
    <3>2. Lonely(alone)'
      BY <1>0, <2>1, <2>2, <2>4, <3>1 DEF Agree, Lonely, Running, FromOrg
    <3>3. ASSUME input[alone].sync PROVE Settled(alone)'
      <4>1. (then[alone] = "done" /\ alone \notin synced) /\ at'[alone] \in {"done", "down"}
        BY <2>2, <3>1, <3>3 DEF Agree, Basic, Running, FromOrg
      <4> QED
        BY <2>1, <2>4, <3>1, <3>3, <4>1 DEF Agree, Settled, Meant, BeforeOwn, FromLoad, FromOwn, FromRows, FromOrg, FromSpace
    <3> QED
      BY <3>2, <3>3
  <2> QED
    BY <2>1, <2>3, <2>4 DEF Agree
<1>9. ASSUME NEW r \in Req, Save(r) PROVE Agree'
  <2>1. /\ at[Start] = "up" /\ at[r] = "idle" /\ at'[r] = "mode" /\ then'[r] = "done"
        /\ UNCHANGED <<row, setting, told, own, url, misread, synced>>
        /\ \A q \in Proc \ {r} : at'[q] = at[q] /\ then'[q] = then[q]
        /\ \A q \in Req \ {r} : input'[q] = input[q]
    BY <1>9, <1>0 DEF Save, dbVars, Go, TypeOK
  <2>2. Basic'
    BY <2>1, <1>0 DEF Agree, Basic, Running
  <2>3. ASSUME alone' # NoReq PROVE Lonely(alone)' /\ Settled(alone)'
    <3>1. alone' = r /\ \A q \in Req : ~Running(q)
      BY <1>9, <2>3 DEF Save, Alone
    <3>2. r \notin synced \cup misread
      BY <2>1 DEF Agree, Basic
    <3> QED
      BY <1>0, <2>1, <3>1, <3>2 DEF Lonely, Running, Settled, Meant, BeforeOwn, FromLoad, FromOwn, FromRows, FromOrg, FromSpace
  <2> QED
    BY <2>2, <2>3 DEF Agree
<1>10. ASSUME NEW r \in Req, SaveSettings(r) PROVE Agree'
  <2>1. /\ at[r] \in {"mode", "base", "setup"} /\ at'[r] \in {"base", "setup", "load", "done"}
        /\ UNCHANGED <<row, told, own, input, then, url, misread, alone, synced>>
        /\ \A q \in Proc \ {r} : at'[q] = at[q]
    BY <1>10, <1>0 DEF SaveSettings, Go
  <2>2. Basic'
    BY <2>1, <1>0, BasicStep DEF Agree
  <2>3. ASSUME alone # NoReq PROVE Lonely(alone)' /\ (input[alone].sync => Settled(alone)')
    <3>1. r = alone
      BY <1>0, <2>1, <2>3, OneRuns
    <3>2. Lonely(alone)'
      BY <1>0, <2>1, <2>3, <3>1 DEF Agree, Lonely, Running
    <3>3. ASSUME input[alone].sync PROVE Settled(alone)'
      <4>1. alone \notin synced
        BY <2>1, <3>1, <3>3 DEF Agree, Basic, Running
      <4>2. setting.base = input[r].base \/ at[r] # "setup"
        BY <2>3, <3>1, <3>3 DEF Agree, Settled, Meant, BeforeOwn, FromLoad
      <4>3. at'[r] \in {"setup", "load"} => setting'.base = input[r].base
        <5>1. setting \in [mode : {"", "local", "public"}, base : Url \cup {NoUrl}, setup : BOOLEAN]
          BY DEF TypeOK
        <5>2. \/ at'[r] = "setup" /\ setting' = [setting EXCEPT !.base = input[r].base]
              \/ at[r] = "setup" /\ at'[r] = "load" /\ setting' = [setting EXCEPT !.setup = TRUE]
              \/ at'[r] \in {"base", "done"}
          BY <1>0, <1>10 DEF SaveSettings, Go
        <5> QED
          BY <4>2, <5>1, <5>2
      <4> QED
        <5>1. at'[r] \in BeforeOwn => r \notin misread
          BY <2>1, <2>3, <3>1, <3>3 DEF Agree, Settled, BeforeOwn
        <5> QED
          BY <2>1, <3>1, <4>1, <4>3, <5>1 DEF Settled, FromLoad, FromOwn, FromRows, FromOrg, FromSpace
    <3> QED
      BY <3>2, <3>3
  <2> QED
    BY <2>1, <2>2, <2>3 DEF Agree
<1>11. ASSUME NEW r \in Req, Load(r) PROVE Agree'
  <2>1. /\ at[r] = "load" /\ at'[r] = "own"
        /\ UNCHANGED <<row, setting, told, own, input, then, alone, synced>>
        /\ \A q \in Proc \ {r} : at'[q] = at[q]
        /\ misread' \subseteq misread \cup {r}
        /\ url'[r] = ServerAPIURL(
             IF r \in misread' \ misread \/ setting.base = NoUrl THEN BaseURL(CfgURL) ELSE setting.base)
           \/ r \in misread
    <3>1. PICK fails \in BOOLEAN :
            /\ url' = [url EXCEPT ![r] = ServerAPIURL(
                 IF fails \/ setting.base = NoUrl THEN BaseURL(CfgURL) ELSE setting.base)]
            /\ misread' = IF fails THEN misread \cup {r} ELSE misread
      BY <1>11 DEF Load
    <3>2. url \in [Proc -> Url]
      BY DEF TypeOK
    <3> QED
      BY <1>11, <1>0, <3>1, <3>2 DEF Load, Go, dbVars
  <2>2. Basic'
    BY <2>1, <1>0, BasicStep DEF Agree
  <2>3. ASSUME alone # NoReq PROVE Lonely(alone)' /\ (input[alone].sync => Settled(alone)')
    <3>1. r = alone
      BY <1>0, <2>1, <2>3, OneRuns
    <3>2. Lonely(alone)'
      BY <1>0, <2>1, <2>3, <3>1 DEF Agree, Lonely, Running
    <3>3. ASSUME input[alone].sync PROVE Settled(alone)'
      <4>1. alone \notin synced /\ alone \notin misread /\ setting.base = input[alone].base
        BY <2>1, <2>3, <3>1, <3>3 DEF Agree, Basic, Running, Settled, BeforeOwn, FromLoad
      <4>2. setting.base \in Url => BaseURL(url'[r]) = Meant(r)'
        <5>1. ASSUME setting.base \in Url, r \in misread' PROVE BaseURL(url'[r]) = BaseURL(CfgURL)
          <6>1. url'[r] = ServerAPIURL(BaseURL(CfgURL))
            BY <2>1, <3>1, <4>1, <5>1
          <6>2. BaseURL(BaseURL(CfgURL)) = BaseURL(CfgURL)
            BY CfgFacts DEF BaseURL, Url
          <6> QED
            BY <6>1, <6>2, UrlFacts, CfgFacts
        <5>2. ASSUME setting.base \in Url, r \notin misread' PROVE BaseURL(url'[r]) = BaseURL(setting.base)
          <6>1. url'[r] = ServerAPIURL(setting.base)
            BY <2>1, <3>1, <4>1, <5>2, NameAssumption
          <6> QED
            BY <6>1, <5>2, UrlFacts
        <5> QED
          BY <2>1, <5>1, <5>2 DEF Meant
      <4>3. setting.base # NoUrl
        BY <2>1, <3>1, <4>1 DEF Saved
      <4> QED
        BY <1>0, <2>1, <3>1, <4>1, <4>2, <4>3 DEF Settled, Meant, BeforeOwn, FromLoad, FromOwn, FromRows, FromOrg, FromSpace
    <3> QED
      BY <3>2, <3>3
  <2> QED
    BY <2>1, <2>2, <2>3 DEF Agree
<1>12. ASSUME NEW r \in Req, SetOwn(r) PROVE Agree'
  BY <1>12, NameAssumption DEF SetOwn, Go, dbVars, TypeOK, Agree, Basic, Lonely, Settled, Meant, BeforeOwn,
    Running, FromLoad, FromOwn, FromRows, FromOrg, FromSpace, Proc
<1>13. ASSUME NEW r \in Req, UpdateRows(r) PROVE Agree'
  BY <1>13, NameAssumption DEF UpdateRows, Go, dbVars, TypeOK, Agree, Basic, Lonely, Settled, Meant, BeforeOwn,
    Running, FromLoad, FromOwn, FromRows, FromOrg, FromSpace, Proc
<1>14. ASSUME NEW r \in Req, Login(r) PROVE Agree'
  BY <1>14, NameAssumption DEF Login, Go, dbVars, TypeOK, Agree, Basic, Lonely, Settled, Meant, BeforeOwn,
    Running, FromLoad, FromOwn, FromRows, FromOrg, FromSpace, Proc, Alone
<1>15. ASSUME NEW r \in Req, GetUserOrgs(r) PROVE Agree'
  BY <1>15, NameAssumption DEF GetUserOrgs, Go, dbVars, TypeOK, Agree, Basic, Lonely, Settled, Meant, BeforeOwn,
    Running, FromLoad, FromOwn, FromRows, FromOrg, FromSpace, Proc
<1>16. CASE Crash
  BY <1>16, NameAssumption DEF Crash, Go, dbVars, TypeOK, Agree, Basic, Running, Proc
<1>17. CASE UNCHANGED vars
  BY <1>17 DEF vars, dbVars, memVars, Agree, Basic, Lonely, Settled, Meant, Running
<1> QED
  BY <1>1, <1>6, <1>7, <1>8, <1>9, <1>10, <1>11, <1>12, <1>13,
     <1>14, <1>15, <1>16, <1>17 DEF Next, Starting, Proc

-----------------------------------------------------------------------------
(* Theorems *)

LEMMA Invariant == Spec => []Inv
<1>1. Init => Inv
  BY InitType, InitRows, InitSaved, InitAgree DEF Inv
<1>2. Inv /\ [Next]_vars => Inv'
  BY TypeStep, RowsStep, SavedStep, AgreeStep DEF Inv
<1> QED
  BY <1>1, <1>2, PTL DEF Spec

\* Every variable keeps its type (Server.TypeOK).
THEOREM TypeCorrect == Spec => []TypeOK
<1>1. Inv => TypeOK
  BY DEF Inv
<1> QED
  BY <1>1, Invariant, PTL

\* No death of the process and no failed statement leaves a channel without its
\* workspace or a workspace without its organisation.
THEOREM RowsKeepParents == Spec => []RowsHaveParents
<1>1. Inv => RowsHaveParents
  BY DEF Inv, Rows
<1> QED
  BY <1>1, Invariant, PTL

\* An organisation that the server is linked to has its workspace and channel.
THEOREM LinksAreWhole == Spec => []LinkIsWhole
<1>1. Inv => LinkIsWhole
  BY DEF Inv, Rows
<1> QED
  BY <1>1, Invariant, PTL

\* Once setup is called complete, mode and base URL have been written.
THEOREM SetupIsSaved == Spec => []SetupMeansSaved
<1>1. Inv => SetupMeansSaved
  BY DEF Inv, Saved
<1> QED
  BY <1>1, Invariant, PTL

\* A registered save that ran on its own leaves one URL in memory, with Identity
\* and with the organisation: the one saved, unless reading it back failed.
THEOREM SyncedSavesAgree == Spec => []SyncedSaveAgrees
<1>1. Inv => SyncedSaveAgrees
  <2> SUFFICES ASSUME Inv, NEW r \in synced, alone = r, input[r].sync PROVE
                 told = own /\ row[Linked] = own /\ BaseURL(own) = Meant(r)
    BY DEF SyncedSaveAgrees, Meant
  <2>1. r \in Req /\ alone # NoReq
    BY NameAssumption DEF Inv, TypeOK
  <2> QED
    BY <2>1 DEF Inv, Agree, Settled
<1> QED
  BY <1>1, Invariant, PTL
=============================================================================
