-------------------------------- MODULE Keys --------------------------------
(***************************************************************************)
(* The cache of Identity's public keys (auth/identity.go): requests that   *)
(* come with a token look its key id up, fetch the set when it is missing  *)
(* or old, and look again.  Nothing keeps two of them from fetching at the *)
(* same time, so the set stored last need not be the one served last.      *)
(*                                                                         *)
(* Time is counted in ticks.  Identity, which publishes keys and withdraws *)
(* them, is external.  A token is the id of the key that signed it; its    *)
(* signature, issuer and claims come after and do not matter here.         *)
(***************************************************************************)
EXTENDS Integers

CONSTANTS
  Kid,        \* key ids Identity may use
  NoKid,      \* a token without one, or one not signed with RS256
  Call,       \* goroutines that validate a token
  TTL,        \* identityKeyCacheTTL, an hour
  Timeout,    \* of the HTTP client, ten seconds
  MaxTime     \* bound: ticks

ASSUME ConstantAssumption ==
  /\ NoKid \notin Kid
  /\ TTL \in Nat \ {0} /\ Timeout \in Nat /\ MaxTime \in Nat

VARIABLES
  now,
  served,       \* keys Identity publishes
  since,        \* history: when a key was last published or withdrawn
  keys,         \* IdentityValidator.keys
  fetchedAt,    \* IdentityValidator.fetchedAt
  at,           \* where a call is
  kid,          \* key id of its token
  sentAt,       \* when it asked Identity
  answer        \* the set on its way back

identity == <<served, since>>
cache    == <<keys, fetchedAt>>
calls    == <<at, kid, sentAt, answer>>
vars     == <<now, identity, cache, calls>>

Result == {"accepted", "refused", "unknown"}

TypeOK ==
  /\ now \in 0 .. MaxTime
  /\ served \subseteq Kid
  /\ since \in [Kid -> 0 .. MaxTime]
  /\ keys \subseteq Kid
  /\ fetchedAt \in 0 .. MaxTime
  /\ at \in [Call -> {"idle", "lookup", "asking", "answered", "reread"} \cup Result]
  /\ kid \in [Call -> Kid \cup {NoKid}]
  /\ sentAt \in [Call -> 0 .. MaxTime]
  /\ answer \in [Call -> SUBSET Kid]
  /\ \A c \in Call : kid[c] = NoKid => at[c] \in {"idle", "refused"}

Init ==
  /\ now = 0
  /\ served \in SUBSET Kid
  /\ since = [k \in Kid |-> 0]
  /\ keys = {} /\ fetchedAt = 0
  /\ at = [c \in Call |-> "idle"]
  /\ kid = [c \in Call |-> NoKid]
  /\ sentAt = [c \in Call |-> 0]
  /\ answer = [c \in Call |-> {}]

Go(c, from, to) == at[c] = from /\ at' = [at EXCEPT ![c] = to]

-----------------------------------------------------------------------------
(* Identity and the clock *)

Publish(k) ==
  /\ k \notin served
  /\ served' = served \cup {k}
  /\ since' = [since EXCEPT ![k] = now]
  /\ UNCHANGED <<now, cache, calls>>

Withdraw(k) ==
  /\ k \in served
  /\ served' = served \ {k}
  /\ since' = [since EXCEPT ![k] = now]
  /\ UNCHANGED <<now, cache, calls>>

Waiting(c) == at[c] \in {"asking", "answered"}

\* A fetch is over when its time is up; what does not wait for the network takes
\* less than a tick.
Tick ==
  /\ now < MaxTime
  /\ \A c \in Call : at[c] # "reread" /\ (Waiting(c) => now - sentAt[c] < Timeout)
  /\ now' = now + 1
  /\ UNCHANGED <<identity, cache, calls>>

-----------------------------------------------------------------------------
(* A call of Validate *)

\* keyFunc turns away a token that names no key.
Begin(c) ==
  /\ at[c] \in {"idle"} \cup Result
  /\ \E k \in Kid \cup {NoKid} :
       /\ kid' = [kid EXCEPT ![c] = k]
       /\ at' = [at EXCEPT ![c] = IF k = NoKid THEN "refused" ELSE "lookup"]
  /\ UNCHANGED <<now, identity, cache, sentAt, answer>>

Fresh == now - fetchedAt < TTL

\* Mutant: a set that is not old yet is not fetched again.
Lookup_Throttled(c) ==
  /\ at[c] = "lookup"
  /\ \/ /\ kid[c] \in keys /\ Fresh
        /\ at' = [at EXCEPT ![c] = "accepted"]
        /\ UNCHANGED sentAt
     \/ /\ kid[c] \notin keys /\ keys # {} /\ Fresh
        /\ at' = [at EXCEPT ![c] = "reread"]
        /\ UNCHANGED sentAt
     \/ /\ ~Fresh \/ keys = {}
        /\ at' = [at EXCEPT ![c] = "asking"]
        /\ sentAt' = [sentAt EXCEPT ![c] = now]
  /\ UNCHANGED <<now, identity, cache, kid, answer>>

\* getKey under the read lock.
Lookup(c) ==
  /\ at[c] = "lookup"
  /\ \/ /\ kid[c] \in keys /\ Fresh
        /\ at' = [at EXCEPT ![c] = "accepted"]
        /\ UNCHANGED sentAt
     \/ /\ ~(kid[c] \in keys /\ Fresh)
        /\ at' = [at EXCEPT ![c] = "asking"]
        /\ sentAt' = [sentAt EXCEPT ![c] = now]
  /\ UNCHANGED <<now, identity, cache, kid, answer>>

\* Identity answers, with what it publishes now.
Answer(c) ==
  /\ Go(c, "asking", "answered")
  /\ answer' = [answer EXCEPT ![c] = served]
  /\ UNCHANGED <<now, identity, cache, kid, sentAt>>

\* The response is dropped.
Over(c) ==
  /\ sentAt' = [sentAt EXCEPT ![c] = 0]
  /\ answer' = [answer EXCEPT ![c] = {}]

\* refreshKeys fails: no connection, no time left, another status, no JSON.
FetchFails(c) ==
  /\ Waiting(c)
  /\ at' = [at EXCEPT ![c] = "refused"]
  /\ Over(c)
  /\ UNCHANGED <<now, identity, cache, kid>>

\* Mutant: keys are added to those in the cache.
Store_Adds(c) ==
  /\ answer[c] # {}
  /\ Go(c, "answered", "reread")
  /\ keys' = keys \cup answer[c] /\ fetchedAt' = now
  /\ Over(c)
  /\ UNCHANGED <<now, identity, kid>>

\* refreshKeys replaces the set, unless the answer has no key in it.
Store(c) ==
  /\ answer[c] # {}
  /\ Go(c, "answered", "reread")
  /\ keys' = answer[c] /\ fetchedAt' = now
  /\ Over(c)
  /\ UNCHANGED <<now, identity, kid>>

\* getKey looks again, at whatever set is there now, however old.
Reread(c) ==
  /\ Go(c, "reread", IF kid[c] \in keys THEN "accepted" ELSE "unknown")
  /\ UNCHANGED <<now, identity, cache, kid, sentAt, answer>>

\* The process starts again with an empty cache.
Restart ==
  /\ keys' = {} /\ fetchedAt' = 0
  /\ at' = [c \in Call |-> "idle"] /\ kid' = [c \in Call |-> NoKid]
  /\ sentAt' = [c \in Call |-> 0] /\ answer' = [c \in Call |-> {}]
  /\ UNCHANGED <<now, identity>>

Next ==
  \/ Tick \/ Restart
  \/ \E k \in Kid : Publish(k) \/ Withdraw(k)
  \/ \E c \in Call :
       \/ Begin(c) \/ Lookup(c) \/ Answer(c) \/ FetchFails(c)
       \/ Store(c) \/ Reread(c)

Spec == Init /\ [][Next]_vars

-----------------------------------------------------------------------------
(* Properties *)

\* A withdrawn key stops being accepted once an hour and a request have gone by,
\* though a slow old answer may overwrite a newer one and be dated by its arrival
\* (lines 78-138).
WithdrawnKeysFade ==
  [][\A c \in Call : at[c] # "accepted" /\ at'[c] = "accepted" =>
       \/ kid[c] \in served
       \/ now - since[kid[c]] < TTL + Timeout]_vars

\* A key that has been published for longer than a request takes is not called
\* unknown, whoever fetches beside and whichever answer is stored last.
PublishedKeysAreKnown ==
  [][\A c \in Call : at[c] # "unknown" /\ at'[c] = "unknown" =>
       kid[c] \notin served \/ since[kid[c]] >= now - Timeout]_vars

=============================================================================
