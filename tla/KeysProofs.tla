----------------------------- MODULE KeysProofs -----------------------------
(***************************************************************************)
(* Theorems about Keys.tla for any keys and calls, any time a key may stay *)
(* in the cache and any time a fetch may take.                             *)
(***************************************************************************)
EXTENDS Keys, TLAPS

\* What a set tells of Identity as it was at t or later: its keys were published
\* then, and what has been published since before t is in it.
Tells(set, t) ==
  /\ \A k \in set : k \in served \/ since[k] >= t
  /\ \A k \in served : since[k] < t => k \in set

\* Nothing is dated after now.
Dates ==
  /\ fetchedAt <= now
  /\ \A k \in Kid : since[k] <= now

\* An answer was served after its call asked, which is no longer ago than a
\* fetch takes; a set in the cache was served at most that long before its date.
Ages ==
  /\ \A c \in Call : Waiting(c) => sentAt[c] <= now /\ now <= sentAt[c] + Timeout
  /\ \A c \in Call : at[c] = "answered" => Tells(answer[c], sentAt[c])
  /\ \A c \in Call : at[c] = "reread" => fetchedAt = now
  /\ Tells(keys, fetchedAt - Timeout)

Inv == TypeOK /\ Dates /\ Ages

-----------------------------------------------------------------------------
(* Times *)

LEMMA Times ==
  ASSUME TypeOK
  PROVE  /\ now \in Nat /\ fetchedAt \in Nat /\ TTL \in Nat /\ Timeout \in Nat /\ MaxTime \in Nat
         /\ \A k \in Kid : since[k] \in Nat
         /\ \A c \in Call : sentAt[c] \in Nat
BY ConstantAssumption DEF TypeOK

\* What a set tells of a time it also tells of an earlier one.
LEMMA Earlier ==
  ASSUME TypeOK, NEW set \in SUBSET Kid, NEW s \in Int, NEW t \in Int, s <= t, Tells(set, t)
  PROVE  Tells(set, s)
BY Times DEF Tells, TypeOK

\* Identity's own set tells of every time that has come.
LEMMA ServedTells ==
  ASSUME TypeOK, NEW t \in Int
  PROVE  Tells(served, t)
BY DEF Tells

\* Publishing or withdrawing a key now changes nothing that a set tells of a time
\* up to now.
LEMMA Rotation ==
  ASSUME TypeOK, NEW k \in Kid, Publish(k) \/ Withdraw(k),
         NEW set \in SUBSET Kid, NEW t \in Int, t <= now, Tells(set, t)
  PROVE  Tells(set, t)'
<1>1. /\ since' = [since EXCEPT ![k] = now]
      /\ served' = served \cup {k} \/ served' = served \ {k}
  BY DEF Publish, Withdraw
<1>2. /\ \A l \in Kid : l # k => since'[l] = since[l] /\ (l \in served' <=> l \in served)
      /\ since'[k] = now
  BY <1>1 DEF TypeOK
<1>3. served' \subseteq Kid
  BY <1>1 DEF TypeOK
<1> QED
  BY <1>2, <1>3, Times DEF Tells

-----------------------------------------------------------------------------
(* The invariant *)

LEMMA InitInv == Init => Inv
<1> SUFFICES ASSUME Init PROVE Inv
  OBVIOUS
<1>1. TypeOK
  <2>1. now \in 0 .. MaxTime /\ fetchedAt \in 0 .. MaxTime /\ 0 \in 0 .. MaxTime
    BY ConstantAssumption DEF Init
  <2> QED
    BY <2>1 DEF Init, TypeOK
<1>2. Dates
  BY DEF Init, Dates
<1>3. Ages
  <2>1. 0 - Timeout \in Int /\ 0 - Timeout <= 0
    BY ConstantAssumption
  <2> QED
    BY <1>1, <2>1 DEF Init, Ages, Waiting, Tells, TypeOK
<1> QED
  BY <1>1, <1>2, <1>3 DEF Inv

LEMMA TypeStep ==
  ASSUME TypeOK, [Next]_vars
  PROVE  TypeOK'
<1>1. CASE Tick
  <2>1. now' \in 0 .. MaxTime
    BY <1>1, Times DEF Tick, TypeOK
  <2> QED
    BY <1>1, <2>1 DEF Tick, identity, cache, calls, TypeOK
<1>2. CASE Restart
  <2>1. fetchedAt' \in 0 .. MaxTime /\ 0 \in 0 .. MaxTime
    BY <1>2, Times DEF Restart
  <2> QED
    BY <1>2, <2>1 DEF Restart, identity, TypeOK
<1>3. ASSUME NEW k \in Kid, Publish(k) \/ Withdraw(k) PROVE TypeOK'
  BY <1>3 DEF Publish, Withdraw, cache, calls, TypeOK
<1>4. ASSUME NEW c \in Call, Begin(c) PROVE TypeOK'
  BY <1>4 DEF Begin, identity, cache, TypeOK, Result
<1>5. ASSUME NEW c \in Call, Lookup(c) PROVE TypeOK'
  BY <1>5 DEF Lookup, identity, cache, TypeOK, Result
<1>6. ASSUME NEW c \in Call, Answer(c) PROVE TypeOK'
  BY <1>6 DEF Answer, Go, identity, cache, TypeOK, Result
<1>7. ASSUME NEW c \in Call, FetchFails(c) PROVE TypeOK'
  <2>1. 0 \in 0 .. MaxTime
    BY Times
  <2> QED
    BY <1>7, <2>1 DEF FetchFails, Waiting, Over, identity, cache, TypeOK, Result
<1>8. ASSUME NEW c \in Call, Store(c) PROVE TypeOK'
  <2>1. 0 \in 0 .. MaxTime
    BY Times
  <2> QED
    BY <1>8, <2>1 DEF Store, Go, Over, identity, TypeOK, Result
<1>9. ASSUME NEW c \in Call, Reread(c) PROVE TypeOK'
  BY <1>9 DEF Reread, Go, identity, cache, TypeOK, Result
<1>10. CASE UNCHANGED vars
  BY <1>10 DEF vars, identity, cache, calls, TypeOK
<1> QED
  BY <1>1, <1>2, <1>3, <1>4, <1>5, <1>6, <1>7, <1>8, <1>9, <1>10 DEF Next

\* A step of a call that stores nothing: the set in the cache and what Identity
\* publishes stay, and c itself has the age it should have.
LEMMA CallStep ==
  ASSUME Inv, NEW c \in Call, UNCHANGED <<now, served, since, keys, fetchedAt>>,
         \A d \in Call \ {c} :
           at'[d] = at[d] /\ sentAt'[d] = sentAt[d] /\ answer'[d] = answer[d],
         at'[c] \in {"asking", "answered"} =>
           sentAt'[c] <= now /\ now <= sentAt'[c] + Timeout,
         at'[c] = "answered" => Tells(answer'[c], sentAt'[c]),
         at'[c] # "reread"
  PROVE  (Dates /\ Ages)'
BY DEF Inv, Dates, Ages, Waiting, Tells

LEMMA Step ==
  ASSUME Inv, [Next]_vars
  PROVE  (Dates /\ Ages)'
<1>0. TypeOK /\ Dates /\ Ages
  BY DEF Inv
<1>1. CASE Tick
  <2>1. /\ now' = now + 1 /\ UNCHANGED <<served, since, keys, fetchedAt, at, sentAt, answer>>
        /\ \A c \in Call : at[c] # "reread" /\ (Waiting(c) => now - sentAt[c] < Timeout)
    BY <1>1 DEF Tick, identity, cache, calls
  <2>2. Dates'
    BY <1>0, <2>1, Times DEF Dates
  <2>3. Ages'
    BY <1>0, <2>1, Times DEF Ages, Waiting, Tells
  <2> QED
    BY <2>2, <2>3
<1>2. CASE Restart
  <2>1. /\ UNCHANGED <<now, served, since>> /\ keys' = {} /\ fetchedAt' = 0
        /\ \A c \in Call : at'[c] = "idle"
    BY <1>2 DEF Restart, identity
  <2>2. \A k \in Kid : ~(since[k] < 0 - Timeout)
    BY <1>0, Times
  <2> QED
    BY <1>0, <2>1, <2>2, Times DEF Dates, Ages, Waiting, Tells, TypeOK
<1>3. ASSUME NEW k \in Kid, Publish(k) \/ Withdraw(k) PROVE (Dates /\ Ages)'
  <2>1. /\ UNCHANGED <<now, keys, fetchedAt, at, sentAt, answer>>
        /\ since' = [since EXCEPT ![k] = now]
    BY <1>3 DEF Publish, Withdraw, cache, calls
  <2>2. Dates'
    BY <1>0, <2>1, Times DEF Dates, TypeOK
  <2>3. Tells(keys, fetchedAt - Timeout)'
    <3>1. fetchedAt - Timeout \in Int /\ fetchedAt - Timeout <= now /\ keys \in SUBSET Kid
      BY <1>0, Times DEF Dates, TypeOK
    <3>2. Tells(keys, fetchedAt - Timeout)
      BY <1>0 DEF Ages
    <3> QED
      BY <1>0, <1>3, <2>1, <3>1, <3>2, Rotation DEF Tells
  <2>4. ASSUME NEW c \in Call, at[c] = "answered" PROVE Tells(answer[c], sentAt[c])'
    <3>1. sentAt[c] \in Int /\ sentAt[c] <= now /\ answer[c] \in SUBSET Kid
      BY <1>0, <2>4, Times DEF Ages, Waiting, TypeOK
    <3>2. Tells(answer[c], sentAt[c])
      BY <1>0, <2>4 DEF Ages
    <3> QED
      BY <1>0, <1>3, <2>1, <3>1, <3>2, Rotation DEF Tells
  <2> QED
    BY <1>0, <2>1, <2>2, <2>3, <2>4 DEF Ages, Waiting
<1>4. ASSUME NEW c \in Call, Begin(c) PROVE (Dates /\ Ages)'
  <2>1. at'[c] \in {"lookup", "refused"} /\ \A d \in Call \ {c} : at'[d] = at[d]
    BY <1>0, <1>4 DEF Begin, TypeOK
  <2> QED
    BY <1>4, <2>1, CallStep DEF Begin, identity, cache
<1>5. ASSUME NEW c \in Call, Lookup(c) PROVE (Dates /\ Ages)'
  <2>1. /\ at'[c] = "accepted" \/ (at'[c] = "asking" /\ sentAt'[c] = now)
        /\ \A d \in Call \ {c} : at'[d] = at[d] /\ sentAt'[d] = sentAt[d]
    BY <1>0, <1>5 DEF Lookup, TypeOK
  <2> QED
    BY <1>0, <1>5, <2>1, CallStep, Times DEF Lookup, identity, cache
<1>6. ASSUME NEW c \in Call, Answer(c) PROVE (Dates /\ Ages)'
  <2>1. /\ at[c] = "asking" /\ at'[c] = "answered" /\ answer'[c] = served
        /\ \A d \in Call \ {c} : at'[d] = at[d] /\ answer'[d] = answer[d]
        /\ UNCHANGED <<now, served, since, keys, fetchedAt, sentAt>>
    BY <1>0, <1>6 DEF Answer, Go, identity, cache, TypeOK
  <2>2. sentAt[c] <= now /\ now <= sentAt[c] + Timeout
    BY <1>0, <2>1 DEF Ages, Waiting
  <2>3. Tells(served, sentAt[c])
    BY <1>0, Times, ServedTells
  <2> QED
    BY <2>1, <2>2, <2>3, CallStep
<1>7. ASSUME NEW c \in Call, FetchFails(c) PROVE (Dates /\ Ages)'
  <2>1. /\ at'[c] = "refused"
        /\ \A d \in Call \ {c} :
             at'[d] = at[d] /\ sentAt'[d] = sentAt[d] /\ answer'[d] = answer[d]
    BY <1>0, <1>7 DEF FetchFails, Over, TypeOK
  <2> QED
    BY <1>7, <2>1, CallStep DEF FetchFails, identity, cache
<1>8. ASSUME NEW c \in Call, Store(c) PROVE (Dates /\ Ages)'
  <2>1. /\ at[c] = "answered" /\ at'[c] = "reread" /\ keys' = answer[c] /\ fetchedAt' = now
        /\ \A d \in Call \ {c} :
             at'[d] = at[d] /\ sentAt'[d] = sentAt[d] /\ answer'[d] = answer[d]
        /\ UNCHANGED <<now, served, since>>
    BY <1>0, <1>8 DEF Store, Go, Over, identity, TypeOK
  <2>2. Tells(answer[c], now - Timeout)
    <3>1. Tells(answer[c], sentAt[c]) /\ now <= sentAt[c] + Timeout
      BY <1>0, <2>1 DEF Ages, Waiting
    <3>2. now - Timeout \in Int /\ now - Timeout <= sentAt[c] /\ answer[c] \in SUBSET Kid
      BY <1>0, <3>1, Times DEF TypeOK
    <3> QED
      BY <1>0, <3>1, <3>2, Times, Earlier
  <2>3. Dates'
    BY <1>0, <2>1, Times DEF Dates
  <2>4. Tells(keys, fetchedAt - Timeout)'
    BY <2>1, <2>2 DEF Tells
  <2> QED
    BY <1>0, <2>1, <2>3, <2>4 DEF Ages, Waiting, Tells
<1>9. ASSUME NEW c \in Call, Reread(c) PROVE (Dates /\ Ages)'
  <2>1. at'[c] \in {"accepted", "unknown"} /\ \A d \in Call \ {c} : at'[d] = at[d]
    BY <1>0, <1>9 DEF Reread, Go, TypeOK
  <2> QED
    BY <1>9, <2>1, CallStep DEF Reread, identity, cache
<1>10. CASE UNCHANGED vars
  BY <1>0, <1>10 DEF vars, identity, cache, calls, Dates, Ages, Waiting, Tells
<1> QED
  BY <1>1, <1>2, <1>3, <1>4, <1>5, <1>6, <1>7, <1>8, <1>9, <1>10 DEF Next

LEMMA Invariant == Spec => []Inv
<1>1. Inv /\ [Next]_vars => Inv'
  BY TypeStep, Step DEF Inv
<1> QED
  BY InitInv, <1>1, PTL DEF Spec

-----------------------------------------------------------------------------
(* Theorems *)

\* Every variable keeps its type (Keys.TypeOK).
THEOREM TypeCorrect == Spec => []TypeOK
<1>1. Inv => TypeOK
  BY DEF Inv
<1> QED
  BY <1>1, Invariant, PTL

\* Only a look into the cache, under the TTL or after the call's own fetch, ends
\* in a verdict on the key.
LEMMA Verdict ==
  ASSUME Inv, [Next]_vars, NEW c \in Call, at'[c] # at[c], at'[c] \in {"accepted", "unknown"}
  PROVE  /\ UNCHANGED <<now, served, since, kid>>
         /\ \/ /\ at[c] = "lookup" /\ at'[c] = "accepted"
               /\ kid[c] \in keys /\ now - fetchedAt < TTL
            \/ /\ at[c] = "reread"
               /\ at'[c] = "accepted" <=> kid[c] \in keys
<1>1. Lookup(c) \/ Reread(c)
  <2>1. at \in [Call -> {"idle", "lookup", "asking", "answered", "reread"} \cup Result]
    BY DEF Inv, TypeOK
  <2> QED
    BY <2>1 DEF Next, vars, Tick, Restart, Publish, Withdraw, Begin, Lookup, Answer,
      FetchFails, Store, Reread, Go, calls
<1>2. at \in [Call -> {"idle", "lookup", "asking", "answered", "reread"} \cup Result]
  BY DEF Inv, TypeOK
<1> QED
  BY <1>1, <1>2 DEF Lookup, Reread, Go, Fresh, identity

\* A withdrawn key is not accepted for longer than the cache lives and a fetch takes.
THEOREM WithdrawalsTakeEffect == Spec => WithdrawnKeysFade
<1>1. ASSUME Inv, [Next]_vars, NEW c \in Call, at[c] # "accepted", at'[c] = "accepted"
      PROVE  kid[c] \in served \/ now - since[kid[c]] < TTL + Timeout
  <2>1. kid[c] \in keys /\ now - fetchedAt < TTL
    <3>1. TTL > 0 /\ (at[c] = "reread" => now - fetchedAt = 0)
      BY <1>1, ConstantAssumption, Times DEF Inv, Ages
    <3> QED
      BY <1>1, <3>1, Verdict
  <2>2. kid[c] \in Kid /\ (kid[c] \in served \/ since[kid[c]] >= fetchedAt - Timeout)
    BY <1>1, <2>1 DEF Inv, Ages, Tells, TypeOK
  <2> QED
    BY <1>1, <2>1, <2>2, Times DEF Inv
<1>2. Inv /\ [Next]_vars =>
        [\A c \in Call : at[c] # "accepted" /\ at'[c] = "accepted" =>
           \/ kid[c] \in served
           \/ now - since[kid[c]] < TTL + Timeout]_vars
  BY <1>1
<1> QED
  BY <1>2, Invariant, PTL DEF Spec, WithdrawnKeysFade

\* A key published for longer than a fetch takes is never called unknown.
THEOREM PublicationsTakeEffect == Spec => PublishedKeysAreKnown
<1>1. ASSUME Inv, [Next]_vars, NEW c \in Call, at[c] # "unknown", at'[c] = "unknown"
      PROVE  kid[c] \notin served \/ since[kid[c]] >= now - Timeout
  <2>1. at[c] = "reread" /\ kid[c] \notin keys
    BY <1>1, Verdict
  <2>2. kid[c] \in served => ~(since[kid[c]] < now - Timeout)
    BY <1>1, <2>1 DEF Inv, Ages, Tells
  <2>3. kid[c] \in served => since[kid[c]] \in Nat /\ now \in Nat /\ Timeout \in Nat
    BY <1>1, Times DEF Inv, TypeOK
  <2> QED
    BY <2>2, <2>3
<1>2. Inv /\ [Next]_vars =>
        [\A c \in Call : at[c] # "unknown" /\ at'[c] = "unknown" =>
           kid[c] \notin served \/ since[kid[c]] >= now - Timeout]_vars
  BY <1>1
<1> QED
  BY <1>2, Invariant, PTL DEF Spec, PublishedKeysAreKnown
=============================================================================
