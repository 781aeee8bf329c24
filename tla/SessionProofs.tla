--------------------------- MODULE SessionProofs ---------------------------
(***************************************************************************)
(* Theorems about Session.tla for every set of connections, accounts and   *)
(* senders, every size of the buffers and any number of frames.            *)
(***************************************************************************)
EXTENDS Session, WellFoundedInduction, TLAPS

\* Who sends to whom, and who holds which client.Mu.
LockInv ==
  /\ \A p \in Process : task[p] # "idle" => target[p] \in Conn
  /\ \A p \in Process : task[p] = "keep" => mu[target[p]] = p
  /\ \A c \in Conn : task[c] # "idle" => reader[c] = "reading"
  /\ \A c \in Conn : reader[c] = "writing" => mu[c] = c
  /\ \A c \in Conn : replay[c] # {} <=> reader[c] \in {"lock", "writing"}

\* A connection has an account from its first identify on; the last reader of
\* an account's buffer has that account.
NameInv ==
  /\ \A c \in Conn : reader[c] \in {"named", "register", "greet", "lock", "writing"} =>
                       userID[c] \in User
  /\ taken # NoConn => userID[taken] \in User
  /\ \A u \in User : latest[u] # NoConn => userID[latest[u]] = u

Busy(c) == \E p \in Process : task[p] = "keep" /\ target[p] = c

LastSeq(u) == buf[u][Len(buf[u])].seq

\* While only the last reader numbers for an account, its frames arrive in the
\* buffer in the order of their numbers: at most one is under way, and it is
\* the successor of the last one kept.
LineInv ==
  \A u \in User : ~split[u] =>
    /\ Contiguous(buf[u])
    /\ \A p \in Process : task[p] = "keep" /\ userID[target[p]] = u =>
         target[p] = latest[u] /\ frame[p] = seq[target[p]]
    /\ latest[u] # NoConn /\ buf[u] # <<>> =>
         seq[latest[u]] = IF Busy(latest[u]) THEN LastSeq(u) + 1 ELSE LastSeq(u)

IInv ==
  /\ TypeOK
  /\ LockInv
  /\ NameInv
  /\ LineInv
  /\ ReplayContiguous

-----------------------------------------------------------------------------
(* The buffer and a replay *)

LEMMA FrameOf ==
  ASSUME NEW s \in Seq(Frame), NEW k \in DOMAIN s
  PROVE  k \in Nat /\ k \in 1..Len(s) /\ s[k] \in Frame /\ s[k].seq \in Nat
<1>1. k \in 1..Len(s) /\ Len(s) \in Nat /\ s[k] \in Frame
  OBVIOUS
<1>2. \A f \in Frame : f.seq \in Nat
  BY DEF Frame
<1> QED
  BY <1>1, <1>2

\* A trimmed buffer ends in the frame just kept, and its numbers go on
\* advancing with its places if that frame is the successor of the last.
LEMMA KeptBuffer ==
  ASSUME NEW s \in Seq(Frame), NEW f \in Frame
  PROVE  LET t == Trim(Append(s, f)) IN
         /\ t \in Seq(Frame)
         /\ t # <<>>
         /\ t[Len(t)] = f
         /\ Contiguous(s) /\ (s # <<>> => f.seq = s[Len(s)].seq + 1) => Contiguous(t)
<1> DEFINE a == Append(s, f)
<1>1. a \in Seq(Frame) /\ Len(a) = Len(s) + 1 /\ a[Len(a)] = f
  OBVIOUS
<1>2. ASSUME Contiguous(s), s # <<>> => f.seq = s[Len(s)].seq + 1
      PROVE  Contiguous(a)
  <2> SUFFICES ASSUME NEW i \in DOMAIN a, NEW j \in DOMAIN a
               PROVE  a[j].seq + i = a[i].seq + j
    BY DEF Contiguous
  <2>1. \A k \in 1..Len(s) : a[k] = s[k] /\ s[k].seq \in Nat
    BY FrameOf
  <2>2. \A k \in 1..Len(s) : f.seq + k = s[k].seq + Len(s) + 1
    <3> SUFFICES ASSUME NEW k \in 1..Len(s) PROVE f.seq + k = s[k].seq + Len(s) + 1
      OBVIOUS
    <3>1. s[Len(s)].seq + k = s[k].seq + Len(s)
      BY <1>2 DEF Contiguous
    <3> QED
      <4>1. s # <<>> /\ Len(s) \in 1..Len(s) /\ k \in Nat /\ Len(s) \in Nat
        OBVIOUS
      <4>2. s[Len(s)].seq \in Nat /\ s[k].seq \in Nat
        BY <4>1, <2>1
      <4>3. f.seq = s[Len(s)].seq + 1
        BY <4>1, <1>2
      <4> QED
        BY <4>1, <4>2, <4>3, <3>1
  <2>3. i \in 1..Len(s) \/ i = Len(s) + 1
    BY <1>1
  <2>4. j \in 1..Len(s) \/ j = Len(s) + 1
    BY <1>1
  <2>5. \A k \in 1..Len(s), l \in 1..Len(s) : s[l].seq + k = s[k].seq + l
    BY <1>2 DEF Contiguous
  <2>6. a[Len(s) + 1] = f /\ f.seq \in Nat
    BY DEF Frame
  <2>7. Len(s) \in Nat
    OBVIOUS
  <2> HIDE DEF a
  <2>8. CASE i \in 1..Len(s) /\ j \in 1..Len(s)
    BY <2>1, <2>5, <2>8
  <2>9. CASE i \in 1..Len(s) /\ j = Len(s) + 1
    <3>1. a[i] = s[i] /\ a[j] = f /\ f.seq + i = s[i].seq + Len(s) + 1 /\ s[i].seq \in Nat
      BY <2>1, <2>2, <2>6, <2>9
    <3> QED
      BY <3>1, <2>7, <2>9
  <2>10. CASE i = Len(s) + 1 /\ j \in 1..Len(s)
    <3>1. a[j] = s[j] /\ a[i] = f /\ f.seq + j = s[j].seq + Len(s) + 1 /\ s[j].seq \in Nat
      BY <2>1, <2>2, <2>6, <2>10
    <3> QED
      BY <3>1, <2>7, <2>10, <2>6
  <2>11. CASE i = Len(s) + 1 /\ j = Len(s) + 1
    BY <2>6, <2>7, <2>11
  <2> QED
    BY <2>3, <2>4, <2>8, <2>9, <2>10, <2>11
<1>3. CASE Len(a) > MaxReplayBuffer
  <2>1. Trim(a) = Tail(a)
    BY <1>3 DEF Trim
  <2>2. Len(a) > 1
    BY <1>3, SizeAssumption, <1>1
  <2>3. Tail(a) \in Seq(Frame) /\ Len(Tail(a)) = Len(a) - 1
    BY <1>1, <2>2
  <2>4. \A k \in 1..Len(Tail(a)) : Tail(a)[k] = a[k + 1]
    BY <1>1, <2>2
  <2>5. Contiguous(a) => Contiguous(Tail(a))
    <3> SUFFICES ASSUME Contiguous(a), NEW i \in DOMAIN Tail(a), NEW j \in DOMAIN Tail(a)
                 PROVE  Tail(a)[j].seq + i = Tail(a)[i].seq + j
      BY DEF Contiguous
    <3>1. i + 1 \in DOMAIN a /\ j + 1 \in DOMAIN a /\ i \in Nat /\ j \in Nat
      BY <1>1, <2>3
    <3>2. a[j + 1].seq + (i + 1) = a[i + 1].seq + (j + 1)
      BY <3>1 DEF Contiguous
    <3>3. a[j + 1].seq \in Nat /\ a[i + 1].seq \in Nat
      BY <3>1, <1>1, FrameOf
    <3>4. Tail(a)[j] = a[j + 1] /\ Tail(a)[i] = a[i + 1]
      BY <2>3, <2>4
    <3> HIDE DEF a
    <3> QED
      BY <3>1, <3>2, <3>3, <3>4
  <2> HIDE DEF a
  <2>6. Tail(a)[Len(Tail(a))] = f /\ Tail(a) # <<>>
    <3>1. Len(a) \in Nat /\ Len(Tail(a)) = Len(a) - 1 /\ Len(a) > 1
      BY <1>1, <2>2, <2>3
    <3>2. Len(Tail(a)) \in 1..Len(Tail(a))
      BY <3>1
    <3> QED
      BY <3>1, <3>2, <1>1, <2>4
  <2> QED
    BY <1>2, <2>1, <2>3, <2>5, <2>6 DEF a
<1>4. CASE ~(Len(a) > MaxReplayBuffer)
  <2>1. Trim(a) = a
    BY <1>4 DEF Trim
  <2> QED
    BY <1>1, <1>2, <2>1
<1> QED
  BY <1>3, <1>4

\* What a peer has not seen of a buffer in order has no hole.
LEMMA MissedInOrder ==
  ASSUME NEW b \in Seq(Frame), Contiguous(b), NEW n \in Nat
  PROVE  NoHole(At(b, {i \in DOMAIN b : b[i].seq > n}))
<1> DEFINE I == {i \in DOMAIN b : b[i].seq > n}
<1>1. \A i \in DOMAIN b : i \in Nat /\ b[i].seq \in Nat
  BY FrameOf
<1> SUFFICES ASSUME NEW x \in At(b, I), NEW y \in At(b, I)
             PROVE  /\ x[1] < y[1] <=> x[2].seq < y[2].seq
                    /\ \A m \in x[2].seq .. y[2].seq : \E z \in At(b, I) : z[2].seq = m
  BY DEF NoHole
<1>2. PICK i \in I : x = <<i, b[i]>>
  BY DEF At
<1>3. PICK j \in I : y = <<j, b[j]>>
  BY DEF At
<1>4. b[j].seq + i = b[i].seq + j
  BY DEF Contiguous
<1>5. i < j <=> b[i].seq < b[j].seq
  BY <1>1, <1>4
<1>6. ASSUME NEW m \in b[i].seq .. b[j].seq
      PROVE  \E z \in At(b, I) : z[2].seq = m
  <2> DEFINE k == i + (m - b[i].seq)
  <2>1. k \in i..j /\ m \in Nat /\ m > n
    BY <1>1, <1>4, <1>6
  <2>2. k \in DOMAIN b
    BY <2>1, <1>1
  <2>3. b[k].seq + i = b[i].seq + k
    BY <2>2 DEF Contiguous
  <2>4. b[k].seq = m
    BY <2>2, <2>3, <1>1, <1>6
  <2>5. k \in I
    BY <2>1, <2>2, <2>4
  <2>6. <<k, b[k]>> \in At(b, I)
    BY <2>5 DEF At
  <2> QED
    BY <2>4, <2>6
<1> QED
  BY <1>2, <1>3, <1>5, <1>6
LEMMA MissedType ==
  ASSUME NEW c \in Conn, buf[userID[c]] \in Seq(Frame)
  PROVE  Missed(c) \in SUBSET (Nat \X Frame)
<1> SUFFICES ASSUME NEW i \in DOMAIN buf[userID[c]]
             PROVE  <<i, buf[userID[c]][i]>> \in Nat \X Frame
  BY DEF Missed, At
<1> QED
  BY FrameOf

\* A non-empty set of frames with places has a first one.
LEMMA FirstPlace ==
  ASSUME NEW m \in SUBSET (Nat \X Frame), m # {}
  PROVE  First(m) \in m /\ \A y \in m : First(m)[1] <= y[1]
<1> DEFINE P == {x[1] : x \in m}
<1>1. P \subseteq Nat /\ P # {}
  OBVIOUS
<1>2. PICK n \in P : \A k \in P : <<k, n>> \notin OpToRel(<, Nat)
  BY <1>1, WFMin, NatLessThanWellFounded
<1>3. \A k \in P : n <= k
  <2> SUFFICES ASSUME NEW k \in P, ~(n <= k) PROVE FALSE
    OBVIOUS
  <2>1. k \in Nat /\ n \in Nat /\ k < n
    BY <1>1
  <2>2. <<k, n>> \in OpToRel(<, Nat)
    BY <2>1, Zenon DEF OpToRel
  <2> QED
    BY <1>2, <2>2
<1>4. PICK x \in m : x[1] = n
  OBVIOUS
<1>5. \A y \in m : x[1] <= y[1]
  BY <1>3, <1>4
<1> QED
  BY <1>4, <1>5 DEF First

\* A replay without its first frame has no hole either: the first has the
\* lowest number.
LEMMA RestInOrder ==
  ASSUME NEW m \in SUBSET (Nat \X Frame), m # {}, NoHole(m)
  PROVE  NoHole(Rest(m))
<1>1. PICK f \in m : f = First(m) /\ \A y \in m : f[1] <= y[1]
  BY FirstPlace
<1>2. Rest(m) = m \ {f}
  BY <1>1 DEF Rest
<1>3. \A x \in m : x[1] \in Nat /\ x[2].seq \in Nat
  BY DEF Frame
<1> SUFFICES ASSUME NEW x \in Rest(m), NEW y \in Rest(m), NEW n \in x[2].seq .. y[2].seq
             PROVE  \E z \in Rest(m) : z[2].seq = n
  BY <1>2 DEF NoHole
<1>4. PICK z \in m : z[2].seq = n
  BY <1>2 DEF NoHole
<1>5. CASE z # f
  BY <1>2, <1>4, <1>5
<1>6. CASE z = f
  <2>1. CASE f[1] < x[1]
    <3>1. f[2].seq < x[2].seq
      BY <2>1, <1>2 DEF NoHole
    <3> QED
      BY <3>1, <1>2, <1>3, <1>4, <1>6
  <2>2. CASE f[1] = x[1]
    <3>1. x[2].seq = f[2].seq
      BY <2>2, <1>2, <1>3 DEF NoHole
    <3> QED
      BY <3>1, <1>4, <1>6
  <2> QED
    BY <2>1, <2>2, <1>1, <1>2, <1>3
<1> QED
  BY <1>5, <1>6

-----------------------------------------------------------------------------
(* One step *)

\* Every step keeps every variable in its type.
LEMMA TypeStep ==
  TypeOK /\ LockInv /\ NameInv /\ [Next]_vars => TypeOK'
<1> SUFFICES ASSUME TypeOK, LockInv, NameInv, [Next]_vars PROVE TypeOK'
  OBVIOUS
<1> USE NameAssumption DEF Process, Reading, Aim, lineVars, pathVars
<1>1. ASSUME NEW p \in Process, Number(p) PROVE TypeOK'
  BY <1>1 DEF Number, TypeOK, LockInv, NameInv, ReaderAt, TaskAt
<1>2. ASSUME NEW p \in Process, Keep(p) PROVE TypeOK'
  <2>1. target[p] \in Conn /\ frame[p] \in Nat
    BY <1>2 DEF Keep, LockInv, TypeOK
  <2>2. [seq |-> frame[p], by |-> target[p]] \in Frame
    BY <2>1 DEF Frame
  <2>3. \A u \in User : Kept(u, [seq |-> frame[p], by |-> target[p]]) \in Seq(Frame)
    BY <2>2, KeptBuffer DEF Kept, TypeOK
  <2>4. buf' \in [User -> Seq(Frame)]
    BY <1>2, <2>3 DEF Keep, TypeOK
  <2> QED
    BY <1>2, <2>4 DEF Keep, TypeOK, TaskAt
<1>3. ASSUME NEW p \in Process, Offer(p) PROVE TypeOK'
  BY <1>3 DEF Offer, TypeOK, LockInv, NameInv, ReaderAt, TaskAt
<1>4. ASSUME NEW p \in Post, Collect(p) PROVE TypeOK'
  BY <1>4 DEF Collect, TypeOK, LockInv, NameInv, ReaderAt, TaskAt
<1>5. ASSUME NEW c \in Conn, Connect(c) PROVE TypeOK'
  BY <1>5 DEF Connect, TypeOK, LockInv, NameInv, ReaderAt, TaskAt
<1>6. ASSUME NEW c \in Conn, TakeName(c) PROVE TypeOK'
  BY <1>6 DEF TakeName, TypeOK, LockInv, NameInv, ReaderAt, TaskAt
<1>7. ASSUME NEW c \in Conn, ReadLast(c) PROVE TypeOK'
  <2>1. userID[c] \in User /\ buf[userID[c]] \in Seq(Frame)
    BY <1>7 DEF ReadLast, NameInv, TypeOK
  <2>2. Len(buf[userID[c]]) > 0 => buf[userID[c]][Len(buf[userID[c]])].seq \in Nat
    <3> SUFFICES ASSUME Len(buf[userID[c]]) > 0
                 PROVE  Len(buf[userID[c]]) \in DOMAIN buf[userID[c]]
      BY <2>1, FrameOf
    <3> QED
      BY <2>1
  <2>3. seq' \in [Conn -> Nat]
    BY <1>7, <2>2 DEF ReadLast, TypeOK
  <2> QED
    BY <1>7, <2>3 DEF ReadLast, TypeOK, ReaderAt
<1>8. ASSUME NEW c \in Conn, Greet(c) PROVE TypeOK'
  <2>1. Missed(c) \in SUBSET (Nat \X Frame)
    BY <1>8, MissedType DEF Greet, NameInv, TypeOK
  <2>2. replay' \in [Conn -> SUBSET (Nat \X Frame)]
    <3>1. replay' = replay \/ replay' = [replay EXCEPT ![c] = Missed(c)]
      BY <1>8 DEF Greet
    <3>2. replay \in [Conn -> SUBSET (Nat \X Frame)]
      BY DEF TypeOK
    <3> QED
      BY <2>1, <3>1, <3>2, Zenon
  <2>3. CASE CanReplay(c)
    <3>1. /\ reader' = [reader EXCEPT ![c] = "lock"] /\ UNCHANGED <<task, target>>
          /\ UNCHANGED <<seq, buf, mu, frame, split, route, taken, userID, asked, latest>>
      BY <1>8, <2>3 DEF Greet
    <3> QED
      BY <2>2, <3>1 DEF TypeOK, ReaderAt
  <2>4. CASE ~CanReplay(c)
    <3>1. /\ reader' = [reader EXCEPT ![c] = "reading"]
          /\ task' = [task EXCEPT ![c] = "number"] /\ target' = [target EXCEPT ![c] = c]
          /\ UNCHANGED <<seq, buf, mu, frame, split, route, taken, userID, asked, latest>>
      BY <1>8, <2>4 DEF Greet
    <3> QED
      BY <2>2, <3>1 DEF TypeOK, ReaderAt, TaskAt
  <2> QED
    BY <2>3, <2>4
<1>9. ASSUME NEW c \in Conn, ReplayLock(c) PROVE TypeOK'
  BY <1>9 DEF ReplayLock, TypeOK, LockInv, NameInv, ReaderAt, TaskAt
<1>10. ASSUME NEW c \in Conn, ReplayWrite(c) PROVE TypeOK'
  <2>1. replay' \in [Conn -> SUBSET (Nat \X Frame)]
    BY <1>10 DEF ReplayWrite, TypeOK, Rest
  <2>2. CASE Rest(replay[c]) = {}
    <3>1. /\ mu' = [mu EXCEPT ![c] = Free] /\ reader' = [reader EXCEPT ![c] = "reading"]
          /\ UNCHANGED <<seq, buf, task, target, frame, split, route, taken, userID, asked, latest>>
      BY <1>10, <2>2 DEF ReplayWrite
    <3> QED
      BY <2>1, <3>1 DEF TypeOK, ReaderAt
  <2>3. CASE Rest(replay[c]) # {}
    BY <1>10, <2>1, <2>3 DEF ReplayWrite, TypeOK, ReaderAt
  <2> QED
    BY <2>2, <2>3
<1>11. ASSUME NEW c \in Conn, TakeRegister(c) PROVE TypeOK'
  BY <1>11 DEF TakeRegister, TypeOK, NameInv, ReaderAt
<1>12. ASSUME NEW c \in Conn, Reply(c) PROVE TypeOK'
  BY <1>12 DEF Reply, TypeOK, LockInv, NameInv, ReaderAt, TaskAt
<1>13. ASSUME NEW c \in Conn, Leave(c) PROVE TypeOK'
  BY <1>13 DEF Leave, TypeOK, LockInv, NameInv, ReaderAt, TaskAt
<1>14. ASSUME Register PROVE TypeOK'
  BY <1>14 DEF Register, TypeOK, LockInv, NameInv, ReaderAt, TaskAt
<1>15. ASSUME Restart PROVE TypeOK'
  BY <1>15 DEF Restart, TypeOK, LockInv, NameInv, ReaderAt, TaskAt
<1>16. CASE UNCHANGED vars
  BY <1>16 DEF vars, TypeOK, LockInv, NameInv, ReaderAt, TaskAt
<1> QED
  BY <1>1, <1>2, <1>3, <1>4, <1>5, <1>6, <1>7, <1>8, <1>9, <1>10, <1>11, <1>12, <1>13, <1>14, <1>15, <1>16 DEF Next, Sending, Identifying

\* A lock is taken by whoever finds it free, and kept by nobody else.
LEMMA LockStep ==
  TypeOK /\ LockInv /\ [Next]_vars => LockInv'
<1> SUFFICES ASSUME TypeOK, LockInv, [Next]_vars PROVE LockInv'
  OBVIOUS
<1> USE NameAssumption DEF Process, Reading, Aim, lineVars, pathVars
<1>1. ASSUME NEW p \in Process, Number(p) PROVE LockInv'
  BY <1>1 DEF Number, TypeOK, LockInv, ReaderAt, TaskAt
<1>2. ASSUME NEW p \in Process, Keep(p) PROVE LockInv'
  BY <1>2 DEF Keep, TypeOK, LockInv, ReaderAt, TaskAt
<1>3. ASSUME NEW p \in Process, Offer(p) PROVE LockInv'
  BY <1>3 DEF Offer, TypeOK, LockInv, ReaderAt, TaskAt
<1>4. ASSUME NEW p \in Post, Collect(p) PROVE LockInv'
  BY <1>4 DEF Collect, TypeOK, LockInv, ReaderAt, TaskAt
<1>5. ASSUME NEW c \in Conn, Connect(c) PROVE LockInv'
  BY <1>5 DEF Connect, TypeOK, LockInv, ReaderAt, TaskAt
<1>6. ASSUME NEW c \in Conn, TakeName(c) PROVE LockInv'
  BY <1>6 DEF TakeName, TypeOK, LockInv, ReaderAt, TaskAt
<1>7. ASSUME NEW c \in Conn, ReadLast(c) PROVE LockInv'
  BY <1>7 DEF ReadLast, TypeOK, LockInv, ReaderAt, TaskAt
<1>8. ASSUME NEW c \in Conn, Greet(c) PROVE LockInv'
  <2>1. CASE CanReplay(c)
    <3>1. Missed(c) # {}
      BY <2>1 DEF CanReplay
    <3>2. /\ reader' = [reader EXCEPT ![c] = "lock"] /\ reader[c] = "greet"
          /\ replay' = [replay EXCEPT ![c] = Missed(c)] /\ UNCHANGED <<mu, task, target>>
      BY <1>8, <2>1 DEF Greet
    <3>3. \A d \in Conn : replay'[d] = IF d = c THEN Missed(c) ELSE replay[d]
      BY <3>2 DEF TypeOK
    <3>4. \A d \in Conn : reader'[d] = IF d = c THEN "lock" ELSE reader[d]
      BY <3>2 DEF TypeOK
    <3> QED
      BY <3>1, <3>2, <3>3, <3>4 DEF LockInv
  <2>2. CASE ~CanReplay(c)
    <3>1. /\ reader' = [reader EXCEPT ![c] = "reading"] /\ reader[c] = "greet"
          /\ task' = [task EXCEPT ![c] = "number"] /\ target' = [target EXCEPT ![c] = c]
          /\ UNCHANGED <<mu, replay>>
      BY <1>8, <2>2 DEF Greet
    <3>2. task[c] # "keep"
      BY <3>1 DEF LockInv
    <3> QED
      BY <3>1, <3>2 DEF TypeOK, LockInv
  <2> QED
    BY <2>1, <2>2
<1>9. ASSUME NEW c \in Conn, ReplayLock(c) PROVE LockInv'
  BY <1>9 DEF ReplayLock, TypeOK, LockInv, ReaderAt, TaskAt
<1>10. ASSUME NEW c \in Conn, ReplayWrite(c) PROVE LockInv'
  <2>1. CASE Rest(replay[c]) = {}
    <3>1. /\ reader[c] = "writing" /\ reader' = [reader EXCEPT ![c] = "reading"]
          /\ mu' = [mu EXCEPT ![c] = Free] /\ replay' = [replay EXCEPT ![c] = {}]
          /\ UNCHANGED <<task, target>>
      BY <1>10, <2>1 DEF ReplayWrite
    <3>2. mu[c] = c /\ task[c] = "idle"
      BY <3>1 DEF LockInv, TypeOK, TaskAt
    <3> QED
      BY <3>1, <3>2 DEF TypeOK, LockInv
  <2>2. CASE Rest(replay[c]) # {}
    BY <1>10, <2>2 DEF ReplayWrite, TypeOK, LockInv
  <2> QED
    BY <2>1, <2>2
<1>11. ASSUME NEW c \in Conn, TakeRegister(c) PROVE LockInv'
  BY <1>11 DEF TakeRegister, TypeOK, LockInv, ReaderAt, TaskAt
<1>12. ASSUME NEW c \in Conn, Reply(c) PROVE LockInv'
  BY <1>12 DEF Reply, TypeOK, LockInv, ReaderAt, TaskAt
<1>13. ASSUME NEW c \in Conn, Leave(c) PROVE LockInv'
  BY <1>13 DEF Leave, TypeOK, LockInv, ReaderAt, TaskAt
<1>14. ASSUME Register PROVE LockInv'
  BY <1>14 DEF Register, TypeOK, LockInv, ReaderAt, TaskAt
<1>15. ASSUME Restart PROVE LockInv'
  BY <1>15 DEF Restart, TypeOK, LockInv, ReaderAt, TaskAt
<1>16. CASE UNCHANGED vars
  BY <1>16 DEF vars, TypeOK, LockInv, ReaderAt, TaskAt
<1> QED
  BY <1>1, <1>2, <1>3, <1>4, <1>5, <1>6, <1>7, <1>8, <1>9, <1>10, <1>11, <1>12, <1>13, <1>14, <1>15, <1>16 DEF Next, Sending, Identifying

\* An account, once taken, is only exchanged for another.
LEMMA NameStep ==
  TypeOK /\ NameInv /\ [Next]_vars => NameInv'
<1> SUFFICES ASSUME TypeOK, NameInv, [Next]_vars PROVE NameInv'
  OBVIOUS
<1> USE NameAssumption DEF Process, Reading, Aim, lineVars, pathVars
<1>1. ASSUME NEW p \in Process, Number(p) PROVE NameInv'
  BY <1>1 DEF Number, TypeOK, NameInv
<1>2. ASSUME NEW p \in Process, Keep(p) PROVE NameInv'
  BY <1>2 DEF Keep, TypeOK, NameInv
<1>3. ASSUME NEW p \in Process, Offer(p) PROVE NameInv'
  BY <1>3 DEF Offer, TypeOK, NameInv
<1>4. ASSUME NEW p \in Post, Collect(p) PROVE NameInv'
  BY <1>4 DEF Collect, TypeOK, NameInv
<1>5. ASSUME NEW c \in Conn, Connect(c) PROVE NameInv'
  BY <1>5 DEF Connect, TypeOK, NameInv
<1>6. ASSUME NEW c \in Conn, TakeName(c) PROVE NameInv'
  BY <1>6 DEF TakeName, TypeOK, NameInv
<1>7. ASSUME NEW c \in Conn, ReadLast(c) PROVE NameInv'
  BY <1>7 DEF ReadLast, TypeOK, NameInv
<1>8. ASSUME NEW c \in Conn, Greet(c) PROVE NameInv'
  BY <1>8 DEF Greet, TypeOK, NameInv
<1>9. ASSUME NEW c \in Conn, ReplayLock(c) PROVE NameInv'
  BY <1>9 DEF ReplayLock, TypeOK, NameInv
<1>10. ASSUME NEW c \in Conn, ReplayWrite(c) PROVE NameInv'
  BY <1>10 DEF ReplayWrite, TypeOK, NameInv
<1>11. ASSUME NEW c \in Conn, TakeRegister(c) PROVE NameInv'
  BY <1>11 DEF TakeRegister, TypeOK, NameInv
<1>12. ASSUME NEW c \in Conn, Reply(c) PROVE NameInv'
  BY <1>12 DEF Reply, TypeOK, NameInv
<1>13. ASSUME NEW c \in Conn, Leave(c) PROVE NameInv'
  BY <1>13 DEF Leave, TypeOK, NameInv
<1>14. ASSUME Register PROVE NameInv'
  BY <1>14 DEF Register, TypeOK, NameInv
<1>15. ASSUME Restart PROVE NameInv'
  BY <1>15 DEF Restart, TypeOK, NameInv
<1>16. CASE UNCHANGED vars
  BY <1>16 DEF vars, TypeOK, NameInv
<1> QED
  BY <1>1, <1>2, <1>3, <1>4, <1>5, <1>6, <1>7, <1>8, <1>9, <1>10, <1>11, <1>12, <1>13, <1>14, <1>15, <1>16 DEF Next, Sending, Identifying

\* The last reader goes on numbering where the buffer ends.
LEMMA LineStep ==
  TypeOK /\ LockInv /\ NameInv /\ LineInv /\ [Next]_vars => LineInv'
<1> SUFFICES ASSUME TypeOK, LockInv, NameInv, LineInv, [Next]_vars PROVE LineInv'
  OBVIOUS
<1> USE NameAssumption DEF Process, Reading, Aim, lineVars, pathVars
<1>1. ASSUME NEW p \in Process, Number(p) PROVE LineInv'
  <2> DEFINE c == target[p]
  <2>0. UNCHANGED <<target, latest, userID, buf>>
    BY <1>1 DEF Number
  <2>1. c \in Conn /\ ~Busy(c)
    BY <1>1 DEF Number, LockInv, TypeOK, Busy
  <2>2. seq' = [seq EXCEPT ![c] = @ + 1] /\ frame'[p] = seq[c] + 1 /\ seq[c] \in Nat
    BY <1>1, <2>1 DEF Number, TypeOK
  <2>3. task' = [task EXCEPT ![p] = "keep"] /\ \A q \in Process : q # p => frame'[q] = frame[q]
    BY <1>1 DEF Number, TypeOK
  <2>4. SUFFICES ASSUME NEW u \in User, ~split'[u]
                 PROVE  /\ \A q \in Process : task'[q] = "keep" /\ userID[target[q]] = u =>
                              target[q] = latest[u] /\ frame'[q] = seq'[target[q]]
                        /\ latest[u] # NoConn /\ buf[u] # <<>> =>
                              seq'[latest[u]] = IF Busy(latest[u])' THEN LastSeq(u) + 1 ELSE LastSeq(u)
    BY <1>1 DEF Number, LineInv, LastSeq, TypeOK
  <2>5. ~split[u] /\ (userID[c] = u => latest[u] = c)
    BY <1>1, <2>4 DEF Number, TypeOK
  <2>6. ASSUME NEW q \in Process, task'[q] = "keep", userID[target[q]] = u
        PROVE  target[q] = latest[u] /\ frame'[q] = seq'[target[q]]
    <3>1. CASE q = p
      BY <2>1, <2>2, <2>5, <2>6, <3>1 DEF TypeOK
    <3>2. CASE q # p
      <4>1. task[q] = "keep" /\ target[q] # c /\ target[q] \in Conn
        BY <2>1, <2>3, <2>6, <3>2 DEF Busy, TypeOK, LockInv
      <4> QED
        BY <4>1, <2>2, <2>3, <2>5, <2>6, <3>2 DEF LineInv, TypeOK
    <3> QED
      BY <3>1, <3>2
  <2>7. ASSUME latest[u] # NoConn, buf[u] # <<>>
        PROVE  seq'[latest[u]] = IF Busy(latest[u])' THEN LastSeq(u) + 1 ELSE LastSeq(u)
    <3>0. latest[u] \in Conn /\ userID[latest[u]] = u
      BY <2>7 DEF NameInv, TypeOK
    <3>1. CASE latest[u] = c
      <4>1. Busy(c)' /\ seq[c] = LastSeq(u)
        BY <1>1, <2>0, <2>1, <2>3, <2>5, <2>7, <3>1 DEF Busy, Number, LineInv, TypeOK
      <4> QED
        BY <4>1, <2>0, <2>1, <2>2, <3>1 DEF TypeOK
    <3>2. CASE latest[u] # c
      <4>1. Busy(latest[u])' <=> Busy(latest[u])
        BY <1>1, <2>3, <3>2 DEF Busy, Number, TypeOK
      <4> QED
        BY <4>1, <2>1, <2>2, <2>5, <2>7, <3>0, <3>2 DEF LineInv, TypeOK
    <3> QED
      BY <3>1, <3>2
  <2> QED
    BY <2>6, <2>7
<1>2. ASSUME NEW p \in Process, Keep(p) PROVE LineInv'
  <2> DEFINE c == target[p]
            f == [seq |-> frame[p], by |-> c]
  <2>0. UNCHANGED <<target, latest, userID, seq, frame, split>>
    BY <1>2 DEF Keep
  <2>1. c \in Conn /\ f \in Frame /\ f.seq = frame[p]
    BY <1>2 DEF Keep, LockInv, TypeOK, Frame
  <2>2. task' = [task EXCEPT ![p] = "send"]
    BY <1>2 DEF Keep
  <2>3. ~Busy(c)' /\ \A d \in Conn : d # c => (Busy(d)' <=> Busy(d))
    BY <1>2, <2>2 DEF Busy, Keep, LockInv, TypeOK
  <2>4. SUFFICES ASSUME NEW u \in User, ~split[u]
                 PROVE  /\ Contiguous(buf'[u])
                        /\ \A q \in Process : task'[q] = "keep" /\ userID[target[q]] = u =>
                              target[q] = latest[u] /\ frame[q] = seq[target[q]]
                        /\ latest[u] # NoConn /\ buf'[u] # <<>> =>
                              seq[latest[u]] = IF Busy(latest[u])' THEN LastSeq(u)' + 1
                                                                   ELSE LastSeq(u)'
    BY <1>2 DEF Keep, LineInv
  <2>5. \A q \in Process : task'[q] = "keep" /\ userID[target[q]] = u =>
           target[q] = latest[u] /\ frame[q] = seq[target[q]]
    BY <2>2, <2>4 DEF LineInv, TypeOK
  <2>6. CASE userID[c] # u
    <3>1. buf'[u] = buf[u] /\ LastSeq(u)' = LastSeq(u)
      BY <1>2, <2>6 DEF Keep, LastSeq
    <3>2. latest[u] # NoConn => latest[u] \in Conn /\ latest[u] # c
      BY <2>6 DEF NameInv, TypeOK
    <3>3. latest[u] # NoConn => (Busy(latest[u])' <=> Busy(latest[u]))
      BY <2>0, <2>3, <3>2 DEF Busy
    <3> QED
      BY <2>0, <2>4, <2>5, <3>1, <3>3 DEF LineInv
  <2>7. CASE userID[c] = u
    <3>1. buf'[u] = Trim(Append(buf[u], f)) /\ buf[u] \in Seq(Frame)
      BY <1>2, <2>7 DEF Keep, Kept, TypeOK
    <3>2. c = latest[u] /\ frame[p] = seq[c]
      BY <1>2, <2>4, <2>7 DEF Keep, LineInv
    <3>3. Busy(c)
      BY <1>2 DEF Keep, Busy
    <3>4. latest[u] # NoConn
      BY <2>1, <3>2
    <3>5. buf[u] # <<>> => seq[c] = LastSeq(u) + 1
      BY <2>4, <3>2, <3>3, <3>4 DEF LineInv
    <3>6. buf[u] # <<>> => f.seq = buf[u][Len(buf[u])].seq + 1
      BY <2>1, <3>2, <3>5 DEF LastSeq
    <3>7. Contiguous(buf[u])
      BY <2>4 DEF LineInv
    <3>8. Contiguous(buf'[u]) /\ buf'[u][Len(buf'[u])] = f
      <4> HIDE DEF f
      <4> QED
        BY <2>1, <3>1, <3>6, <3>7, KeptBuffer
    <3>9. LastSeq(u)' = seq[c]
      BY <2>1, <3>2, <3>8 DEF LastSeq
    <3>10. ~Busy(latest[u])'
      BY <2>0, <2>3, <3>2
    <3> QED
      BY <2>0, <2>5, <3>2, <3>8, <3>9, <3>10
  <2> QED
    BY <2>6, <2>7
<1>3. ASSUME NEW p \in Process, Offer(p) PROVE LineInv'
  BY <1>3 DEF Offer, TypeOK, LockInv, NameInv, LineInv, Busy, LastSeq
<1>4. ASSUME NEW p \in Post, Collect(p) PROVE LineInv'
  BY <1>4 DEF Collect, TypeOK, LockInv, NameInv, LineInv, Busy, LastSeq
<1>5. ASSUME NEW c \in Conn, Connect(c) PROVE LineInv'
  BY <1>5 DEF Connect, TypeOK, LockInv, NameInv, LineInv, Busy, LastSeq
<1>6. ASSUME NEW c \in Conn, TakeName(c) PROVE LineInv'
  <2>1. PICK w \in Holds[c] :
           /\ userID' = [userID EXCEPT ![c] = w]
           /\ split' = [split EXCEPT ![w] = @ \/ (userID[c] # w /\ \E p \in Process :
                                                task[p] = "keep" /\ target[p] = c)]
           /\ latest' = [v \in User |-> IF v # w /\ latest[v] = c THEN NoConn ELSE latest[v]]
    BY <1>6 DEF TakeName
  <2>2. UNCHANGED <<seq, buf, mu, task, target, frame>>
    BY <1>6 DEF TakeName
  <2>3. w \in User
    BY <2>1
  <2>4. SUFFICES ASSUME NEW u \in User, ~split'[u]
                 PROVE  /\ \A q \in Process : task[q] = "keep" /\ userID'[target[q]] = u =>
                              target[q] = latest'[u] /\ frame[q] = seq[target[q]]
                        /\ latest'[u] # NoConn => latest'[u] = latest[u]
                        /\ ~split[u]
    BY <2>2 DEF LineInv, LastSeq, Busy
  <2>5. ~split[u]
    BY <2>1, <2>4 DEF TypeOK
  <2>6. latest'[u] # NoConn => latest'[u] = latest[u]
    BY <2>1
  <2>7. ASSUME NEW q \in Process, task[q] = "keep", userID'[target[q]] = u
        PROVE  target[q] = latest'[u] /\ frame[q] = seq[target[q]]
    <3>1. target[q] \in Conn
      BY <2>7 DEF LockInv
    <3>2. userID[target[q]] = u
      BY <2>1, <2>3, <2>4, <2>7, <3>1 DEF TypeOK
    <3>3. target[q] = latest[u] /\ frame[q] = seq[target[q]]
      BY <2>5, <2>7, <3>2 DEF LineInv
    <3>4. u = w \/ latest[u] # c
      BY <2>1, <2>7, <3>1, <3>2, <3>3 DEF TypeOK
    <3> QED
      BY <2>1, <3>3, <3>4
  <2> QED
    BY <2>5, <2>6, <2>7
<1>7. ASSUME NEW c \in Conn, ReadLast(c) PROVE LineInv'
  <2> DEFINE w == userID[c]
  <2>1. w \in User /\ buf[w] \in Seq(Frame)
    BY <1>7 DEF ReadLast, NameInv, TypeOK
  <2>2. /\ seq' = [seq EXCEPT ![c] = IF Len(buf[w]) > 0 THEN LastSeq(w) ELSE @]
        /\ latest' = [latest EXCEPT ![w] = c]
        /\ split' = [split EXCEPT ![w] = @ \/ \E p \in Process :
                                               task[p] = "keep" /\ userID[target[p]] = w]
        /\ UNCHANGED <<buf, task, target, frame, userID>>
    BY <1>7 DEF ReadLast, LastSeq
  <2>3. SUFFICES ASSUME NEW u \in User, ~split'[u]
                 PROVE  /\ Contiguous(buf[u])
                        /\ \A q \in Process : task[q] = "keep" /\ userID[target[q]] = u =>
                              target[q] = latest'[u] /\ frame[q] = seq'[target[q]]
                        /\ latest'[u] # NoConn /\ buf[u] # <<>> =>
                              seq'[latest'[u]] = IF Busy(latest'[u]) THEN LastSeq(u) + 1
                                                                     ELSE LastSeq(u)
    BY <2>2 DEF LineInv, Busy, LastSeq
  <2>4. ~split[u]
    BY <2>1, <2>2, <2>3 DEF TypeOK
  <2>5. CASE u = w
    <3>1. \A p \in Process : ~(task[p] = "keep" /\ userID[target[p]] = w)
      BY <2>1, <2>2, <2>3, <2>5 DEF TypeOK
    <3>2. ~Busy(c)
      BY <3>1 DEF Busy
    <3>3. latest'[u] = c
      BY <2>2, <2>5 DEF TypeOK
    <3>4. buf[u] # <<>> => seq'[c] = LastSeq(u)
      BY <2>1, <2>2, <2>5 DEF TypeOK
    <3> QED
      BY <2>4, <2>5, <3>1, <3>2, <3>3, <3>4 DEF LineInv
  <2>6. CASE u # w
    <3>1. latest'[u] = latest[u] /\ latest[u] # c
      BY <2>2, <2>6 DEF NameInv, TypeOK
    <3>2. \A d \in Conn : d # c => seq'[d] = seq[d]
      BY <2>2 DEF TypeOK
    <3>3. latest[u] # NoConn => latest[u] \in Conn
      BY DEF TypeOK
    <3>4. \A q \in Process : task[q] = "keep" /\ userID[target[q]] = u =>
             target[q] \in Conn /\ target[q] # c
      BY <2>6 DEF LockInv
    <3> QED
      BY <2>4, <3>1, <3>2, <3>3, <3>4 DEF LineInv
  <2> QED
    BY <2>5, <2>6
<1>8. ASSUME NEW c \in Conn, Greet(c) PROVE LineInv'
  <2>1. \A p \in Process : task'[p] = "keep" <=> task[p] = "keep"
    <3>1. task[c] # "keep"
      BY <1>8 DEF Greet, LockInv
    <3> QED
      BY <1>8, <3>1 DEF Greet, TypeOK
  <2>2. \A p \in Process : task[p] = "keep" => target'[p] = target[p]
    BY <1>8 DEF Greet, TypeOK, LockInv
  <2>3. \A d \in Conn : Busy(d)' <=> Busy(d)
    BY <2>1, <2>2 DEF Busy
  <2>4. UNCHANGED <<seq, buf, frame, split, userID, latest>>
    BY <1>8 DEF Greet
  <2>5. \A u \in User : latest[u] # NoConn => latest[u] \in Conn
    BY DEF TypeOK
  <2> QED
    BY <2>1, <2>2, <2>3, <2>4, <2>5 DEF LineInv, LastSeq
<1>9. ASSUME NEW c \in Conn, ReplayLock(c) PROVE LineInv'
  BY <1>9 DEF ReplayLock, TypeOK, LockInv, NameInv, LineInv, Busy, LastSeq
<1>10. ASSUME NEW c \in Conn, ReplayWrite(c) PROVE LineInv'
  BY <1>10 DEF ReplayWrite, TypeOK, LockInv, NameInv, LineInv, Busy, LastSeq
<1>11. ASSUME NEW c \in Conn, TakeRegister(c) PROVE LineInv'
  BY <1>11 DEF TakeRegister, TypeOK, LockInv, NameInv, LineInv, Busy, LastSeq
<1>12. ASSUME NEW c \in Conn, Reply(c) PROVE LineInv'
  BY <1>12 DEF Reply, TypeOK, LockInv, NameInv, LineInv, Busy, LastSeq
<1>13. ASSUME NEW c \in Conn, Leave(c) PROVE LineInv'
  BY <1>13 DEF Leave, TypeOK, LockInv, NameInv, LineInv, Busy, LastSeq
<1>14. ASSUME Register PROVE LineInv'
  BY <1>14 DEF Register, TypeOK, LockInv, NameInv, LineInv, Busy, LastSeq
<1>15. ASSUME Restart PROVE LineInv'
  <2>1. \A u \in User : buf'[u] = <<>> /\ latest'[u] = NoConn
    BY <1>15 DEF Restart
  <2>2. \A p \in Process : task'[p] # "keep"
    BY <1>15 DEF Restart
  <2>3. Contiguous(<<>>)
    BY DEF Contiguous
  <2> QED
    BY <2>1, <2>2, <2>3 DEF LineInv
<1>16. CASE UNCHANGED vars
  BY <1>16 DEF vars, TypeOK, LockInv, NameInv, LineInv, Busy, LastSeq
<1> QED
  BY <1>1, <1>2, <1>3, <1>4, <1>5, <1>6, <1>7, <1>8, <1>9, <1>10, <1>11, <1>12, <1>13, <1>14, <1>15, <1>16 DEF Next, Sending, Identifying

\* A replay is copied from a buffer in order, and shrinks from there.
LEMMA ReplayStep ==
  TypeOK /\ LockInv /\ NameInv /\ LineInv /\ ReplayContiguous /\ [Next]_vars => ReplayContiguous'
<1> SUFFICES ASSUME TypeOK, LockInv, NameInv, LineInv, ReplayContiguous, [Next]_vars PROVE ReplayContiguous'
  OBVIOUS
<1> USE NameAssumption DEF Process, Reading, Aim, lineVars, pathVars
<1>1. ASSUME NEW p \in Process, Number(p) PROVE ReplayContiguous'
  BY <1>1 DEF Number, TypeOK, LockInv, NameInv, ReplayContiguous
<1>2. ASSUME NEW p \in Process, Keep(p) PROVE ReplayContiguous'
  BY <1>2 DEF Keep, TypeOK, LockInv, NameInv, ReplayContiguous
<1>3. ASSUME NEW p \in Process, Offer(p) PROVE ReplayContiguous'
  BY <1>3 DEF Offer, TypeOK, LockInv, NameInv, ReplayContiguous
<1>4. ASSUME NEW p \in Post, Collect(p) PROVE ReplayContiguous'
  BY <1>4 DEF Collect, TypeOK, LockInv, NameInv, ReplayContiguous
<1>5. ASSUME NEW c \in Conn, Connect(c) PROVE ReplayContiguous'
  BY <1>5 DEF Connect, TypeOK, LockInv, NameInv, ReplayContiguous
<1>6. ASSUME NEW c \in Conn, TakeName(c) PROVE ReplayContiguous'
  <2>1. replay[c] = {} /\ UNCHANGED replay
    BY <1>6 DEF TakeName, LockInv
  <2>2. NoHole({})
    BY DEF NoHole
  <2>3. \A d \in Conn : d # c => userID'[d] = userID[d]
    BY <1>6 DEF TakeName, TypeOK
  <2>4. \A u \in User : ~split'[u] => ~split[u]
    BY <1>6 DEF TakeName, TypeOK
  <2> QED
    BY <2>1, <2>2, <2>3, <2>4 DEF ReplayContiguous
<1>7. ASSUME NEW c \in Conn, ReadLast(c) PROVE ReplayContiguous'
  BY <1>7 DEF ReadLast, TypeOK, LockInv, NameInv, ReplayContiguous
<1>8. ASSUME NEW c \in Conn, Greet(c) PROVE ReplayContiguous'
  <2>1. userID[c] \in User /\ buf[userID[c]] \in Seq(Frame) /\ asked[c] \in Nat
    BY <1>8 DEF Greet, NameInv, TypeOK
  <2>2. ~split[userID[c]] => NoHole(Missed(c))
    BY <2>1, MissedInOrder DEF Missed, LineInv
  <2>3. UNCHANGED <<userID, split>> /\ \A d \in Conn : replay'[d] = replay[d]
                                               \/ (d = c /\ replay'[d] = Missed(c))
    <3>1. UNCHANGED <<userID, split>>
      BY <1>8 DEF Greet
    <3>2. replay' = replay \/ replay' = [replay EXCEPT ![c] = Missed(c)]
      BY <1>8 DEF Greet
    <3>3. CASE replay' = [replay EXCEPT ![c] = Missed(c)]
      <4>1. \A d \in Conn : replay'[d] = IF d = c THEN Missed(c) ELSE replay[d]
        BY <3>3 DEF TypeOK
      <4> QED
        BY <3>1, <4>1, Zenon
    <3> QED
      BY <3>1, <3>2, <3>3, Zenon
  <2> QED
    BY <2>2, <2>3 DEF ReplayContiguous
<1>9. ASSUME NEW c \in Conn, ReplayLock(c) PROVE ReplayContiguous'
  BY <1>9 DEF ReplayLock, TypeOK, LockInv, NameInv, ReplayContiguous
<1>10. ASSUME NEW c \in Conn, ReplayWrite(c) PROVE ReplayContiguous'
  <2>1. UNCHANGED <<userID, split>> /\ \A d \in Conn : replay'[d] = replay[d]
                                               \/ (d = c /\ replay'[d] = Rest(replay[d]))
    <3>1. UNCHANGED <<userID, split>> /\ replay' = [replay EXCEPT ![c] = Rest(@)]
      BY <1>10 DEF ReplayWrite
    <3>2. \A d \in Conn : replay'[d] = IF d = c THEN Rest(replay[c]) ELSE replay[d]
      BY <3>1 DEF TypeOK
    <3> QED
      BY <3>1, <3>2, Zenon
  <2>2. replay[c] \in SUBSET (Nat \X Frame) /\ replay[c] # {}
    BY <1>10 DEF ReplayWrite, TypeOK, LockInv
  <2>3. NoHole(replay[c]) => NoHole(Rest(replay[c]))
    BY <2>2, RestInOrder
  <2> QED
    BY <2>1, <2>3 DEF ReplayContiguous
<1>11. ASSUME NEW c \in Conn, TakeRegister(c) PROVE ReplayContiguous'
  BY <1>11 DEF TakeRegister, TypeOK, LockInv, NameInv, ReplayContiguous
<1>12. ASSUME NEW c \in Conn, Reply(c) PROVE ReplayContiguous'
  BY <1>12 DEF Reply, TypeOK, LockInv, NameInv, ReplayContiguous
<1>13. ASSUME NEW c \in Conn, Leave(c) PROVE ReplayContiguous'
  BY <1>13 DEF Leave, TypeOK, LockInv, NameInv, ReplayContiguous
<1>14. ASSUME Register PROVE ReplayContiguous'
  BY <1>14 DEF Register, TypeOK, LockInv, NameInv, ReplayContiguous
<1>15. ASSUME Restart PROVE ReplayContiguous'
  BY <1>15 DEF Restart, TypeOK, LockInv, NameInv, ReplayContiguous
<1>16. CASE UNCHANGED vars
  BY <1>16 DEF vars, TypeOK, LockInv, NameInv, ReplayContiguous
<1> QED
  BY <1>1, <1>2, <1>3, <1>4, <1>5, <1>6, <1>7, <1>8, <1>9, <1>10, <1>11, <1>12, <1>13, <1>14, <1>15, <1>16 DEF Next, Sending, Identifying

-----------------------------------------------------------------------------
(* The invariant and the theorems *)

LEMMA InitInv == Init => IInv
<1> SUFFICES ASSUME Init PROVE IInv
  OBVIOUS
<1> USE NameAssumption DEF Init, Process
<1>1. TypeOK
  BY DEF TypeOK, ReaderAt, TaskAt
<1>2. LockInv /\ NameInv
  BY DEF LockInv, NameInv
<1>3. LineInv
  BY DEF LineInv, Contiguous, Busy
<1>4. ReplayContiguous
  BY DEF ReplayContiguous, NoHole
<1> QED
  BY <1>1, <1>2, <1>3, <1>4 DEF IInv

LEMMA StepInv == IInv /\ [Next]_vars => IInv'
  BY TypeStep, LockStep, NameStep, LineStep, ReplayStep DEF IInv

\* The invariant holds of every behaviour.
THEOREM Invariant == Spec => []IInv
  BY InitInv, StepInv, PTL DEF Spec

\* Every variable keeps its type.
THEOREM TypeCorrect == Spec => []TypeOK
<1>1. IInv => TypeOK
  BY DEF IInv
<1> QED
  BY <1>1, Invariant, PTL

\* The frames kept for an account bear consecutive numbers, as long as one
\* connection at a time numbers for it.
THEOREM NumbersStayContiguous == Spec => []NumbersContiguous
<1>1. IInv => NumbersContiguous
  BY DEF IInv, LineInv, NumbersContiguous
<1> QED
  BY <1>1, Invariant, PTL

\* A replay then has no hole inside.
THEOREM ReplaysHaveNoHole == Spec => []ReplayContiguous
<1>1. IInv => ReplayContiguous
  BY DEF IInv
<1> QED
  BY <1>1, Invariant, PTL

=============================================================================
