------------------------------ MODULE ClientProofs ------------------------------
(***************************************************************************)
(* Theorems about the client's own state: the session and its two keys on  *)
(* disk, the server's address, the home screen, a floating panel, the      *)
(* shell, the preferences and the lanes of a board.  Each part has its own *)
(* inductive invariant, and its specification the steps of its module      *)
(* alone, except for the server's address, which the boot and the kill     *)
(* change with the session.                                                *)
(***************************************************************************)
EXTENDS MCClient, DataLemmas

-----------------------------------------------------------------------------
(* The session.  A persist is two writes, so that the disk is always between two of *)
(* them: the invariant says where, by the persists that wait.                       *)


Persists == [who : Holders, step : {1, 2}]

\* Before the disk was read nobody is signed in and nothing has been sent.
Asleep == boot \in {"override", "read"}

SessionType ==
    /\ {me, token, user, tokenKey, userKey} \subseteq Holders
    /\ writes \in Seq(Persists)
    /\ \A c \in calls : c.who \in Accounts
    /\ mixed \in BOOLEAN /\ torn \in BOOLEAN

Untouched == Asleep => token = Nobody /\ user = Nobody /\ calls = {} /\ writes = <<>>

\* Persists that wait have written their first key before those behind them.
Ordered == \A i, j \in 1..Len(writes) : i < j => writes[j].step <= writes[i].step

\* The token's key is that of the last persist whose first write is done ...
HalfWritten ==
    \A i \in 1..Len(writes) :
        writes[i].step = 2 /\ (\A j \in 1..Len(writes) : i < j => writes[j].step = 1)
            => tokenKey = writes[i].who

\* ... and with none of those, and no kill between two writes, both keys agree.
Whole == ~torn /\ (\A i \in 1..Len(writes) : writes[i].step = 1) => tokenKey = userKey

\* The session in memory is the one persisted last, or else the one on disk.
Latest == ~Asleep /\ writes # <<>> => writes[Len(writes)].who = token
OnDisk == ~Asleep /\ writes = <<>> /\ ~torn => tokenKey = token

PersistQueue == Ordered /\ HalfWritten /\ Whole /\ Latest /\ OnDisk
SessionInv == SessionType /\ Untouched /\ PersistQueue /\ SessionCoherent

LEMMA PersistFields ==
    ASSUME NEW s \in Seq(Persists), NEW i \in 1..Len(s)
    PROVE  s[i] \in Persists /\ s[i].step \in {1, 2} /\ s[i].who \in Holders
<1>1. s[i] \in Persists
  BY ElementOfSeq
<1> QED
  BY <1>1 DEF Persists

\* persist() puts one more pair of writes behind those that wait.
LEMMA PersistKeepsQueue ==
    ASSUME SessionInv, NEW a \in Holders, PersistSession(a), ~Asleep,
           UNCHANGED <<tokenKey, userKey, torn>>
    PROVE  writes' \in Seq(Persists) /\ PersistQueue'
<1> DEFINE w == [who |-> a, step |-> 1]
           n == Len(writes)
<1>1. writes \in Seq(Persists) /\ w \in Persists /\ n \in Nat
  BY DEF SessionInv, SessionType, Persists
<1>2. writes' = Append(writes, w) /\ token' = a
  BY DEF PersistSession
<1>3. /\ writes' \in Seq(Persists) /\ Len(writes') = n + 1
      /\ \A i \in 1..n : writes'[i] = writes[i]
      /\ writes'[n + 1] = w
  BY <1>1, <1>2, AppendProperties
<1>4. \A i \in 1..n : writes[i].step \in {1, 2}
  BY <1>1, PersistFields
<1>5. writes' # <<>>
  BY <1>1, <1>3
<1> HIDE DEF n
<1>6. Ordered'
  <2> SUFFICES ASSUME NEW i \in 1..(n + 1), NEW j \in 1..(n + 1), i < j
               PROVE  writes'[j].step <= writes'[i].step
    BY <1>3 DEF Ordered
  <2>1. CASE j = n + 1
    BY <2>1, <1>1, <1>3, <1>4
  <2>2. CASE j # n + 1
    BY <2>2, <1>1, <1>3 DEF SessionInv, PersistQueue, Ordered, n
  <2> QED
    BY <2>1, <2>2
<1>7. HalfWritten'
  <2> SUFFICES ASSUME NEW i \in 1..(n + 1), writes'[i].step = 2,
                      \A j \in 1..(n + 1) : i < j => writes'[j].step = 1
               PROVE  tokenKey = writes'[i].who
    BY <1>3 DEF HalfWritten
  <2>1. i \in 1..n
    BY <1>1, <1>3
  <2>2. writes[i].step = 2 /\ \A j \in 1..n : i < j => writes[j].step = 1
    BY <2>1, <1>1, <1>3
  <2> QED
    BY <2>1, <2>2, <1>3 DEF SessionInv, PersistQueue, HalfWritten, n
<1>8. Whole'
  <2> SUFFICES ASSUME ~torn, \A i \in 1..(n + 1) : writes'[i].step = 1
               PROVE  tokenKey = userKey
    BY <1>3 DEF Whole
  <2>1. \A i \in 1..n : writes[i].step = 1
    BY <1>1, <1>3
  <2> QED
    BY <2>1 DEF SessionInv, PersistQueue, Whole, n
<1>9. Latest' /\ OnDisk'
  BY <1>2, <1>3, <1>5 DEF Latest, OnDisk
<1> QED
  BY <1>3, <1>6, <1>7, <1>8, <1>9 DEF PersistQueue

\* The first write of a persist: those before it have theirs, those behind do not.
LEMMA TokenWriteKeepsQueue ==
    ASSUME SessionInv, WriteTokenKey
    PROVE  writes' \in Seq(Persists) /\ tokenKey' \in Holders /\ PersistQueue'
<1> DEFINE n == Len(writes)
<1>1. writes \in Seq(Persists) /\ n \in Nat
  BY DEF SessionInv, SessionType
<1>2. PICK i \in 1..n : /\ writes[i].step = 1
                        /\ \A j \in 1..(i - 1) : writes[j].step = 2
                        /\ tokenKey' = writes[i].who
                        /\ writes' = [writes EXCEPT ![i].step = 2]
                        /\ UNCHANGED <<boot, token, userKey, torn>>
  BY DEF WriteTokenKey
<1> DEFINE w == [writes[i] EXCEPT !.step = 2]
<1>3. writes[i] \in Persists /\ w \in Persists /\ w.step = 2 /\ w.who = writes[i].who
  <2>1. writes[i] \in Persists
    BY <1>1, PersistFields
  <2> QED
    BY <2>1 DEF Persists
<1>4. writes' = [writes EXCEPT ![i] = w]
  BY <1>2
<1> HIDE DEF w, n
<1>5. /\ writes' \in Seq(Persists) /\ Len(writes') = n
      /\ \A j \in 1..n : writes'[j] = IF j = i THEN w ELSE writes[j]
  BY <1>1, <1>3, <1>4, ExceptSeq DEF n
<1>6. \A j \in 1..n : writes[j].step \in {1, 2}
  BY <1>1, PersistFields DEF n
<1>7. \A j \in 1..n : i < j => writes[j].step = 1
  BY <1>1, <1>2, <1>6 DEF SessionInv, PersistQueue, Ordered, n
<1>8. \A j \in 1..n : writes'[j].step = IF j <= i THEN 2 ELSE 1
  BY <1>1, <1>2, <1>3, <1>5, <1>7
<1>9. Ordered'
  BY <1>1, <1>2, <1>5, <1>8 DEF Ordered
<1>10. HalfWritten'
  <2> SUFFICES ASSUME NEW k \in 1..n, writes'[k].step = 2,
                      \A j \in 1..n : k < j => writes'[j].step = 1
               PROVE  tokenKey' = writes'[k].who
    BY <1>5 DEF HalfWritten
  <2>1. k = i
    BY <1>1, <1>2, <1>8
  <2> QED
    BY <2>1, <1>2, <1>3, <1>5
<1>11. Whole'
  BY <1>2, <1>3, <1>5 DEF Whole
<1>12. writes # <<>> /\ writes' # <<>>
  BY <1>1, <1>2, <1>5 DEF n
<1>13. OnDisk'
  BY <1>12 DEF OnDisk
<1>14. Latest'
  <2>1. n \in 1..n /\ writes'[n].who = writes[n].who
    BY <1>1, <1>2, <1>3, <1>5
  <2>2. Asleep' = Asleep /\ token' = token
    BY <1>2 DEF Asleep
  <2> QED
    BY <2>1, <2>2, <1>5, <1>12 DEF Latest, SessionInv, PersistQueue, n
<1>15. tokenKey' \in Holders
  BY <1>2, <1>3 DEF Persists
<1> QED
  BY <1>5, <1>9, <1>10, <1>11, <1>13, <1>14, <1>15 DEF PersistQueue

\* The second write of the oldest persist: it is over, and if no other is half
\* way the keys on disk are both its own.
LEMMA UserWriteKeepsQueue ==
    ASSUME SessionInv, WriteUserKey
    PROVE  writes' \in Seq(Persists) /\ userKey' \in Holders /\ PersistQueue'
<1> DEFINE n == Len(writes)
<1>1. writes \in Seq(Persists) /\ n \in Nat /\ writes # <<>>
  BY DEF SessionInv, SessionType, WriteUserKey
<1>2. /\ writes[1].step = 2 /\ userKey' = writes[1].who /\ writes' = Tail(writes)
      /\ torn' = (torn /\ n > 1) /\ UNCHANGED <<boot, token, tokenKey>>
  BY <1>1 DEF WriteUserKey
<1>3. n >= 1 /\ writes[1] \in Persists
  BY <1>1, ElementOfSeq
<1>4. /\ writes' \in Seq(Persists) /\ Len(writes') = n - 1
      /\ \A j \in 1..(n - 1) : writes'[j] = writes[j + 1]
  BY <1>1, <1>2, HeadTailProperties
<1> HIDE DEF n
<1>5. \A j \in 1..n : writes[j].step \in {1, 2}
  BY <1>1, PersistFields DEF n
<1>6. Ordered'
  <2> SUFFICES ASSUME NEW i \in 1..(n - 1), NEW j \in 1..(n - 1), i < j
               PROVE  writes'[j].step <= writes'[i].step
    BY <1>4 DEF Ordered
  <2>1. i + 1 \in 1..n /\ j + 1 \in 1..n /\ i + 1 < j + 1
    BY <1>1
  <2>2. writes[j + 1].step <= writes[i + 1].step
    BY <2>1 DEF SessionInv, PersistQueue, Ordered, n
  <2> QED
    BY <2>2, <1>4
<1>7. HalfWritten'
  <2> SUFFICES ASSUME NEW i \in 1..(n - 1), writes'[i].step = 2,
                      \A j \in 1..(n - 1) : i < j => writes'[j].step = 1
               PROVE  tokenKey = writes'[i].who
    BY <1>2, <1>4 DEF HalfWritten
  <2>1. i + 1 \in 1..n /\ writes[i + 1].step = 2
    BY <1>1, <1>4
  <2>2. ASSUME NEW j \in 1..n, i + 1 < j PROVE writes[j].step = 1
    <3>1. j - 1 \in 1..(n - 1) /\ i < j - 1 /\ (j - 1) + 1 = j
      BY <2>2, <1>1
    <3> QED
      BY <3>1, <1>4
  <2>3. tokenKey = writes[i + 1].who
    BY <2>1, <2>2 DEF SessionInv, PersistQueue, HalfWritten, n
  <2> QED
    BY <2>3, <1>4
<1>8. (\A j \in 1..(n - 1) : writes'[j].step = 1) => tokenKey = userKey'
  <2> SUFFICES ASSUME \A j \in 1..(n - 1) : writes'[j].step = 1
               PROVE  tokenKey = userKey'
    OBVIOUS
  <2>1. ASSUME NEW j \in 1..n, 1 < j PROVE writes[j].step = 1
    <3>1. j - 1 \in 1..(n - 1) /\ (j - 1) + 1 = j
      BY <2>1, <1>1
    <3> QED
      BY <3>1, <1>4
  <2>2. 1 \in 1..n
    BY <1>1, <1>3
  <2>3. tokenKey = writes[1].who
    BY <2>1, <2>2, <1>2 DEF SessionInv, PersistQueue, HalfWritten, n
  <2> QED
    BY <2>3, <1>2
<1>9. Whole'
  BY <1>2, <1>4, <1>8 DEF Whole
<1>10. Asleep' = Asleep /\ token' = token
  BY <1>2 DEF Asleep
<1>11. ~Asleep => writes[n].who = token
  BY <1>1 DEF SessionInv, PersistQueue, Latest, n
<1>12. Latest'
  <2> SUFFICES ASSUME ~Asleep, writes' # <<>> PROVE writes'[n - 1].who = token
    BY <1>4, <1>10 DEF Latest
  <2>1. n - 1 # 0
    BY <1>1, <1>4
  <2>2. n - 1 \in 1..(n - 1) /\ (n - 1) + 1 = n
    BY <2>1, <1>1, <1>3
  <2> QED
    BY <2>2, <1>4, <1>11
<1>13. OnDisk'
  <2> SUFFICES ASSUME ~Asleep, writes' = <<>> PROVE tokenKey = token
    BY <1>2, <1>10 DEF OnDisk
  <2>1. n = 1
    BY <1>1, <1>4
  <2>2. tokenKey = userKey'
    BY <2>1, <1>8
  <2> QED
    BY <2>1, <2>2, <1>2, <1>11
<1>14. userKey' \in Holders
  BY <1>2, <1>3 DEF Persists
<1> QED
  BY <1>4, <1>6, <1>7, <1>9, <1>12, <1>13, <1>14 DEF PersistQueue

LEMMA SessionInvHolds == SessionSpec => []SessionInv
<1>1. SessionInit => SessionInv
  <2> SUFFICES ASSUME SessionInit PROVE SessionInv
    OBVIOUS
  <2>1. writes = <<>> /\ Len(writes) = 0 /\ 1..Len(writes) = {}
    BY DEF SessionInit
  <2>2. SessionType
    BY <2>1, EmptySeq DEF SessionInit, SessionType, Holders
  <2>3. Untouched /\ SessionCoherent
    BY DEF SessionInit, Untouched, SessionCoherent
  <2>4. PersistQueue
    BY <2>1 DEF SessionInit, PersistQueue, Ordered, HalfWritten, Whole, Latest, OnDisk, Asleep
  <2> QED
    BY <2>2, <2>3, <2>4 DEF SessionInv
<1>2. SessionInv /\ [SessionNext \/ BootOverride \/ Crash]_session => SessionInv'
  <2> SUFFICES ASSUME SessionInv, [SessionNext \/ BootOverride \/ Crash]_session
               PROVE  SessionInv'
    OBVIOUS
  <2>0. SessionType /\ Untouched /\ PersistQueue /\ SessionCoherent
    BY DEF SessionInv
  \* Steps that leave the disk, the queue and the token alone.
  <2>q. ASSUME UNCHANGED <<token, tokenKey, userKey, writes, torn>>, Asleep' = Asleep
        PROVE  PersistQueue'
    BY <2>0, <2>q DEF PersistQueue, Ordered, HalfWritten, Whole, Latest, OnDisk
  <2>1. CASE WriteTokenKey
    <3>1. writes' \in Seq(Persists) /\ tokenKey' \in Holders /\ PersistQueue'
      BY <2>1, TokenWriteKeepsQueue
    <3>2. SessionType' /\ SessionCoherent'
      BY <2>0, <2>1, <3>1 DEF WriteTokenKey, SessionType, SessionCoherent
    <3>3. Untouched'
      <4>1. writes # <<>>
        BY <2>1 DEF WriteTokenKey
      <4> QED
        BY <2>0, <2>1, <4>1 DEF WriteTokenKey, Untouched, Asleep
    <3> QED
      BY <3>1, <3>2, <3>3 DEF SessionInv
  <2>2. CASE WriteUserKey
    <3>1. writes' \in Seq(Persists) /\ userKey' \in Holders /\ PersistQueue'
      BY <2>2, UserWriteKeepsQueue
    <3>2. torn' \in BOOLEAN
      BY <2>0, <2>2 DEF WriteUserKey, SessionType
    <3>3. SessionType' /\ SessionCoherent'
      BY <2>0, <2>2, <3>1, <3>2 DEF WriteUserKey, SessionType, SessionCoherent
    <3>4. Untouched'
      BY <2>0, <2>2 DEF WriteUserKey, Untouched, Asleep
    <3> QED
      BY <3>1, <3>3, <3>4 DEF SessionInv
  <2>3. CASE BootOverride
    <3>1. PersistQueue'
      BY <2>q, <2>3 DEF BootOverride, Asleep
    <3> QED
      BY <2>0, <2>3, <3>1 DEF BootOverride, SessionInv, SessionType, Untouched, SessionCoherent, Asleep
  <2>4. CASE BootRead
    <3>1. Asleep /\ ~Asleep' /\ writes = <<>> /\ writes' = <<>> /\ token = Nobody /\ user = Nobody
      BY <2>0, <2>4 DEF BootRead, Untouched, Asleep
    <3>2. Len(writes) = 0 /\ Len(writes') = 0 /\ 1..Len(writes) = {} /\ 1..Len(writes') = {}
      BY <3>1
    <3>3. ~torn => tokenKey = userKey
      BY <2>0, <3>2 DEF PersistQueue, Whole
    <3>4. UNCHANGED <<tokenKey, userKey, writes, calls, torn>>
      BY <2>4 DEF BootRead
    <3>5. CASE tokenKey # Nobody /\ userKey # Nobody
      <4>1. token' = tokenKey /\ user' = userKey /\ me' = tokenKey /\ mixed' = torn
        BY <2>4, <3>5 DEF BootRead
      <4>2. SessionType' /\ SessionCoherent'
        BY <2>0, <3>3, <3>4, <4>1 DEF SessionType, SessionCoherent
      <4>3. PersistQueue'
        BY <3>1, <3>2, <3>3, <3>4, <4>1 DEF PersistQueue, Ordered, HalfWritten, Whole, Latest, OnDisk
      <4> QED
        BY <3>1, <4>2, <4>3 DEF SessionInv, Untouched
    <3>6. CASE ~(tokenKey # Nobody /\ userKey # Nobody)
      <4>1. UNCHANGED <<token, user, me, mixed>>
        BY <2>4, <3>6 DEF BootRead
      <4>2. SessionType' /\ SessionCoherent'
        BY <2>0, <3>4, <4>1 DEF SessionType, SessionCoherent
      <4>3. PersistQueue'
        BY <3>1, <3>2, <3>3, <3>4, <3>6, <4>1 DEF PersistQueue, Ordered, HalfWritten, Whole, Latest, OnDisk
      <4> QED
        BY <3>1, <4>2, <4>3 DEF SessionInv, Untouched
    <3> QED
      BY <3>5, <3>6
  <2>5. CASE BootMeAnswered
    <3>1. ~Asleep /\ ~Asleep'
      BY <2>5 DEF BootMeAnswered, Asleep
    <3>2. PersistQueue'
      BY <2>q, <2>5, <3>1 DEF BootMeAnswered, Asleep
    <3>3. SessionType' /\ SessionCoherent'
      BY <2>0, <2>5 DEF BootMeAnswered, SessionType, SessionCoherent
    <3> QED
      BY <3>1, <3>2, <3>3 DEF SessionInv, Untouched
  \* Answers and sign-outs that replace the session.
  <2>6. ASSUME NEW a \in Holders, PersistSession(a), ~Asleep, ~Asleep',
               UNCHANGED <<me, tokenKey, userKey, torn>>,
               \A c \in calls' : c.who \in Accounts
        PROVE  SessionInv'
    <3>1. writes' \in Seq(Persists) /\ PersistQueue'
      BY <2>6, PersistKeepsQueue
    <3>2. SessionType' /\ SessionCoherent'
      BY <2>0, <2>6, <3>1 DEF PersistSession, SessionType, SessionCoherent
    <3> QED
      BY <2>6, <3>1, <3>2 DEF SessionInv, Untouched
  <2>7. CASE BootMeRefused
    <3>1. Nobody \in Holders /\ ~Asleep /\ ~Asleep' /\ \A c \in calls' : c.who \in Accounts
      BY <2>0, <2>7 DEF BootMeRefused, Asleep, Holders, SessionType
    <3> QED
      BY <2>6, <2>7, <3>1 DEF BootMeRefused
  <2>8. CASE SignOut
    <3>1. Nobody \in Holders /\ ~Asleep /\ ~Asleep' /\ \A c \in calls' : c.who \in Accounts
      BY <2>0, <2>8 DEF SignOut, Asleep, Holders, SessionType, Untouched
    <3> QED
      BY <2>6, <2>8, <3>1 DEF SignOut
  <2>9. ASSUME NEW c \in calls, CallAnswered(c) PROVE SessionInv'
    <3>1. c.who \in Holders /\ ~Asleep /\ ~Asleep' /\ \A d \in calls' : d.who \in Accounts
      BY <2>0, <2>9 DEF CallAnswered, Asleep, Holders, SessionType, Untouched
    <3> QED
      BY <2>6, <2>9, <3>1 DEF CallAnswered
  <2>10. CASE BootMeFails \/ BootDropped
    <3>1. ~Asleep /\ ~Asleep'
      BY <2>10 DEF BootMeFails, BootDropped, Asleep
    <3>2. PersistQueue'
      BY <2>q, <2>10, <3>1 DEF BootMeFails, BootDropped, Asleep
    <3> QED
      BY <2>0, <2>10, <3>1, <3>2
         DEF BootMeFails, BootDropped, SessionInv, SessionType, SessionCoherent, Untouched
  <2>11. ASSUME NEW k, NEW a \in Accounts, Call(k, a), ~Asleep PROVE SessionInv'
    <3>1. ~Asleep'
      BY <2>11 DEF Call, Asleep
    <3>2. PersistQueue'
      BY <2>q, <2>11, <3>1 DEF Call, Asleep
    <3> QED
      BY <2>0, <2>11, <3>1, <3>2 DEF Call, SessionInv, SessionType, SessionCoherent, Untouched
  <2>12. ASSUME NEW a \in Accounts, SubmitSignIn(a) PROVE SessionInv'
    BY <2>11, <2>12 DEF SubmitSignIn, Asleep
  <2>13. CASE SaveProfile
    <3>1. token \in Accounts /\ ~Asleep
      BY <2>0, <2>13 DEF SaveProfile, SessionType, Holders, Untouched
    <3> QED
      BY <2>11, <2>13, <3>1 DEF SaveProfile
  <2>14. ASSUME NEW c \in calls, CallFails(c) PROVE SessionInv'
    <3>1. ~Asleep /\ ~Asleep'
      BY <2>0, <2>14 DEF CallFails, Asleep, Untouched
    <3>2. PersistQueue'
      BY <2>q, <2>14, <3>1 DEF CallFails, Asleep
    <3> QED
      BY <2>0, <2>14, <3>1, <3>2 DEF CallFails, SessionInv, SessionType, SessionCoherent, Untouched
  <2>15. CASE Crash
    <3>1. /\ Asleep' /\ writes' = <<>> /\ Len(writes') = 0 /\ 1..Len(writes') = {}
          /\ token' = Nobody /\ user' = Nobody /\ me' = Nobody /\ calls' = {} /\ mixed' = FALSE
          /\ UNCHANGED <<tokenKey, userKey>>
      BY <2>15 DEF Crash, Asleep
    <3>2. torn' = (torn \/ \E i \in 1..Len(writes) : writes[i].step = 2)
      BY <2>15 DEF Crash
    <3>3. torn' \in BOOLEAN
      BY <2>0, <3>2 DEF SessionType
    <3>4. ~torn' => tokenKey = userKey
      <4>1. SUFFICES ASSUME ~torn' PROVE tokenKey = userKey
        OBVIOUS
      <4>2. \A i \in 1..Len(writes) : writes[i].step \in {1, 2}
        BY <2>0, PersistFields DEF SessionType
      <4>3. ~torn /\ \A i \in 1..Len(writes) : writes[i].step = 1
        BY <3>2, <4>1, <4>2
      <4> QED
        BY <2>0, <4>3 DEF PersistQueue, Whole
    <3>5. SessionType'
      BY <2>0, <3>1, <3>3, EmptySeq DEF SessionType, Holders
    <3>6. PersistQueue'
      BY <3>1, <3>4 DEF PersistQueue, Ordered, HalfWritten, Whole, Latest, OnDisk
    <3> QED
      BY <3>1, <3>5, <3>6 DEF SessionInv, Untouched, SessionCoherent
  <2>16. CASE UNCHANGED session
    <3>1. PersistQueue'
      BY <2>q, <2>16 DEF session, Asleep
    <3> QED
      BY <2>0, <2>16, <3>1 DEF session, SessionInv, SessionType, SessionCoherent, Untouched, Asleep
  <2> QED
    BY <2>1, <2>2, <2>3, <2>4, <2>5, <2>7, <2>8, <2>9, <2>10, <2>12, <2>13, <2>14, <2>15, <2>16
       DEF SessionNext, Booting, DiskWrite
<1> QED
  BY <1>1, <1>2, PTL DEF SessionSpec

\* AuthContext.tsx: outside its two races, the token that goes with a request and
\* the user on screen are one account's, for any accounts, calls and kills.
THEOREM SessionStaysCoherent == SessionSpec => []SessionCoherent
<1>1. SessionInv => SessionCoherent
  BY DEF SessionInv
<1> QED
  BY <1>1, SessionInvHolds, PTL

\* AuthContext.tsx: with no persist waiting and no kill between its two writes, the
\* disk holds the session that is shown, so that a restart restores it.
THEOREM RestartRestoresSession == SessionSpec => []RestartRestores
<1>1. SessionInv => RestartRestores
  <2> SUFFICES ASSUME SessionInv, boot = "done", writes = <<>>, ~torn
               PROVE  tokenKey = token /\ userKey = token
    BY DEF RestartRestores
  <2>1. ~Asleep /\ 1..Len(writes) = {}
    BY DEF Asleep
  <2>2. tokenKey = token /\ tokenKey = userKey
    BY <2>1 DEF SessionInv, PersistQueue, OnDisk, Whole
  <2> QED
    BY <2>2
<1> QED
  BY <1>1, SessionInvHolds, PTL

-----------------------------------------------------------------------------
(* The server's address.  What the app talks to is what loading the last saved value *)
(* would give: the one whose write is on its way, or else the one on disk.           *)

\* What setServerOverride saves: nothing, or two addresses with a scheme.
Pairs == [api : Addresses, ws : Addresses]
IsSaved(s) == s = None \/ (s \in Pairs /\ s.api.scheme # "bare" /\ s.ws.scheme # "bare")

Forms == [api : Addresses, ws : Addresses, touched : BOOLEAN, probe : Probes, asked : Nat, saving : BOOLEAN]
Stores == [by : {"save", "reset", "left"}, saved : Pairs]

ServerType ==
    /\ base \in Pairs /\ form \in Forms /\ stores \in Seq(Stores)
    /\ IsSaved(override) /\ \A i \in 1..Len(stores) : IsSaved(stores[i].saved)

LastSaved == IF stores = <<>> THEN override ELSE stores[Len(stores)].saved

ServerInv ==
    /\ ServerType
    /\ boot = "override" => stores = <<>>
    /\ boot # "override" => base = Loaded(LastSaved)

LEMMA EmptyIsAddress == Empty \in Addresses /\ None \in Pairs /\ None.api = Empty /\ None.ws = Empty
BY ServerConstants DEF Empty, None, Addresses, Pairs

\* Normalizing gives an address a scheme, and its twin has one too.
LEMMA NormalizedAddress ==
    ASSUME NEW a \in Addresses
    PROVE  /\ Normalize(a) \in Addresses
           /\ a # Empty => Normalize(a).scheme # "bare"
           /\ a = Empty => Normalize(a) = Empty
           /\ a.scheme # "bare" => Normalize(a) = a
BY ServerConstants DEF Normalize, Addresses, Empty

LEMMA DerivedAddress ==
    ASSUME NEW a \in Addresses
    PROVE  DeriveWs(a) \in Addresses /\ (a.scheme # "bare" => DeriveWs(a).scheme # "bare")
<1>1. CASE a.scheme = "http"
  BY <1>1, ServerConstants DEF DeriveWs, Addresses
<1>2. CASE a.scheme = "https"
  BY <1>2, ServerConstants DEF DeriveWs, Addresses
<1>3. CASE a.scheme # "http" /\ a.scheme # "https"
  BY <1>3 DEF DeriveWs
<1> QED
  BY <1>1, <1>2, <1>3

LEMMA RewrittenAddress == ASSUME NEW a \in Addresses PROVE RewriteLoopback(a) \in Addresses
BY ServerConstants DEF RewriteLoopback, Addresses

LEMMA SchemeIsNotEmpty == ASSUME NEW a, a.scheme # "bare" PROVE a # Empty
BY DEF Empty

LEMMA DefaultTyped == DefaultBase \in Pairs
<1>1. RewriteLoopback(DefaultApi) \in Addresses
  BY ServerConstants, RewrittenAddress
<1>2. RewriteLoopback(DeriveWs(RewriteLoopback(DefaultApi))) \in Addresses
  BY <1>1, DerivedAddress, RewrittenAddress
<1> QED
  BY <1>1, <1>2 DEF DefaultBase, Pairs

LEMMA ScreenTyped == ASSUME NEW b \in Pairs PROVE Screen(b) \in Forms
BY DEF Screen, Forms, Pairs, Probes

LEMMA LoadedTyped == ASSUME NEW s, IsSaved(s) PROVE Loaded(s) \in Pairs /\ s \in Pairs
<1>0. s \in Pairs
  BY EmptyIsAddress DEF IsSaved
<1>1. s.api \in Addresses /\ s.ws \in Addresses
  BY <1>0 DEF Pairs
<1> DEFINE api == RewriteLoopback(Normalize(s.api))
           ws == RewriteLoopback(IF s.ws = Empty THEN DeriveWs(api) ELSE Normalize(s.ws))
<1>2. api \in Addresses
  BY <1>1, NormalizedAddress, RewrittenAddress
<1>3. DeriveWs(api) \in Addresses /\ Normalize(s.ws) \in Addresses
  BY <1>1, <1>2, DerivedAddress, NormalizedAddress
<1>4. ws \in Addresses
  BY <1>3, RewrittenAddress
<1>5. Loaded(s) = IF s.api = Empty THEN DefaultBase ELSE [api |-> api, ws |-> ws]
  BY DEF Loaded
<1> HIDE DEF api, ws
<1> QED
  BY <1>0, <1>2, <1>4, <1>5, DefaultTyped DEF Pairs

\* The heart of it: saving and loading agree on what a typed address means.
LEMMA LoadedIsPointedAt ==
    ASSUME ServerType, NEW by \in {"save", "reset"}, NEW api \in Addresses, NEW ws \in Addresses,
           PointAt(by, api, ws)
    PROVE  \E s : /\ IsSaved(s) /\ base' = Loaded(s)
                  /\ stores' = Append(stores, [by |-> by, saved |-> s])
<1>1. CASE api = Empty
  <2>1. IsSaved(None) /\ Loaded(None) = DefaultBase
    BY EmptyIsAddress DEF IsSaved, Loaded
  <2> QED
    BY <1>1, <2>1 DEF PointAt
<1>2. CASE api # Empty
  <2> DEFINE a == Normalize(api)
             w == IF ws = Empty THEN DeriveWs(a) ELSE Normalize(ws)
             s == [api |-> a, ws |-> w]
  <2>1. a \in Addresses /\ a.scheme # "bare" /\ Normalize(a) = a /\ a # Empty
    BY <1>2, NormalizedAddress, SchemeIsNotEmpty
  <2>2. w \in Addresses /\ w.scheme # "bare"
    <3>1. CASE ws = Empty
      BY <2>1, <3>1, DerivedAddress
    <3>2. CASE ws # Empty
      BY <3>2, NormalizedAddress
    <3> QED
      BY <3>1, <3>2
  <2>3. Normalize(w) = w /\ w # Empty
    BY <2>2, NormalizedAddress, SchemeIsNotEmpty
  <2>4. /\ base' = [api |-> RewriteLoopback(a), ws |-> RewriteLoopback(w)]
        /\ stores' = Append(stores, [by |-> by, saved |-> s])
    BY <1>2 DEF PointAt
  <2> HIDE DEF a, w
  <2>5. s.api = a /\ s.ws = w /\ s \in Pairs
    BY <2>1, <2>2 DEF Pairs
  <2>6. Loaded(s) = [api |-> RewriteLoopback(a), ws |-> RewriteLoopback(w)]
    <3> HIDE DEF s
    <3> QED
      BY <2>1, <2>3, <2>5 DEF Loaded
  <2>7. IsSaved(s)
    <3> HIDE DEF s
    <3> QED
      BY <2>1, <2>2, <2>5 DEF IsSaved
  <2> QED
    BY <2>4, <2>6, <2>7
<1> QED
  BY <1>1, <1>2

LEMMA PointingKeepsServer ==
    ASSUME ServerInv, boot # "override", boot' = boot, form' \in Forms, UNCHANGED override,
           NEW by \in {"save", "reset"}, NEW api \in Addresses, NEW ws \in Addresses,
           PointAt(by, api, ws)
    PROVE  ServerInv'
<1> DEFINE n == Len(stores)
<1>1. PICK s : /\ IsSaved(s) /\ base' = Loaded(s)
               /\ stores' = Append(stores, [by |-> by, saved |-> s])
  BY LoadedIsPointedAt DEF ServerInv
<1> DEFINE op == [by |-> by, saved |-> s]
<1>2. Loaded(s) \in Pairs /\ s \in Pairs
  BY <1>1, LoadedTyped
<1>3. op \in Stores /\ op.saved = s
  BY <1>2 DEF Stores
<1>4. stores \in Seq(Stores) /\ n \in Nat
  BY DEF ServerInv, ServerType
<1>5. stores' = Append(stores, op)
  BY <1>1
<1> HIDE DEF op
<1>6. /\ stores' \in Seq(Stores) /\ stores' # <<>> /\ Len(stores') = n + 1
      /\ \A i \in 1..n : stores'[i] = stores[i]
      /\ stores'[n + 1] = op
  BY <1>3, <1>4, <1>5, AppendProperties
<1>7. LastSaved' = s
  BY <1>3, <1>6 DEF LastSaved
<1>8. \A i \in 1..n + 1 : IsSaved(stores'[i].saved)
  <2> SUFFICES ASSUME NEW i \in 1..n + 1 PROVE IsSaved(stores'[i].saved)
    OBVIOUS
  <2>1. CASE i = n + 1
    BY <1>1, <1>3, <1>6, <2>1
  <2>2. CASE i # n + 1
    BY <1>4, <1>6, <2>2 DEF ServerInv, ServerType
  <2> QED
    BY <2>1, <2>2
<1>9. ServerType'
  <2>1. base' \in Pairs /\ IsSaved(override')
    BY <1>1, <1>2 DEF ServerInv, ServerType
  <2> QED
    BY <1>6, <1>8, <2>1 DEF ServerType
<1> QED
  BY <1>1, <1>7, <1>9 DEF ServerInv

\* The oldest write is done: what is saved last is what it was.
LEMMA StoredKeepsServer ==
    ASSUME ServerInv, boot # "override", boot' = boot, Stored
    PROVE  ServerInv'
<1> DEFINE n == Len(stores)
<1>1. stores \in Seq(Stores) /\ stores # <<>> /\ n \in Nat /\ n >= 1
  BY DEF ServerInv, ServerType, Stored
<1>2. stores' = Tail(stores) /\ override' = stores[1].saved /\ base' = base
  BY <1>1 DEF Stored
<1>3. /\ stores' \in Seq(Stores) /\ Len(stores') = n - 1
      /\ \A i \in 1..n - 1 : stores'[i] = stores[i + 1]
  BY <1>1, <1>2, HeadTailProperties
<1>4. LastSaved' = LastSaved
  <2>1. CASE n = 1
    BY <1>1, <1>2, <1>3, <2>1 DEF LastSaved
  <2>2. CASE n # 1
    <3> HIDE DEF n
    <3>1. n - 1 \in 1..n - 1 /\ (n - 1) + 1 = n
      BY <1>1, <2>2
    <3>2. stores' # <<>> /\ stores'[n - 1] = stores[n]
      BY <1>3, <3>1
    <3> QED
      BY <1>1, <1>3, <3>2 DEF LastSaved, n
  <2> QED
    BY <2>1, <2>2
<1>5. form' \in Forms
  <2>1. form \in Forms /\ base.api \in Addresses /\ base.ws \in Addresses
    BY DEF ServerInv, ServerType, Pairs
  <2>2. Head(stores).by \in {"save", "reset", "left"}
    <3>1. Head(stores) \in Stores
      BY <1>1, HeadTailProperties
    <3> QED
      BY <3>1 DEF Stores
  <2> DEFINE now == [form EXCEPT !.api = base.api, !.ws = base.ws, !.probe = "saved"]
  <2>3. now \in Forms
    BY <2>1 DEF Forms, Probes
  <2>4. [now EXCEPT !.saving = FALSE] \in Forms /\ [now EXCEPT !.touched = FALSE] \in Forms
    BY <2>3 DEF Forms
  <2>5. form' \in {[now EXCEPT !.saving = FALSE], [now EXCEPT !.touched = FALSE], form}
    BY <2>2 DEF Stored
  <2> QED
    BY <2>1, <2>4, <2>5
<1>6. IsSaved(override') /\ \A i \in 1..n - 1 : IsSaved(stores'[i].saved)
  BY <1>1, <1>2, <1>3 DEF ServerInv, ServerType
<1>7. ServerType'
  BY <1>2, <1>3, <1>5, <1>6 DEF ServerInv, ServerType
<1> QED
  BY <1>2, <1>4, <1>7 DEF ServerInv

LEMMA ServerStep ==
    ASSUME ServerInv, boot # "override", boot' = boot, ServerNext
    PROVE  ServerInv'
<1>0. form \in Forms /\ base \in Pairs
  BY DEF ServerInv, ServerType
<1>1. ASSUME form' \in Forms, UNCHANGED <<base, override, stores>> PROVE ServerInv'
  BY <1>1 DEF ServerInv, ServerType, LastSaved
<1>2. CASE OpenSettings
  <2> DEFINE n == Len(stores)
  <2>1. stores \in Seq(Stores) /\ n \in Nat
    BY DEF ServerInv, ServerType
  <2>2. /\ stores' = [i \in 1..n |-> [stores[i] EXCEPT !.by = "left"]]
        /\ form' = Screen(base) /\ UNCHANGED <<base, override>>
    BY <1>2 DEF OpenSettings
  <2>3. \A i \in 1..n : stores[i] \in Stores
    BY <2>1
  <2>4. \A i \in 1..n : /\ [stores[i] EXCEPT !.by = "left"] \in Stores
                        /\ [stores[i] EXCEPT !.by = "left"].saved = stores[i].saved
    BY <2>3 DEF Stores
  <2>5. \A i \in 1..n : stores'[i] \in Stores /\ stores'[i].saved = stores[i].saved
    BY <2>2, <2>4
  <2>6. stores' \in Seq(Stores) /\ Len(stores') = n
    BY <2>1, <2>2, <2>4
  <2>7. (stores' = <<>>) = (stores = <<>>)
    BY <2>1, <2>6
  <2>8. form' \in Forms
    BY <1>0, <2>2, ScreenTyped
  <2>9. LastSaved' = LastSaved
    <3>1. stores # <<>> => n \in 1..n
      BY <2>1
    <3> QED
      BY <2>2, <2>5, <2>6, <2>7, <3>1 DEF LastSaved
  <2>10. ServerType'
    BY <2>2, <2>5, <2>6, <2>8 DEF ServerInv, ServerType
  <2> QED
    BY <2>2, <2>7, <2>9, <2>10 DEF ServerInv
<1>3. ASSUME NEW a \in Typed, ApiChange(a) \/ WsChange(a) \/ ApplyPreset(a) PROVE ServerInv'
  <2>1. a \in Addresses /\ DeriveWs(a) \in Addresses /\ DeriveWs(Normalize(a)) \in Addresses
    BY ServerConstants, NormalizedAddress, DerivedAddress
  <2>2. form' \in Forms
    BY <1>0, <1>3, <2>1 DEF ApiChange, WsChange, ApplyPreset, Forms, Probes
  <2> QED
    BY <1>1, <1>3, <2>2 DEF ApiChange, WsChange, ApplyPreset
<1>4. CASE Probe
  <2>1. form.asked \in Nat
    BY <1>0 DEF Forms
  <2>2. [form EXCEPT !.probe = "fail"] \in Forms
    BY <1>0 DEF Forms, Probes
  <2>3. [form EXCEPT !.probe = "testing", !.asked = @ + 1] \in Forms
    <3>1. form.asked + 1 \in Nat /\ "testing" \in Probes
      BY <2>1 DEF Probes
    <3> QED
      BY <1>0, <3>1 DEF Forms
  <2>4. form' \in Forms
    BY <1>4, <2>2, <2>3 DEF Probe
  <2> QED
    BY <1>1, <1>4, <2>4 DEF Probe
<1>5. CASE ProbeAnswered
  <2>1. form.asked \in Nat /\ form.asked > 0
    BY <1>0, <1>5 DEF Forms, ProbeAnswered
  <2>2. PICK p \in {"ok", "fail"} : form' = [form EXCEPT !.probe = p, !.asked = @ - 1]
    BY <1>5 DEF ProbeAnswered
  <2>3. form.asked - 1 \in Nat
    BY <2>1
  <2>4. form' \in Forms
    BY <1>0, <2>2, <2>3 DEF Forms, Probes
  <2> QED
    BY <1>1, <1>5, <2>4 DEF ProbeAnswered
<1>6. CASE Save
  <2>1. form.api \in Addresses /\ form.ws \in Addresses /\ form' \in Forms
    BY <1>0, <1>6 DEF Save, Forms
  <2>2. Normalize(form.api) \in Addresses /\ (IF form.touched THEN form.ws ELSE Empty) \in Addresses
    BY <2>1, NormalizedAddress, EmptyIsAddress
  <2> QED
    BY <1>6, <2>1, <2>2, PointingKeepsServer DEF Save
<1>7. CASE Reset
  BY <1>0, <1>7, EmptyIsAddress, PointingKeepsServer DEF Reset
<1>8. CASE Stored
  BY <1>8, StoredKeepsServer
<1> QED
  BY <1>2, <1>3, <1>4, <1>5, <1>6, <1>7, <1>8 DEF ServerNext

\* Only the first read of a boot leaves "override", and only a kill comes back to it.
LEMMA SessionKeepsBoot ==
    ASSUME SessionNext
    PROVE  boot' = boot \/ (boot # "override" /\ boot' # "override")
<1>1. CASE DiskWrite
  BY <1>1 DEF DiskWrite, WriteTokenKey, WriteUserKey
<1>2. CASE Booting
  BY <1>2 DEF Booting, BootRead, BootMeAnswered, BootMeRefused, BootMeFails, BootDropped
<1>3. CASE SaveProfile \/ SignOut
  BY <1>3 DEF SaveProfile, Call, SignOut
<1>4. ASSUME NEW a \in Accounts, SubmitSignIn(a) PROVE boot' = boot
  BY <1>4 DEF SubmitSignIn, Call
<1>5. ASSUME NEW c \in calls, CallAnswered(c) \/ CallFails(c) PROVE boot' = boot
  BY <1>5 DEF CallAnswered, CallFails
<1> QED
  BY <1>1, <1>2, <1>3, <1>4, <1>5 DEF SessionNext

LEMMA ClientKeepsServer == ServerInv /\ [Next]_all => ServerInv'
<1> SUFFICES ASSUME ServerInv, [Next]_all PROVE ServerInv'
  OBVIOUS
<1>1. ASSUME UNCHANGED server, boot' = boot \/ (boot # "override" /\ boot' # "override")
      PROVE  ServerInv'
  BY <1>1 DEF server, ServerInv, ServerType, LastSaved
<1>2. CASE SessionNext /\ UNCHANGED <<server, parts>>
  BY <1>1, <1>2, SessionKeepsBoot
<1>3. CASE BootTogether
  <2>1. /\ boot = "override" /\ boot' = "read"
        /\ base' = Loaded(override) /\ UNCHANGED <<override, stores, form>>
    BY <1>3 DEF BootTogether, BootOverride, LoadOverride
  <2>2. stores = <<>> /\ Loaded(override) \in Pairs
    BY <2>1, LoadedTyped DEF ServerInv, ServerType
  <2> QED
    BY <2>1, <2>2 DEF ServerInv, ServerType, LastSaved
<1>4. CASE KilledTogether
  <2>1. /\ boot' = "override" /\ stores' = <<>> /\ base' = DefaultBase
        /\ form' = Screen(DefaultBase) /\ override' = override
    BY <1>4 DEF KilledTogether, Crash, ServerCrash
  <2>2. base' \in Pairs /\ form' \in Forms
    BY <2>1, DefaultTyped, ScreenTyped
  <2>3. stores' \in Seq(Stores) /\ 1..Len(stores') = {}
    BY <2>1
  <2> QED
    BY <2>1, <2>2, <2>3 DEF ServerInv, ServerType
<1>5. CASE boot # "override" /\ ServerNext /\ UNCHANGED session
  BY <1>5, ServerStep DEF session
<1>6. CASE Booting /\ UNCHANGED server
  <2>1. boot' = boot \/ (boot # "override" /\ boot' # "override")
    BY <1>6 DEF Booting, BootRead, BootMeAnswered, BootMeRefused, BootMeFails, BootDropped
  <2> QED
    BY <1>1, <1>6, <2>1
<1>7. CASE UNCHANGED <<session, server>>
  BY <1>1, <1>7 DEF session
<1> QED
  BY <1>2, <1>3, <1>4, <1>5, <1>6, <1>7 DEF Next, all

\* client.ts and settings.tsx, for any addresses typed, saved and reset, and any kill
\* between: with no write on its way, a restart loads the address the app talks to.
THEOREM RestartKeepsAddress == Spec => []RestartKeepsServer
<1>1. Init => ServerInv
  <2> SUFFICES ASSUME Init PROVE ServerInv
    OBVIOUS
  <2>1. /\ base = DefaultBase /\ stores = <<>> /\ form = Screen(base) /\ boot = "override"
        /\ override = None \/ \E a \in Typed : override = [api |-> Normalize(a), ws |-> DeriveWs(Normalize(a))]
    BY DEF Init, ServerInit, SessionInit
  <2>2. base \in Pairs /\ form \in Forms
    BY <2>1, DefaultTyped, ScreenTyped
  <2>3. stores \in Seq(Stores) /\ 1..Len(stores) = {}
    BY <2>1
  <2>4. ASSUME NEW a \in Typed, override = [api |-> Normalize(a), ws |-> DeriveWs(Normalize(a))]
        PROVE  IsSaved(override)
    <3>1. a \in Addresses /\ Normalize(a) \in Addresses /\ DeriveWs(Normalize(a)) \in Addresses
      BY ServerConstants, NormalizedAddress, DerivedAddress
    <3>2. override \in Pairs /\ override.api = Normalize(a) /\ override.ws = DeriveWs(Normalize(a))
      BY <2>4, <3>1 DEF Pairs
    <3>3. CASE a = Empty
      BY <2>4, <3>3, NormalizedAddress, <3>1 DEF IsSaved, None, DeriveWs, Empty
    <3>4. CASE a # Empty
      BY <3>1, <3>2, <3>4, NormalizedAddress, DerivedAddress DEF IsSaved
    <3> QED
      BY <3>3, <3>4
  <2>5. IsSaved(override)
    BY <2>1, <2>4 DEF IsSaved
  <2> QED
    BY <2>1, <2>2, <2>3, <2>5 DEF ServerInv, ServerType
<1>2. ServerInv => RestartKeepsServer
  BY DEF ServerInv, LastSaved, RestartKeepsServer, KeepsServer
<1> QED
  BY <1>1, <1>2, ClientKeepsServer, PTL DEF Spec

-----------------------------------------------------------------------------
(* The home screen.  A request ends once, and what it uncovers is told by its kind *)
(* and by the pull it belongs to; only a list goes on to the boards of its pull.    *)

WellAsked(x) ==
    /\ x = [n |-> x.n, kind |-> x.kind, ws |-> x.ws, pull |-> x.pull,
            served |-> x.served, got |-> x.got]
    /\ x.pull \in BOOLEAN /\ (x.pull => x.kind \in {"list", "boards"})

AsksTyped == \A x \in asked : WellAsked(x)

HomeInv == AsksTyped /\ SpinnersHaveCause

LEMMA AskFields ==
    ASSUME NEW n, NEW kind, NEW ws, NEW pull \in BOOLEAN, pull => kind \in {"list", "boards"}
    PROVE  /\ WellAsked(Asked(n, kind, ws, pull))
           /\ Asked(n, kind, ws, pull).kind = kind /\ Asked(n, kind, ws, pull).pull = pull
BY DEF Asked, WellAsked

\* A request that is over is missed by no spinner but those its end uncovers, and what
\* follows from it is asked for by the same step.
LEMMA EndKeepsSpinners ==
    ASSUME HomeInv, NEW over \in SUBSET asked, asked \ over \subseteq asked',
           \A x \in asked' \ asked : WellAsked(x),
           listing' => (listing /\ \A o \in over : o.kind # "list") \/ \E x \in asked' : x.kind = "list",
           waiting' => (waiting /\ \A o \in over : o.kind # "boards") \/ \E x \in asked' : x.kind = "boards",
           refreshing' => (refreshing /\ \A o \in over : ~o.pull) \/ \E x \in asked' : x.pull
    PROVE  HomeInv'
<1>1. AsksTyped'
  BY DEF HomeInv, AsksTyped
<1>2. listing' => \E x \in asked' : x.kind = "list"
  BY DEF HomeInv, SpinnersHaveCause
<1>3. waiting' => \E x \in asked' : x.kind = "boards"
  BY DEF HomeInv, SpinnersHaveCause
<1>4. refreshing' => \E x \in asked' : x.pull
  BY DEF HomeInv, SpinnersHaveCause
<1> QED
  BY <1>1, <1>2, <1>3, <1>4 DEF HomeInv, SpinnersHaveCause

\* The same of one request, and of none.
LEMMA OneEndKeepsSpinners ==
    ASSUME HomeInv, NEW r \in asked, asked \ {r} \subseteq asked',
           \A x \in asked' \ asked : WellAsked(x),
           listing' => (listing /\ r.kind # "list") \/ \E x \in asked' : x.kind = "list",
           waiting' => (waiting /\ r.kind # "boards") \/ \E x \in asked' : x.kind = "boards",
           refreshing' => (refreshing /\ ~r.pull) \/ \E x \in asked' : x.pull
    PROVE  HomeInv'
<1> DEFINE over == {r}
<1>1. over \in SUBSET asked /\ asked \ over \subseteq asked' /\ \A o \in over : o = r
  OBVIOUS
<1> HIDE DEF over
<1> QED
  BY <1>1, EndKeepsSpinners

LEMMA MoreKeepsSpinners ==
    ASSUME HomeInv, asked \subseteq asked',
           \A x \in asked' \ asked : WellAsked(x),
           listing' => listing,
           waiting' => waiting \/ \E x \in asked' : x.kind = "boards",
           refreshing' => refreshing \/ \E x \in asked' : x.pull
    PROVE  HomeInv'
<1> DEFINE over == {}
<1>1. over \in SUBSET asked /\ asked \ over \subseteq asked' /\ \A o \in over : FALSE
  OBVIOUS
<1> HIDE DEF over
<1> QED
  BY <1>1, EndKeepsSpinners

\* An answer changes neither what a request is nor what it belongs to.
LEMMA AnswerKeepsSpinners ==
    ASSUME HomeInv, NEW r, NEW got, Answer(r, got)
    PROVE  HomeInv'
<1> DEFINE q == [r EXCEPT !.served = TRUE, !.got = got]
<1>1. r \in asked /\ asked' = (asked \ {r}) \cup {q} /\ UNCHANGED homeScreen
  BY DEF Answer
<1>2. WellAsked(r)
  BY <1>1 DEF HomeInv, AsksTyped
<1>3. q = [n |-> r.n, kind |-> r.kind, ws |-> r.ws, pull |-> r.pull, served |-> TRUE, got |-> got]
  <2>1. r = [n |-> r.n, kind |-> r.kind, ws |-> r.ws, pull |-> r.pull, served |-> r.served, got |-> r.got]
    BY <1>2 DEF WellAsked
  <2>2. DOMAIN r = {"n", "kind", "ws", "pull", "served", "got"}
    BY <2>1
  <2>3. q = [i \in {"n", "kind", "ws", "pull", "served", "got"} |->
                IF i = "got" THEN got ELSE IF i = "served" THEN TRUE ELSE r[i]]
    BY <2>2
  <2> HIDE DEF q
  <2> QED
    BY <2>3
<1> HIDE DEF q
<1>4. q.kind = r.kind /\ q.pull = r.pull /\ WellAsked(q)
  BY <1>2, <1>3 DEF WellAsked
<1>5. q \in asked' /\ \A x \in asked' \ asked : x = q
  BY <1>1
<1>6. UNCHANGED <<listing, waiting, refreshing>>
  BY <1>1 DEF homeScreen
<1>7. /\ listing' => (listing /\ r.kind # "list") \/ q.kind = "list"
      /\ waiting' => (waiting /\ r.kind # "boards") \/ q.kind = "boards"
      /\ refreshing' => (refreshing /\ ~r.pull) \/ q.pull
  BY <1>2, <1>4, <1>6 DEF WellAsked
<1> QED
  BY <1>1, <1>4, <1>5, <1>7, OneEndKeepsSpinners

\* A list that is in, or could not be had, goes on to the boards of its pull.
LEMMA ListGoesOn ==
    ASSUME HomeInv, NEW r \in asked, r.kind = "list", Then(r) \subseteq asked',
           \A x \in asked' : x \in Then(r) \/ WellAsked(x),
           ~listing',
           waiting' => waiting \/ GoesOn(r) \/ \E x \in asked' : x.kind = "boards",
           refreshing' => refreshing /\ (r.pull => GoesOn(r))
    PROVE  HomeInv'
<1> DEFINE q == Asked(r.n, "boards", r.ws, TRUE)
<1>1. WellAsked(q) /\ q.kind = "boards" /\ q.pull = TRUE
  BY DEF Asked, WellAsked
<1>2. Then(r) = (asked \ {r}) \cup (IF GoesOn(r) THEN {q} ELSE {})
  BY DEF Then
<1> HIDE DEF q
<1>3. asked \ {r} \subseteq asked' /\ (GoesOn(r) => q \in asked')
  BY <1>2
<1>4. \A x \in asked' \ asked : WellAsked(x)
  BY <1>1, <1>2
<1>5. waiting' => waiting \/ \E x \in asked' : x.kind = "boards"
  BY <1>1, <1>3
<1>6. refreshing' => (refreshing /\ ~r.pull) \/ \E x \in asked' : x.pull
  BY <1>1, <1>3
<1> QED
  BY <1>3, <1>4, <1>5, <1>6, OneEndKeepsSpinners

\* What Select asks for, and what it leaves.
LEMMA SelectAsks ==
    ASSUME NEW n, NEW ws, NEW others, Select(n, ws, others)
    PROVE  /\ others \subseteq asked'
           /\ \A x \in asked' : x \in others \/ WellAsked(x)
           /\ waiting' => waiting \/ \E x \in asked' : x.kind = "boards"
<1> DEFINE q == Ask(n, "boards", ws)
<1>1. WellAsked(q) /\ q.kind = "boards"
  <2>1. WellAsked(q)
    BY AskFields DEF Ask
  <2>2. q.kind = "boards"
    BY DEF Ask, Asked
  <2> QED
    BY <2>1, <2>2
<1>2. asked' = others \cup {q} \/ (asked' = others /\ waiting' = waiting)
  BY DEF Select
<1> HIDE DEF q
<1> QED
  BY <1>1, <1>2

LEMMA HomeStep == HomeInv /\ [HomeNext]_home => HomeInv'
<1> SUFFICES ASSUME HomeInv, [HomeNext]_home PROVE HomeInv'
  OBVIOUS
\* The user asks for something more.
<1>1. ASSUME NEW x, asked' = asked \cup {x}, WellAsked(x), UNCHANGED <<listing, waiting>>,
             refreshing' => refreshing \/ x.pull
      PROVE  HomeInv'
  BY <1>1, MoreKeepsSpinners
<1>2. ASSUME NEW ws \in rows, PickWorkspace(ws) PROVE HomeInv'
  <2>1. Select(homeActs + 1, ws, asked) /\ UNCHANGED <<listing, refreshing>>
    BY <1>2 DEF PickWorkspace
  <2> QED
    BY <2>1, SelectAsks, MoreKeepsSpinners
<1>3. CASE PullToRefresh
  <2> DEFINE q == Asked(homeActs + 1, "list", active, TRUE)
  <2>1. WellAsked(q) /\ q.pull
    BY DEF Asked, WellAsked
  <2>2. asked' = asked \cup {q} /\ UNCHANGED <<listing, waiting>>
    BY <1>3 DEF PullToRefresh
  <2> HIDE DEF q
  <2> QED
    BY <1>1, <2>1, <2>2
<1>4. ASSUME NEW kind, NEW ws, asked' = asked \cup {Ask(homeActs + 1, kind, ws)},
             UNCHANGED <<listing, waiting, refreshing>>
      PROVE  HomeInv'
  <2> DEFINE q == Ask(homeActs + 1, kind, ws)
  <2>1. WellAsked(q)
    BY AskFields DEF Ask
  <2>2. asked' = asked \cup {q}
    BY <1>4
  <2> HIDE DEF q
  <2> QED
    BY <1>1, <1>4, <2>1, <2>2
<1>5. CASE Retry
  BY <1>4, <1>5 DEF Retry
<1>6. CASE SubmitWorkspace \/ SubmitBoard \/ SubmitInvite
  BY <1>4, <1>6 DEF SubmitWorkspace, SubmitBoard, SubmitInvite, Submit, homeScreen
<1>7. ASSUME NEW r \in asked,
             ServeList(r) \/ ServeBoards(r) \/ MakeWorkspace(r) \/ MakeBoard(r) \/ MakeMember(r)
      PROVE  HomeInv'
  <2>1. \E got : Answer(r, got)
    BY <1>7 DEF ServeList, ServeBoards, MakeWorkspace, MakeBoard, MakeMember
  <2> QED
    BY <2>1, AnswerKeepsSpinners
<1>8. ASSUME NEW r \in asked, Listed(r) PROVE HomeInv'
  <2>1. r.kind = "list" /\ ~listing' /\ (refreshing' => refreshing /\ (r.pull => GoesOn(r)))
    BY <1>8 DEF Listed
  <2>2. CASE active = NoWorkspace
    <3>1. PICK first \in r.got : Select(r.n, first, Then(r))
      BY <1>8, <2>2 DEF Listed
    <3> QED
      BY <2>1, <3>1, SelectAsks, ListGoesOn
  <2>3. CASE active # NoWorkspace
    <3>1. asked' = Then(r) /\ waiting' = (waiting \/ GoesOn(r))
      BY <1>8, <2>3 DEF Listed
    <3> QED
      BY <2>1, <3>1, ListGoesOn
  <2> QED
    BY <2>2, <2>3
<1>9. ASSUME NEW r \in asked, NotListed(r) PROVE HomeInv'
  <2>1. /\ r.kind = "list" /\ ~listing' /\ asked' = Then(r) /\ waiting' = (waiting \/ GoesOn(r))
        /\ (refreshing' => refreshing /\ (r.pull => GoesOn(r)))
    BY <1>9 DEF NotListed
  <2> QED
    BY <2>1, ListGoesOn
\* The boards of a pull end it; the skeleton is gone with any of them.
<1>10. ASSUME NEW r \in asked, BoardsIn(r) PROVE HomeInv'
  <2>1. /\ r.kind = "boards" /\ ~waiting' /\ asked' = asked \ {r} /\ listing' = listing
        /\ (refreshing' => refreshing /\ ~r.pull)
    BY <1>10 DEF BoardsIn
  <2> QED
    BY <2>1, OneEndKeepsSpinners
\* A request of a sheet uncovers nothing.
<1>11. ASSUME NEW r \in asked, r.kind \notin {"boards", "list"}, asked \ {r} \subseteq asked',
              \A x \in asked' \ asked : WellAsked(x),
              waiting' => waiting \/ \E x \in asked' : x.kind = "boards",
              UNCHANGED <<listing, refreshing>>
       PROVE  HomeInv'
  <2>1. ~r.pull
    BY <1>11 DEF HomeInv, AsksTyped, WellAsked
  <2> QED
    BY <1>11, <2>1, OneEndKeepsSpinners
<1>12. ASSUME NEW r \in asked, WorkspaceCreated(r) PROVE HomeInv'
  <2>1. PICK ws \in r.got : Select(r.n, ws, asked \ {r})
    BY <1>12 DEF WorkspaceCreated
  <2>2. /\ asked \ {r} \subseteq asked' /\ \A x \in asked' \ asked : WellAsked(x)
        /\ waiting' => waiting \/ \E x \in asked' : x.kind = "boards"
    BY <2>1, SelectAsks
  <2>3. r.kind = "newWorkspace" /\ UNCHANGED <<listing, refreshing>>
    BY <1>12 DEF WorkspaceCreated
  <2> QED
    BY <1>11, <2>2, <2>3
<1>13. ASSUME NEW r \in asked, PersonFound(r) PROVE HomeInv'
  <2> DEFINE q == Ask(r.n, "addMember", r.ws)
  <2>1. WellAsked(q)
    BY AskFields DEF Ask
  <2>2. asked' = (asked \ {r}) \cup {q} /\ UNCHANGED <<listing, waiting, refreshing>> /\ r.kind = "invite"
    BY <1>13 DEF PersonFound, homeScreen
  <2> HIDE DEF q
  <2> QED
    BY <1>11, <2>1, <2>2
<1>14. ASSUME NEW r \in asked, BoardCreated(r) \/ SheetOver(r) PROVE HomeInv'
  <2>1. asked' = asked \ {r} /\ UNCHANGED <<listing, waiting, refreshing>>
    BY <1>14 DEF BoardCreated, SheetOver, homeScreen
  <2>2. r.kind \in {"newWorkspace", "newBoard", "invite", "addMember"}
    BY <1>14 DEF BoardCreated, SheetOver
  <2>3. r.kind \notin {"boards", "list"}
    BY <2>2
  <2> QED
    BY <1>11, <2>1, <2>3
<1>15. CASE UNCHANGED home \/ \E r \in asked : FindNone(r)
  BY <1>15 DEF home, homeScreen, FindNone, HomeInv, AsksTyped, SpinnersHaveCause
<1> QED
  BY <1>2, <1>3, <1>5, <1>6, <1>7, <1>8, <1>9, <1>10, <1>12, <1>13, <1>14, <1>15 DEF HomeNext

\* index.tsx: whatever is picked, pulled, created and refused, and in whatever order
\* the server reads and the answers land or fail, no skeleton and no pull is left
\* without a request whose end uncovers it.
THEOREM NothingSpinsForever == HomeSpec => []SpinnersHaveCause
<1>1. HomeInit => HomeInv
  <2> SUFFICES ASSUME HomeInit PROVE HomeInv
    OBVIOUS
  <2> DEFINE q == Ask(0, "list", NoWorkspace)
  <2>1. WellAsked(q)
    BY DEF Ask, Asked, WellAsked
  <2>3. q.kind = "list"
    BY DEF Ask, Asked
  <2>2. asked = {q} /\ ~waiting /\ ~refreshing
    BY DEF HomeInit
  <2> HIDE DEF q
  <2> QED
    BY <2>1, <2>2, <2>3 DEF HomeInv, AsksTyped, SpinnersHaveCause
<1>2. HomeInv => SpinnersHaveCause
  BY DEF HomeInv
<1> QED
  BY <1>1, <1>2, HomeStep, PTL DEF HomeSpec

-----------------------------------------------------------------------------
(* A floating panel.  The offset is kept within the bounds of the window that is shown *)
(* now, and an offset within them leaves 80 pixels of either side in the window.       *)

PanelOffsets == [x : Int, y : Int]

PanelsType ==
    /\ window \in Windows
    /\ offset \in PanelOffsets /\ start \in PanelOffsets

WithinBounds(win, p) ==
    /\ -BoundX(win) <= p.x /\ p.x <= BoundX(win)
    /\ -BoundY(win) <= p.y /\ p.y <= BoundY(win)

PanelsInv == PanelsType /\ WithinBounds(window, offset)

\* A panel as high as it may be is at least as high as the part that stays visible.
LEMMA PanelHeight ==
    ASSUME NEW win \in Windows
    PROVE  /\ win.h \in Nat /\ PanelH(win) \in Int
           /\ MIN_VISIBLE <= PanelH(win) /\ PanelH(win) <= win.h - 48
<1> DEFINE q == (win.h * 82) \div 100
<1>1. win.h \in Nat /\ win.h >= 208
  BY PanelConstants DEF MIN_VISIBLE
<1>2. q \in Int /\ 80 <= q
  BY <1>1
<1> HIDE DEF q
<1>3. PanelH(win) = Smaller(q, win.h - 48)
  BY DEF PanelH, q
<1> QED
  BY <1>1, <1>2, <1>3 DEF Smaller, MIN_VISIBLE

\* The bounds are what the window and the panel leave, and are never negative.
LEMMA PanelFits ==
    ASSUME NEW win \in Windows
    PROVE  /\ win.w \in Nat /\ PanelW(win) \in Int
           /\ MIN_VISIBLE <= PanelW(win) /\ PanelW(win) <= win.w - 32
           /\ BoundX(win) = win.w + PanelW(win) - 2 * MIN_VISIBLE
           /\ BoundY(win) = win.h + PanelH(win) - 2 * MIN_VISIBLE
           /\ BoundX(win) \in Nat /\ BoundY(win) \in Nat
<1>1. win.w \in Nat /\ win.w >= 2 * MIN_VISIBLE + 32 /\ MaxWidth \in Nat /\ MaxWidth >= MIN_VISIBLE
  BY PanelConstants
<1>2. /\ PanelW(win) \in Int /\ MIN_VISIBLE <= PanelW(win) /\ PanelW(win) <= win.w - 32
  BY <1>1 DEF PanelW, Smaller, MIN_VISIBLE
<1>3. BoundX(win) = win.w + PanelW(win) - 2 * MIN_VISIBLE /\ BoundX(win) \in Nat
  BY <1>1, <1>2 DEF BoundX, Larger, MIN_VISIBLE
<1>4. BoundY(win) = win.h + PanelH(win) - 2 * MIN_VISIBLE /\ BoundY(win) \in Nat
  BY PanelHeight DEF BoundY, Larger, MIN_VISIBLE
<1> QED
  BY <1>1, <1>2, <1>3, <1>4

\* What the drag and the resize store is within the bounds they clamp it to.
LEMMA ClampBounds ==
    ASSUME NEW win \in Windows, NEW p, p.x \in Int, p.y \in Int
    PROVE  /\ Clamped(win, p) \in PanelOffsets
           /\ WithinBounds(win, Clamped(win, p))
<1>1. BoundX(win) \in Nat /\ BoundY(win) \in Nat
  BY PanelFits
<1>2. ASSUME NEW v \in Int, NEW limit \in Nat
      PROVE  /\ Clamp(v, limit) \in Int
             /\ -limit <= Clamp(v, limit) /\ Clamp(v, limit) <= limit
  BY <1>2 DEF Clamp, Smaller, Larger
<1>3. /\ Clamped(win, p).x = Clamp(p.x, BoundX(win))
      /\ Clamped(win, p).y = Clamp(p.y, BoundY(win))
  BY DEF Clamped
<1>4. /\ Clamp(p.x, BoundX(win)) \in Int /\ Clamp(p.y, BoundY(win)) \in Int
      /\ WithinBounds(win, Clamped(win, p))
  BY <1>1, <1>2, <1>3 DEF WithinBounds
<1> QED
  BY <1>4 DEF Clamped, PanelOffsets

LEMMA PanelsInvHolds == PanelSpec => []PanelsInv
<1>1. PanelInit => PanelsInv
  <2> SUFFICES ASSUME PanelInit PROVE PanelsInv
    OBVIOUS
  <2>1. PanelsType
    BY DEF PanelInit, PanelsType, Centered, PanelOffsets
  <2>2. BoundX(window) \in Nat /\ BoundY(window) \in Nat
    BY PanelFits DEF PanelInit
  <2>3. WithinBounds(window, offset)
    BY <2>2 DEF PanelInit, WithinBounds, Centered
  <2> QED
    BY <2>1, <2>3 DEF PanelsInv
<1>2. PanelsInv /\ [PanelNext]_panelVars => PanelsInv'
  <2> SUFFICES ASSUME PanelsInv, [PanelNext]_panelVars PROVE PanelsInv'
    OBVIOUS
  <2> USE DEF PanelsInv, PanelsType
  <2>0. BoundX(window) \in Nat /\ BoundY(window) \in Nat
    BY PanelFits
  <2>1. CASE OpenDialog
    <3>1. WithinBounds(window, Centered)
      BY <2>0 DEF Centered, WithinBounds
    <3> QED
      BY <2>1, <3>1 DEF OpenDialog, Centered, PanelOffsets, WithinBounds
  <2>2. CASE CloseDialog
    BY <2>2 DEF CloseDialog, WithinBounds
  <2>3. CASE DragStart
    BY <2>3 DEF DragStart, WithinBounds
  <2>4. CASE DragEnd
    BY <2>4 DEF DragEnd, WithinBounds
  <2>5. ASSUME NEW x \in Moves, NEW y \in Moves, DragTo(x, y) PROVE PanelsInv'
    <3> DEFINE p == [x |-> start.x + 2 * x, y |-> start.y + 2 * y]
    <3>1. x \in Int /\ y \in Int /\ start.x \in Int /\ start.y \in Int
      BY PanelConstants DEF PanelOffsets
    <3>2. p.x \in Int /\ p.y \in Int
      BY <3>1
    <3>3. offset' = Clamped(window, p) /\ UNCHANGED <<window, start>>
      BY <2>5 DEF DragTo
    <3> HIDE DEF p
    <3>4. Clamped(window, p) \in PanelOffsets /\ WithinBounds(window, Clamped(window, p))
      BY <3>2, ClampBounds
    <3> QED
      BY <3>3, <3>4 DEF WithinBounds
  <2>6. ASSUME NEW win \in Windows, Resize(win) PROVE PanelsInv'
    <3>1. offset.x \in Int /\ offset.y \in Int
      BY DEF PanelOffsets
    <3>2. Clamped(win, offset) \in PanelOffsets /\ WithinBounds(win, Clamped(win, offset))
      BY <3>1, ClampBounds
    <3> QED
      BY <2>6, <3>2 DEF Resize, WithinBounds
  <2>7. CASE UNCHANGED panelVars
    BY <2>7 DEF panelVars, WithinBounds
  <2> QED
    BY <2>1, <2>2, <2>3, <2>4, <2>5, <2>6, <2>7 DEF PanelNext
<1> QED
  BY <1>1, <1>2, PTL DEF PanelSpec

\* DraggableDialog.tsx keeps 80 pixels of a panel's width in the window, and of its
\* height when the panel is as high as it may be, for every width, window and drag.
\* It promises nothing of a shorter panel's height, nor that the part that stays is
\* the title bar the panel is dragged by.
THEOREM PanelStaysInView == PanelSpec => []PanelInView
<1>1. ASSUME NEW size \in Nat, NEW side \in Int, NEW moved \in Int,
             80 <= side, side <= size,
             -(size + side - 160) <= moved, moved <= size + side - 160
      PROVE  Within(size, side, moved) >= 160
  BY <1>1 DEF Within, Smaller, Larger
<1>2. PanelsInv => PanelInView
  <2> SUFFICES ASSUME PanelsInv PROVE PanelInView
    OBVIOUS
  <2>1. /\ window.w \in Nat /\ PanelW(window) \in Int /\ 80 <= PanelW(window)
        /\ PanelW(window) <= window.w /\ BoundX(window) = window.w + PanelW(window) - 160
    BY PanelFits DEF PanelsInv, PanelsType, MIN_VISIBLE
  <2>2. /\ window.h \in Nat /\ PanelH(window) \in Int /\ 80 <= PanelH(window)
        /\ PanelH(window) <= window.h /\ BoundY(window) = window.h + PanelH(window) - 160
    BY PanelFits, PanelHeight DEF PanelsInv, PanelsType, MIN_VISIBLE
  <2>3. /\ offset.x \in Int /\ -BoundX(window) <= offset.x /\ offset.x <= BoundX(window)
        /\ offset.y \in Int /\ -BoundY(window) <= offset.y /\ offset.y <= BoundY(window)
    BY DEF PanelsInv, PanelsType, WithinBounds, PanelOffsets
  <2>4. Within(window.w, PanelW(window), offset.x) >= 160
    BY <1>1, <2>1, <2>3
  <2>5. Within(window.h, PanelH(window), offset.y) >= 160
    BY <1>1, <2>2, <2>3
  <2> QED
    BY <2>4, <2>5 DEF PanelInView, MIN_VISIBLE
<1> QED
  BY <1>2, PanelsInvHolds, PTL

-----------------------------------------------------------------------------
(* The shell.  A screen below the top stays what it is, and the board that published *)
(* the search is on the stack until it leaves, which withdraws the search.           *)

ScreenStates == [kind : {"home", "board", "item", "settings"}, bar : BOOLEAN, query : BOOLEAN]

ShellInv ==
    /\ stack \in Seq(ScreenStates) /\ stack # <<>>
    /\ search \in Nat
    /\ NoDeadSearch

LEMMA StackFacts ==
    ASSUME ShellInv
    PROVE  /\ Len(stack) \in Nat \ {0} /\ DOMAIN stack = 1..Len(stack)
           /\ Top = stack[Len(stack)]
           /\ \A i \in 1..Len(stack) : stack[i] \in ScreenStates /\ (stack[i].query => stack[i].bar)
           /\ search = 0 \/ (search \in 1..Len(stack) /\ stack[search].kind = "board")
<1>1. stack \in Seq(ScreenStates) /\ stack # <<>>
  BY DEF ShellInv
<1>2. Len(stack) \in Nat \ {0} /\ DOMAIN stack = 1..Len(stack)
  BY <1>1
<1>3. \A i \in 1..Len(stack) : stack[i] \in ScreenStates
  BY <1>1
<1> QED
  BY <1>2, <1>3 DEF ShellInv, NoDeadSearch, Top, Last

\* Bars open and close and queries are typed, each on a screen that stays.
LEMMA ScreensStay ==
    ASSUME ShellInv, stack' \in Seq(ScreenStates), Len(stack') = Len(stack), search' = search,
           \A i \in 1..Len(stack) : /\ stack'[i].kind = stack[i].kind
                                    /\ stack'[i].query => stack'[i].bar
    PROVE  ShellInv'
<1>1. stack' # <<>> /\ DOMAIN stack' = 1..Len(stack)
  BY StackFacts
<1> QED
  BY <1>1, StackFacts DEF ShellInv, NoDeadSearch

LEMMA OneScreenChanges ==
    ASSUME ShellInv, NEW i \in 1..Len(stack), NEW scr \in ScreenStates, scr.kind = stack[i].kind,
           scr.query => scr.bar, stack' = [stack EXCEPT ![i] = scr], search' = search
    PROVE  ShellInv'
<1>1. stack \in Seq(ScreenStates)
  BY DEF ShellInv
<1>2. /\ stack' \in Seq(ScreenStates) /\ Len(stack') = Len(stack)
      /\ \A j \in 1..Len(stack) : stack'[j] = IF j = i THEN scr ELSE stack[j]
  BY <1>1, ExceptSeq
<1>3. \A j \in 1..Len(stack) : stack'[j].kind = stack[j].kind /\ (stack'[j].query => stack'[j].bar)
  BY <1>2, StackFacts
<1> QED
  BY <1>2, <1>3, ScreensStay

LEMMA PushKeepsSearchLive ==
    ASSUME ShellInv, NEW kind \in {"home", "board", "item", "settings"}, Push(kind)
    PROVE  ShellInv'
<1> DEFINE n == Len(stack)
<1>1. stack \in Seq(ScreenStates) /\ n \in Nat
  BY DEF ShellInv
<1>2. /\ FreshScreen(kind) \in ScreenStates /\ FreshScreen(kind).kind = kind
      /\ ~FreshScreen(kind).query
  BY DEF FreshScreen, ScreenStates
<1>3. stack' = Append(stack, FreshScreen(kind))
  BY DEF Push
<1>4. /\ stack' \in Seq(ScreenStates) /\ stack' # <<>> /\ Len(stack') = n + 1
      /\ \A i \in 1..n : stack'[i] = stack[i]
      /\ stack'[n + 1] = FreshScreen(kind)
  BY <1>1, <1>2, <1>3, AppendProperties
<1>5. DOMAIN stack' = 1..n + 1
  BY <1>4
<1>6. \A i \in 1..n + 1 : stack'[i].query => stack'[i].bar
  <2> SUFFICES ASSUME NEW i \in 1..n + 1, stack'[i].query PROVE stack'[i].bar
    OBVIOUS
  <2>1. i # n + 1
    BY <1>2, <1>4
  <2>2. i \in 1..n
    BY <1>1, <2>1
  <2> QED
    BY <1>4, <2>2, StackFacts
<1>7. search' = 0 \/ (search' \in 1..n + 1 /\ stack'[search'].kind = "board")
  <2>1. CASE kind = "board"
    <3>1. search' = n + 1
      BY <2>1 DEF Push
    <3> QED
      BY <1>1, <1>2, <1>4, <2>1, <3>1
  <2>2. CASE kind # "board"
    <3>1. search' = search
      BY <2>2 DEF Push
    <3> HIDE DEF n
    <3> QED
      BY <1>1, <1>4, <3>1, StackFacts DEF n
  <2> QED
    BY <2>1, <2>2
<1> QED
  BY <1>1, <1>4, <1>5, <1>6, <1>7 DEF ShellInv, NoDeadSearch

LEMMA BackKeepsSearchLive == ASSUME ShellInv, Back PROVE ShellInv'
<1> DEFINE n == Len(stack)
<1>1. stack \in Seq(ScreenStates) /\ n \in Nat /\ n > 1
  BY DEF ShellInv, Back
<1>2. stack' = SubSeq(stack, 1, n - 1)
  BY DEF Back, Front
<1>3. \A i \in 1..n - 1 : stack[i] \in ScreenStates
  BY <1>1
<1>4. /\ stack' \in Seq(ScreenStates) /\ Len(stack') = n - 1
      /\ \A i \in 1..n - 1 : stack'[i] = stack[i]
  BY <1>1, <1>2, <1>3, SubSeqProperties
<1>5. stack' # <<>> /\ DOMAIN stack' = 1..n - 1
  BY <1>1, <1>4
<1>6. \A i \in 1..n - 1 : stack'[i].query => stack'[i].bar
  BY <1>1, <1>4, StackFacts
<1>7. search' = 0 \/ (search' \in 1..n - 1 /\ stack'[search'].kind = "board")
  <2>1. CASE Top.kind = "board"
    BY <2>1 DEF Back
  <2>2. CASE Top.kind # "board"
    <3>1. search' = search /\ stack[n].kind # "board"
      BY <2>2, StackFacts DEF Back
    <3>2. search = 0 \/ (search \in 1..n /\ stack[search].kind = "board")
      BY StackFacts
    <3> HIDE DEF n
    <3> QED
      BY <1>1, <1>4, <3>1, <3>2
  <2> QED
    BY <2>1, <2>2
<1> QED
  BY <1>1, <1>4, <1>5, <1>6, <1>7 DEF ShellInv, NoDeadSearch

LEMMA ClosedScreen ==
    ASSUME NEW scr \in ScreenStates
    PROVE  /\ Closed(scr) \in ScreenStates /\ Closed(scr).kind = scr.kind
           /\ ~Closed(scr).query
BY DEF Closed, ScreenStates

LEMMA ShellStep == ShellInv /\ [ShellNext]_shell => ShellInv'
<1> SUFFICES ASSUME ShellInv, [ShellNext]_shell PROVE ShellInv'
  OBVIOUS
<1> DEFINE n == Len(stack)
<1>0. /\ n \in 1..n /\ Top = stack[n] /\ stack[n] \in ScreenStates
      /\ stack \in Seq(ScreenStates)
  BY StackFacts DEF ShellInv
<1>1. CASE OpenBoard \/ OpenItem \/ FollowNotification
  BY <1>1, PushKeepsSearchLive DEF OpenBoard, OpenItem, FollowNotification
<1>2. ASSUME NEW kind \in {"home", "settings"}, GoTo(kind) PROVE ShellInv'
  BY <1>2, PushKeepsSearchLive DEF GoTo
<1>3. CASE Back
  BY <1>3, BackKeepsSearchLive
<1>4. ASSUME UNCHANGED <<stack, search>> PROVE ShellInv'
  BY <1>4 DEF ShellInv, NoDeadSearch
<1>5. CASE OpenOverlay \/ CloseSurfaces \/ ResizeWindow
  BY <1>4, <1>5 DEF OpenOverlay, CloseSurfaces, ResizeWindow
<1>6. ASSUME NEW panel, OpenPanelOf(panel) PROVE ShellInv'
  BY <1>4, <1>6 DEF OpenPanelOf
<1>7. ASSUME NEW i \in 1..n, stack' = [stack EXCEPT ![i].bar = TRUE], search' = search PROVE ShellInv'
  <2> DEFINE scr == [stack[i] EXCEPT !.bar = TRUE]
  <2>1. stack[i] \in ScreenStates
    BY <1>0
  <2>2. scr \in ScreenStates /\ scr.kind = stack[i].kind /\ scr.bar
    BY <2>1 DEF ScreenStates
  <2>3. stack' = [stack EXCEPT ![i] = scr]
    BY <1>7
  <2> HIDE DEF scr
  <2> QED
    BY <1>7, <2>2, <2>3, OneScreenChanges
<1>8. CASE PressSearch
  <2>1. CASE search \in DOMAIN stack
    <3>1. search \in 1..n
      BY <2>1, StackFacts
    <3> QED
      BY <1>7, <1>8, <2>1, <3>1 DEF PressSearch
  <2>2. CASE search \notin DOMAIN stack
    BY <1>4, <1>8, <2>2 DEF PressSearch
  <2> QED
    BY <2>1, <2>2
<1>9. CASE HeaderSearch
  BY <1>0, <1>7, <1>9 DEF HeaderSearch
\* A query is typed into a bar that is open.
<1>10. CASE TypeQuery
  <2>1. PICK typed \in BOOLEAN : stack' = [stack EXCEPT ![n].query = typed]
    BY <1>10 DEF TypeQuery
  <2> DEFINE scr == [stack[n] EXCEPT !.query = typed]
  <2>2. stack[n].bar /\ search' = search
    BY <1>0, <1>10 DEF TypeQuery
  <2>3. scr \in ScreenStates /\ scr.kind = stack[n].kind /\ scr.bar
    BY <1>0, <2>2 DEF ScreenStates
  <2>4. stack' = [stack EXCEPT ![n] = scr]
    BY <2>1
  <2> HIDE DEF scr
  <2> QED
    BY <1>0, <2>2, <2>3, <2>4, OneScreenChanges
<1>11. CASE CloseSearch
  BY <1>0, <1>11, ClosedScreen, OneScreenChanges DEF CloseSearch
<1>12. CASE Escape
  <2> DEFINE after == [i \in 1..n |-> IF stack[i].bar THEN Closed(stack[i]) ELSE stack[i]]
  <2>1. stack' = after /\ search' = search /\ n \in Nat
    BY <1>0, <1>12 DEF Escape
  <2>2. ASSUME NEW i \in 1..n
        PROVE  /\ after[i] \in ScreenStates /\ after[i].kind = stack[i].kind
               /\ after[i].query => after[i].bar
    <3>1. stack[i] \in ScreenStates /\ (stack[i].query => stack[i].bar)
      BY StackFacts
    <3>2. CASE stack[i].bar
      <4>1. after[i] = Closed(stack[i])
        BY <3>2
      <4> QED
        BY <3>1, <4>1, ClosedScreen
    <3>3. CASE ~stack[i].bar
      <4>1. after[i] = stack[i]
        BY <3>3
      <4> QED
        BY <3>1, <4>1
    <3> QED
      BY <3>2, <3>3
  <2>3. after \in Seq(ScreenStates) /\ Len(after) = n
    BY <2>1, <2>2
  <2> HIDE DEF after
  <2> QED
    BY <2>1, <2>2, <2>3, ScreensStay
<1>13. CASE SignOutOfShell
  BY <1>13 DEF SignOutOfShell, OnlyHome, FreshScreen, ScreenStates, ShellInv, NoDeadSearch
<1>14. CASE UNCHANGED shell
  BY <1>4, <1>14 DEF shell
<1> QED
  BY <1>1, <1>2, <1>3, <1>5, <1>6, <1>8, <1>9, <1>10, <1>11, <1>12, <1>13, <1>14 DEF ShellNext

\* ScreenActions.tsx and board/[id].tsx, for any depth of the stack: the rail never calls
\* the handler of a screen that is gone, and no filter stays behind a bar that closed.
THEOREM SearchStaysLive == ShellSpec => []NoDeadSearch
<1>1. ShellInit => ShellInv
  BY DEF ShellInit, OnlyHome, FreshScreen, ScreenStates, ShellInv, NoDeadSearch
<1>2. ShellInv => NoDeadSearch
  BY DEF ShellInv
<1> QED
  BY <1>1, <1>2, ShellStep, PTL DEF ShellSpec

-----------------------------------------------------------------------------
(* Preferences.  Storage runs the operations on a key in their order, so that what it *)
(* will hold is what the last write that waits says, or what it holds if none does.   *)

Kept == {Unsaved, "dark", "light", "collapsed", "expanded", "comfortable", "compact"}

Ops == [kind : {"read"}, by : Widgets] \cup [kind : {"write"}, by : Widgets, value : Kept] \cup {Unheeded}

NoWriteFrom(q, i) == \A j \in 1..Len(q) : j >= i => q[j].kind # "write"

\* Once the operations in q have run on a key that holds held, it holds v.
Settles(q, held, v) ==
    \/ NoWriteFrom(q, 1) /\ v = held
    \/ \E i \in 1..Len(q) : q[i].kind = "write" /\ q[i].value = v /\ NoWriteFrom(q, i + 1)

\* The read of w waits, and what it will answer is what stays.
Awaits(q, w) == \E i \in 1..Len(q) : q[i] = Read(w) /\ NoWriteFrom(q, i)

ReadOnce(q, w) == \A i, j \in 1..Len(q) : q[i] = Read(w) /\ q[j] = Read(w) => i = j
NeverReads(q, w) == \A i \in 1..Len(q) : q[i] # Read(w)

AsSaved(key, v) == IF v = Unsaved THEN Default[key] ELSE v
ShowsSettled(q, held, key, what) == \E v : Settles(q, held, v) /\ what = AsSaved(key, v)

\* What is known of a widget w, of the operations q on its key and of what the key holds:
\* whether it is on screen, has its answer handled, is let differ, what it was answered
\* and what it shows.
Fine(w, q, held, on, done, lost, ans, what) ==
    /\ ReadOnce(q, w)
    /\ ~on \/ ans # Unheard => NeverReads(q, w)
    /\ done => on /\ ans # Unheard
    /\ on /\ done /\ ~lost => ShowsSettled(q, held, KeyOf(w), what)
    /\ on /\ ~done /\ ~lost =>
          /\ what = Default[KeyOf(w)]
          /\ ans = Unheard => Awaits(q, w)
          /\ ans # Unheard => Settles(q, held, ans)

PrefsType ==
    /\ disk \in [Keys -> Kept] /\ queue \in [Keys -> Seq(Ops)]
    /\ answer \in [Widgets -> Kept \cup {Unheard}] /\ shown \in [Widgets -> Kept]
    /\ mounted \subseteq Widgets /\ restored \subseteq Widgets
    /\ \A k \in Keys : \A i \in 1..Len(queue[k]) :
          queue[k][i].kind = "read" => KeyOf(queue[k][i].by) = k

PrefsInv ==
    /\ PrefsType
    /\ \A w \in Widgets : Fine(w, queue[KeyOf(w)], disk[KeyOf(w)], w \in mounted, w \in restored,
                               w \in apart, answer[w], shown[w])

LEMMA KeyOfWidget ==
    ASSUME NEW w \in Widgets
    PROVE  KeyOf(w) \in Keys /\ Default[KeyOf(w)] \in Kept /\ Values(KeyOf(w)) \subseteq Kept \ {Unsaved}
<1>0. /\ {"dark", "light", "collapsed", "expanded", "comfortable", "compact"} \subseteq Kept
      /\ \A v \in {"dark", "light", "collapsed", "expanded", "comfortable", "compact"} : v # Unsaved
  BY NullsAreNoValues DEF Kept
<1>1. ASSUME KeyOf(w) = "density"
      PROVE  /\ KeyOf(w) \in Keys /\ Default[KeyOf(w)] \in Kept
             /\ Values(KeyOf(w)) \subseteq Kept \ {Unsaved}
  <2>1. Default["density"] = "comfortable" /\ Values("density") = {"comfortable", "compact"}
    BY DEF Default, Values
  <2> QED
    BY <1>0, <1>1, <2>1 DEF Keys
<1>2. ASSUME KeyOf(w) = "theme"
      PROVE  /\ KeyOf(w) \in Keys /\ Default[KeyOf(w)] \in Kept
             /\ Values(KeyOf(w)) \subseteq Kept \ {Unsaved}
  <2>1. Default["theme"] = "dark" /\ Values("theme") = {"dark", "light"}
    BY DEF Default, Values
  <2> QED
    BY <1>0, <1>2, <2>1 DEF Keys
<1>3. ASSUME KeyOf(w) = "rail"
      PROVE  /\ KeyOf(w) \in Keys /\ Default[KeyOf(w)] \in Kept
             /\ Values(KeyOf(w)) \subseteq Kept \ {Unsaved}
  <2>1. Default["rail"] = "collapsed" /\ Values("rail") = {"collapsed", "expanded"}
    BY DEF Default, Values
  <2> QED
    BY <1>0, <1>3, <2>1 DEF Keys
<1>4. KeyOf(w) \in {"theme", "rail", "density"}
  BY DEF KeyOf, Widgets
<1> QED
  BY <1>1, <1>2, <1>3, <1>4

LEMMA OpFields ==
    /\ \A w : Read(w).kind = "read" /\ Read(w).by = w
    /\ \A w, v : Write(w, v).kind = "write" /\ Write(w, v).value = v
    /\ Unheeded.kind = "unheeded"
BY DEF Read, Write, Unheeded

LEMMA OpKinds ==
    ASSUME NEW op \in Ops
    PROVE  /\ op.kind \in {"read", "write", "unheeded"}
           /\ op.kind = "read" => op.by \in Widgets /\ op = Read(op.by)
           /\ op.kind = "write" => op.value \in Kept
           /\ op.kind = "unheeded" => op = Unheeded
BY DEF Ops, Read, Unheeded

LEMMA ReadIsOp == ASSUME NEW w \in Widgets PROVE Read(w) \in Ops
BY DEF Ops, Read

LEMMA WriteIsOp == ASSUME NEW w \in Widgets, NEW v \in Kept PROVE Write(w, v) \in Ops
BY DEF Ops, Write

-----------------------------------------------------------------------------
\* An operation that is no write goes last: what the key will hold is the same.
LEMMA SettlesAfterMore ==
    ASSUME NEW q \in Seq(Ops), NEW op \in Ops, op.kind # "write", NEW held, NEW v, Settles(q, held, v)
    PROVE  Settles(Append(q, op), held, v)
<1> DEFINE n == Len(q)
           r == Append(q, op)
<1>1. n \in Nat /\ Len(r) = n + 1 /\ (\A i \in 1..n : r[i] = q[i]) /\ r[n + 1] = op
  BY AppendProperties
<1> HIDE DEF n, r
<1>2. ASSUME NEW i \in 1..(n + 1), NoWriteFrom(q, i) PROVE NoWriteFrom(r, i)
  <2> SUFFICES ASSUME NEW j \in 1..n + 1, j >= i PROVE r[j].kind # "write"
    BY <1>1 DEF NoWriteFrom
  <2>1. CASE j = n + 1
    BY <1>1, <2>1
  <2>2. CASE j # n + 1
    <3>1. j \in 1..n
      BY <1>1, <2>2
    <3>2. q[j].kind # "write"
      BY <1>2, <3>1 DEF NoWriteFrom, n
    <3> QED
      BY <1>1, <3>1, <3>2
  <2> QED
    BY <2>1, <2>2
<1>3. CASE NoWriteFrom(q, 1) /\ v = held
  <2>1. 1 \in 1..n + 1
    BY <1>1
  <2> QED
    BY <1>2, <1>3, <2>1 DEF Settles, r
<1>4. ASSUME NEW i \in 1..n, q[i].kind = "write", q[i].value = v, NoWriteFrom(q, i + 1)
      PROVE  Settles(r, held, v)
  <2>1. i + 1 \in 1..n + 1 /\ i \in 1..Len(r) /\ r[i] = q[i]
    BY <1>1
  <2>2. NoWriteFrom(r, i + 1)
    BY <1>2, <1>4, <2>1
  <2> QED
    BY <1>4, <2>1, <2>2 DEF Settles
<1> QED
  BY <1>3, <1>4 DEF Settles, n, r

LEMMA AwaitsAfterMore ==
    ASSUME NEW q \in Seq(Ops), NEW op \in Ops, op.kind # "write", NEW w, Awaits(q, w)
    PROVE  Awaits(Append(q, op), w)
<1> DEFINE n == Len(q)
           r == Append(q, op)
<1>1. n \in Nat /\ Len(r) = n + 1 /\ (\A i \in 1..n : r[i] = q[i]) /\ r[n + 1] = op
  BY AppendProperties
<1>2. PICK i \in 1..n : q[i] = Read(w) /\ NoWriteFrom(q, i)
  BY DEF Awaits
<1> HIDE DEF n, r
<1>3. i \in 1..Len(r) /\ r[i] = Read(w)
  BY <1>1, <1>2
<1>4. ASSUME NEW j \in 1..n + 1, j >= i PROVE r[j].kind # "write"
  <2>1. CASE j = n + 1
    BY <1>1, <2>1
  <2>2. CASE j # n + 1
    <3>1. j \in 1..n
      BY <1>1, <2>2
    <3>2. q[j].kind # "write"
      BY <1>2, <1>4, <3>1 DEF NoWriteFrom, n
    <3> QED
      BY <1>1, <3>1, <3>2
  <2> QED
    BY <2>1, <2>2
<1> QED
  BY <1>1, <1>3, <1>4 DEF Awaits, NoWriteFrom, r

\* A write that goes last decides.
LEMMA SettlesAfterWrite ==
    ASSUME NEW q \in Seq(Ops), NEW w \in Widgets, NEW v \in Kept, NEW held
    PROVE  Settles(Append(q, Write(w, v)), held, v)
<1> DEFINE n == Len(q)
           r == Append(q, Write(w, v))
<1>1. n \in Nat /\ Len(r) = n + 1 /\ r[n + 1] = Write(w, v)
  BY AppendProperties, WriteIsOp
<1> HIDE DEF n, r
<1>2. n + 1 \in 1..Len(r) /\ r[n + 1].kind = "write" /\ r[n + 1].value = v
  BY <1>1, OpFields
<1>3. NoWriteFrom(r, (n + 1) + 1)
  BY <1>1 DEF NoWriteFrom
<1> QED
  BY <1>2, <1>3 DEF Settles, r

\* One more operation that is not the read of w.
LEMMA ReadsAfterMore ==
    ASSUME NEW q \in Seq(Ops), NEW op \in Ops, NEW w, op # Read(w)
    PROVE  /\ ReadOnce(q, w) => ReadOnce(Append(q, op), w)
           /\ NeverReads(q, w) => NeverReads(Append(q, op), w)
<1> DEFINE n == Len(q)
           r == Append(q, op)
<1>1. n \in Nat /\ Len(r) = n + 1 /\ (\A i \in 1..n : r[i] = q[i]) /\ r[n + 1] = op
  BY AppendProperties
<1> HIDE DEF n, r
<1>2. ASSUME NEW i \in 1..n + 1, r[i] = Read(w) PROVE i \in 1..n /\ q[i] = Read(w)
  BY <1>1, <1>2
<1>3. \A i \in 1..n + 1 : r[i] = Read(w) => i \in 1..n /\ q[i] = Read(w)
  BY <1>2
<1> QED
  BY <1>1, <1>3 DEF ReadOnce, NeverReads, n, r

\* The first read of w goes last.
LEMMA FirstRead ==
    ASSUME NEW q \in Seq(Ops), NEW w \in Widgets, NeverReads(q, w)
    PROVE  ReadOnce(Append(q, Read(w)), w) /\ Awaits(Append(q, Read(w)), w)
<1> DEFINE n == Len(q)
           r == Append(q, Read(w))
<1>1. n \in Nat /\ Len(r) = n + 1 /\ (\A i \in 1..n : r[i] = q[i]) /\ r[n + 1] = Read(w)
  BY AppendProperties, ReadIsOp
<1> HIDE DEF r
<1>2. \A i \in 1..n + 1 : r[i] = Read(w) => i = n + 1
  BY <1>1 DEF NeverReads
<1>3. NoWriteFrom(r, n + 1)
  <2>1. \A j \in 1..n + 1 : j >= n + 1 => j = n + 1
    BY <1>1
  <2> QED
    BY <1>1, <2>1, OpFields DEF NoWriteFrom
<1>4. n + 1 \in 1..Len(r)
  BY <1>1
<1> QED
  BY <1>1, <1>2, <1>3, <1>4 DEF ReadOnce, Awaits, r

\* The oldest operation has run.
LEMMA SettlesAfterOldest ==
    ASSUME NEW q \in Seq(Ops), q # <<>>, NEW held, NEW v, Settles(q, held, v)
    PROVE  Settles(Tail(q), IF Head(q).kind = "write" THEN Head(q).value ELSE held, v)
<1> DEFINE n == Len(q)
           t == Tail(q)
           now == IF Head(q).kind = "write" THEN Head(q).value ELSE held
<1>1. /\ n \in Nat /\ n >= 1 /\ Head(q) = q[1] /\ Len(t) = n - 1
      /\ \A i \in 1..n - 1 : t[i] = q[i + 1]
  BY HeadTailProperties
<1> HIDE DEF n, t
<1>2. ASSUME NEW i \in Nat, i >= 1, NoWriteFrom(q, i + 1) PROVE NoWriteFrom(t, i)
  <2> SUFFICES ASSUME NEW j \in 1..n - 1, j >= i PROVE t[j].kind # "write"
    BY <1>1 DEF NoWriteFrom
  <2>1. j + 1 \in 1..n /\ j + 1 >= i + 1
    BY <1>1, <1>2
  <2>2. q[j + 1].kind # "write"
    BY <1>2, <2>1 DEF NoWriteFrom, n
  <2> QED
    BY <1>1, <2>2
<1>3. CASE NoWriteFrom(q, 1) /\ v = held
  <2>1. \A j \in 1..n : q[j].kind # "write"
    BY <1>1, <1>3 DEF NoWriteFrom, n
  <2>2. NoWriteFrom(q, 1 + 1) /\ q[1].kind # "write"
    BY <1>1, <2>1 DEF NoWriteFrom, n
  <2>3. NoWriteFrom(t, 1) /\ now = held
    BY <1>1, <1>2, <2>2
  <2> QED
    BY <1>3, <2>3 DEF Settles, t
<1>4. ASSUME NEW i \in 1..n, q[i].kind = "write", q[i].value = v, NoWriteFrom(q, i + 1)
      PROVE  Settles(t, now, v)
  <2>1. NoWriteFrom(t, i)
    BY <1>2, <1>4
  <2>2. CASE i = 1
    <3>1. now = v
      BY <1>1, <1>4, <2>2
    <3> QED
      BY <2>1, <2>2, <3>1 DEF Settles
  <2>3. CASE i # 1
    <3>1. i - 1 \in 1..n - 1 /\ (i - 1) + 1 = i
      BY <1>1, <2>3
    <3>2. i - 1 \in 1..Len(t) /\ t[i - 1] = q[i]
      BY <1>1, <3>1
    <3>3. NoWriteFrom(t, (i - 1) + 1)
      BY <2>1, <3>1
    <3> HIDE DEF now
    <3> QED
      BY <1>4, <3>2, <3>3 DEF Settles
  <2> QED
    BY <2>2, <2>3
<1> QED
  BY <1>3, <1>4 DEF Settles, n, t

LEMMA ReadsAfterOldest ==
    ASSUME NEW q \in Seq(Ops), q # <<>>, NEW w
    PROVE  /\ ReadOnce(q, w) => ReadOnce(Tail(q), w)
           /\ NeverReads(q, w) => NeverReads(Tail(q), w)
           /\ ReadOnce(q, w) /\ Head(q) = Read(w) => NeverReads(Tail(q), w)
           /\ Awaits(q, w) /\ Head(q) # Read(w) => Awaits(Tail(q), w)
<1> DEFINE n == Len(q)
           t == Tail(q)
<1>1. /\ n \in Nat /\ n >= 1 /\ Head(q) = q[1] /\ Len(t) = n - 1
      /\ \A i \in 1..n - 1 : t[i] = q[i + 1]
  BY HeadTailProperties
<1> HIDE DEF n, t
<1>2. \A i \in 1..n - 1 : i + 1 \in 1..n /\ t[i] = q[i + 1]
  BY <1>1
<1>3. ASSUME ReadOnce(q, w) PROVE ReadOnce(t, w)
  <2> SUFFICES ASSUME NEW i \in 1..n - 1, NEW j \in 1..n - 1, t[i] = Read(w), t[j] = Read(w) PROVE i = j
    BY <1>1 DEF ReadOnce
  <2>1. i + 1 = j + 1
    BY <1>2, <1>3 DEF ReadOnce, n
  <2> QED
    BY <2>1
<1>4. ASSUME NeverReads(q, w) PROVE NeverReads(t, w)
  BY <1>1, <1>2, <1>4 DEF NeverReads, n
<1>5. ASSUME ReadOnce(q, w), Head(q) = Read(w) PROVE NeverReads(t, w)
  <2> SUFFICES ASSUME NEW i \in 1..n - 1, t[i] = Read(w) PROVE FALSE
    BY <1>1 DEF NeverReads
  <2>1. 1 \in 1..n /\ i + 1 \in 1..n /\ q[1] = Read(w) /\ q[i + 1] = Read(w)
    BY <1>1, <1>2, <1>5
  <2>2. i + 1 = 1
    BY <1>5, <2>1 DEF ReadOnce, n
  <2> QED
    BY <2>2
<1>6. ASSUME Awaits(q, w), Head(q) # Read(w) PROVE Awaits(t, w)
  <2>1. PICK i \in 1..n : q[i] = Read(w) /\ NoWriteFrom(q, i)
    BY <1>6 DEF Awaits, n
  <2>2. i - 1 \in 1..n - 1 /\ (i - 1) + 1 = i
    BY <1>1, <1>6, <2>1
  <2>3. i - 1 \in 1..Len(t) /\ t[i - 1] = Read(w)
    BY <1>1, <2>1, <2>2
  <2>4. ASSUME NEW j \in 1..n - 1, j >= i - 1 PROVE t[j].kind # "write"
    <3>1. j + 1 \in 1..n /\ j + 1 >= i
      BY <1>1, <2>2, <2>4
    <3>2. q[j + 1].kind # "write"
      BY <2>1, <3>1 DEF NoWriteFrom, n
    <3> QED
      BY <1>1, <3>2
  <2> QED
    BY <1>1, <2>3, <2>4 DEF Awaits, NoWriteFrom
<1> QED
  BY <1>3, <1>4, <1>5, <1>6 DEF n, t

\* A read that is answered says what will stay, if no write is behind it.
LEMMA AnswerSettles ==
    ASSUME NEW q \in Seq(Ops), q # <<>>, NEW w, ReadOnce(q, w), Awaits(q, w), Head(q) = Read(w), NEW held
    PROVE  Settles(Tail(q), held, held)
<1> DEFINE n == Len(q)
<1>1. /\ n \in Nat /\ n >= 1 /\ Head(q) = q[1] /\ Len(Tail(q)) = n - 1
      /\ \A i \in 1..n - 1 : Tail(q)[i] = q[i + 1]
  BY HeadTailProperties
<1>2. PICK i \in 1..n : q[i] = Read(w) /\ NoWriteFrom(q, i)
  BY DEF Awaits
<1> HIDE DEF n
<1>3. i = 1
  <2>1. 1 \in 1..n /\ q[1] = Read(w)
    BY <1>1
  <2> QED
    BY <1>2, <2>1 DEF ReadOnce, n
<1>4. ASSUME NEW j \in 1..n - 1 PROVE Tail(q)[j].kind # "write"
  <2>1. j + 1 \in 1..n /\ j + 1 >= 1
    BY <1>1
  <2>2. q[j + 1].kind # "write"
    BY <1>2, <1>3, <2>1 DEF NoWriteFrom, n
  <2> QED
    BY <1>1, <2>2
<1> QED
  BY <1>1, <1>4 DEF Settles, NoWriteFrom

\* The read of u is no longer heeded: for the others nothing changes.
LEMMA IgnoringOne ==
    ASSUME NEW q \in Seq(Ops), NEW u
    PROVE  /\ Ignoring(q, u) \in Seq(Ops) /\ Len(Ignoring(q, u)) = Len(q) /\ NeverReads(Ignoring(q, u), u)
           /\ \A i \in 1..Len(q) : Ignoring(q, u)[i] = q[i] \/ Ignoring(q, u)[i] = Unheeded
           /\ \A held, v : Settles(q, held, v) => Settles(Ignoring(q, u), held, v)
           /\ \A w : w # u => /\ ReadOnce(q, w) => ReadOnce(Ignoring(q, u), w)
                              /\ Awaits(q, w) => Awaits(Ignoring(q, u), w)
           /\ \A w : NeverReads(q, w) => NeverReads(Ignoring(q, u), w)
<1> DEFINE n == Len(q)
           r == Ignoring(q, u)
<1>1. n \in Nat /\ r = [i \in 1..n |-> IF q[i] = Read(u) THEN Unheeded ELSE q[i]]
  BY DEF Ignoring
<1>2. \A i \in 1..n : q[i] \in Ops
  OBVIOUS
<1> HIDE DEF n, r
<1>3. Unheeded \in Ops
  BY DEF Ops
<1>4. r \in Seq(Ops) /\ Len(r) = n
  BY <1>1, <1>2, <1>3
<1>5. \A i \in 1..n : /\ r[i].kind = "write" => q[i] = r[i]
                      /\ q[i].kind = "write" => r[i] = q[i]
                      /\ r[i] = q[i] \/ r[i] = Unheeded
  BY <1>1, OpFields
<1>6. \A w : \A i \in 1..n : /\ r[i] = Read(w) => q[i] = Read(w) /\ w # u
                             /\ q[i] = Read(w) /\ w # u => r[i] = Read(w)
  <2> SUFFICES ASSUME NEW w, NEW i \in 1..n
               PROVE  /\ r[i] = Read(w) => q[i] = Read(w) /\ w # u
                      /\ q[i] = Read(w) /\ w # u => r[i] = Read(w)
    OBVIOUS
  <2>1. Read(w) # Unheeded /\ (Read(w) = Read(u) => w = u)
    BY OpFields
  <2> QED
    BY <1>1, <2>1
<1>7. \A i : NoWriteFrom(q, i) => NoWriteFrom(r, i)
  BY <1>4, <1>5 DEF NoWriteFrom, n
<1>8. ASSUME NEW held, NEW v, Settles(q, held, v) PROVE Settles(r, held, v)
  <2>1. CASE NoWriteFrom(q, 1) /\ v = held
    BY <1>7, <2>1 DEF Settles
  <2>2. ASSUME NEW i \in 1..n, q[i].kind = "write", q[i].value = v, NoWriteFrom(q, i + 1)
        PROVE  Settles(r, held, v)
    BY <1>4, <1>5, <1>7, <2>2 DEF Settles
  <2> QED
    BY <1>8, <2>1, <2>2 DEF Settles, n
<1>9. ASSUME NEW w, w # u, Awaits(q, w) PROVE Awaits(r, w)
  BY <1>4, <1>6, <1>7, <1>9 DEF Awaits, n
<1>10. ASSUME NEW w, ReadOnce(q, w) PROVE ReadOnce(r, w)
  BY <1>4, <1>6, <1>10 DEF ReadOnce, n
<1>11. NeverReads(r, u) /\ \A w : NeverReads(q, w) => NeverReads(r, w)
  BY <1>4, <1>6 DEF NeverReads, n
<1> QED
  BY <1>4, <1>5, <1>8, <1>9, <1>10, <1>11 DEF n, r

-----------------------------------------------------------------------------
\* A widget nothing is done to, while the operations on its key go on.
LEMMA StaysFine ==
    ASSUME NEW w, NEW q, NEW held, NEW on, NEW done, NEW lost, NEW ans, NEW what,
           Fine(w, q, held, on, done, lost, ans, what),
           NEW r, NEW now, NEW apartNow, lost => apartNow,
           ReadOnce(q, w) => ReadOnce(r, w), NeverReads(q, w) => NeverReads(r, w),
           \A v : Settles(q, held, v) => Settles(r, now, v),
           Awaits(q, w) => Awaits(r, w)
    PROVE  Fine(w, r, now, on, done, apartNow, ans, what)
BY DEF Fine, ShowsSettled

LEMMA PrefsAll ==
    ASSUME PrefsInv, NEW w \in Widgets
    PROVE  /\ Fine(w, queue[KeyOf(w)], disk[KeyOf(w)], w \in mounted, w \in restored,
                   w \in apart, answer[w], shown[w])
           /\ KeyOf(w) \in Keys /\ queue[KeyOf(w)] \in Seq(Ops) /\ disk[KeyOf(w)] \in Kept
BY KeyOfWidget DEF PrefsInv, PrefsType

\* The keys of the reads that wait, after a key's operations became r.
LEMMA QueueTyped ==
    ASSUME PrefsInv, NEW k \in Keys, NEW r \in Seq(Ops), queue' = [queue EXCEPT ![k] = r],
           \A i \in 1..Len(r) : r[i].kind = "read" => KeyOf(r[i].by) = k
    PROVE  /\ queue' \in [Keys -> Seq(Ops)]
           /\ \A j \in Keys : \A i \in 1..Len(queue'[j]) :
                queue'[j][i].kind = "read" => KeyOf(queue'[j][i].by) = j
           /\ queue'[k] = r /\ \A j \in Keys \ {k} : queue'[j] = queue[j]
BY DEF PrefsInv, PrefsType

\* One more operation on the key of w.
LEMMA AppendTyped ==
    ASSUME PrefsInv, NEW k \in Keys, NEW op \in Ops, op.kind = "read" => KeyOf(op.by) = k,
           queue' = [queue EXCEPT ![k] = Append(queue[k], op)]
    PROVE  /\ queue' \in [Keys -> Seq(Ops)]
           /\ \A j \in Keys : \A i \in 1..Len(queue'[j]) :
                queue'[j][i].kind = "read" => KeyOf(queue'[j][i].by) = j
           /\ queue'[k] = Append(queue[k], op) /\ \A j \in Keys \ {k} : queue'[j] = queue[j]
<1> DEFINE r == Append(queue[k], op)
           n == Len(queue[k])
<1>1. queue[k] \in Seq(Ops)
  BY DEF PrefsInv, PrefsType
<1>2. /\ r \in Seq(Ops) /\ n \in Nat /\ Len(r) = n + 1
      /\ \A i \in 1..n : r[i] = queue[k][i]
      /\ r[n + 1] = op
  BY <1>1, AppendProperties
<1>3. \A i \in 1..n : queue[k][i].kind = "read" => KeyOf(queue[k][i].by) = k
  BY DEF PrefsInv, PrefsType
<1> HIDE DEF n, r
<1>4. \A i \in 1..Len(r) : r[i].kind = "read" => KeyOf(r[i].by) = k
  <2> SUFFICES ASSUME NEW i \in 1..n + 1, r[i].kind = "read" PROVE KeyOf(r[i].by) = k
    BY <1>2
  <2>1. CASE i = n + 1
    BY <1>2, <2>1
  <2>2. CASE i # n + 1
    BY <1>2, <1>3, <2>2
  <2> QED
    BY <2>1, <2>2
<1>5. queue' = [queue EXCEPT ![k] = r]
  BY DEF r
<1> QED
  BY <1>2, <1>4, <1>5, QueueTyped DEF r

LEMMA MountKeeps == ASSUME PrefsInv, NEW u \in Widgets, MountWidget(u) PROVE PrefsInv'
<1> DEFINE k == KeyOf(u)
<1>1. /\ u \notin mounted /\ mounted' = mounted \cup {u} /\ apart' = apart \ {u}
      /\ shown' = [shown EXCEPT ![u] = Default[k]] /\ answer' = [answer EXCEPT ![u] = Unheard]
      /\ queue' = [queue EXCEPT ![k] = Append(queue[k], Read(u))]
      /\ disk' = disk /\ restored' = restored
  BY DEF MountWidget
<1>2. /\ k \in Keys /\ Default[k] \in Kept /\ Read(u) \in Ops /\ Read(u).kind = "read"
      /\ KeyOf(Read(u).by) = k
  BY KeyOfWidget, ReadIsOp, OpFields
<1>3. /\ queue' \in [Keys -> Seq(Ops)]
      /\ \A j \in Keys : \A i \in 1..Len(queue'[j]) :
           queue'[j][i].kind = "read" => KeyOf(queue'[j][i].by) = j
      /\ queue'[k] = Append(queue[k], Read(u)) /\ \A j \in Keys \ {k} : queue'[j] = queue[j]
  BY <1>1, <1>2, AppendTyped
<1>4. /\ shown' \in [Widgets -> Kept] /\ answer' \in [Widgets -> Kept \cup {Unheard}]
      /\ disk' \in [Keys -> Kept] /\ mounted' \subseteq Widgets /\ restored' \subseteq Widgets
  BY <1>1, <1>2 DEF PrefsInv, PrefsType
<1>5. PrefsType'
  BY <1>3, <1>4 DEF PrefsType
<1>6. /\ shown'[u] = Default[k] /\ answer'[u] = Unheard
      /\ \A w \in Widgets \ {u} : shown'[w] = shown[w] /\ answer'[w] = answer[w]
  BY <1>1 DEF PrefsInv, PrefsType
<1> HIDE DEF k
<1>7. ASSUME NEW w \in Widgets
      PROVE  Fine(w, queue'[KeyOf(w)], disk'[KeyOf(w)], w \in mounted', w \in restored',
                  w \in apart', answer'[w], shown'[w])
  <2> DEFINE q == queue[KeyOf(w)]
             held == disk[KeyOf(w)]
  <2>1. /\ Fine(w, q, held, w \in mounted, w \in restored, w \in apart, answer[w], shown[w])
        /\ KeyOf(w) \in Keys /\ q \in Seq(Ops)
    BY PrefsAll
  <2>2. CASE w = u
    <3>1. NeverReads(q, w) /\ w \notin restored'
      BY <1>1, <2>1, <2>2 DEF Fine
    <3>2. queue'[KeyOf(w)] = Append(q, Read(w))
      BY <1>3, <2>2 DEF k
    <3>3. ReadOnce(queue'[KeyOf(w)], w) /\ Awaits(queue'[KeyOf(w)], w)
      BY <2>1, <3>1, <3>2, FirstRead
    <3>4. shown'[w] = Default[KeyOf(w)] /\ answer'[w] = Unheard /\ w \in mounted'
      BY <1>1, <1>6, <2>2 DEF k
    <3> QED
      BY <3>1, <3>3, <3>4 DEF Fine
  <2>3. CASE w # u
    <3>1. /\ w \in mounted' <=> w \in mounted
          /\ w \in restored' <=> w \in restored
          /\ w \in apart' <=> w \in apart
          /\ answer'[w] = answer[w] /\ shown'[w] = shown[w] /\ disk'[KeyOf(w)] = held
      BY <1>1, <1>6, <2>3
    <3>2. Fine(w, q, held, w \in mounted', w \in restored', w \in apart', answer'[w], shown'[w])
      BY <2>1, <3>1
    <3>3. CASE KeyOf(w) = k
      <4>1. queue'[KeyOf(w)] = Append(q, Read(u))
        BY <1>3, <3>3
      <4>2. Read(u) # Read(w) /\ Read(u) \in Ops /\ Read(u).kind # "write"
        BY <1>2, <2>3, OpFields
      <4>3. /\ ReadOnce(q, w) => ReadOnce(Append(q, Read(u)), w)
            /\ NeverReads(q, w) => NeverReads(Append(q, Read(u)), w)
        BY <2>1, <4>2, ReadsAfterMore
      <4>4. /\ \A v : Settles(q, held, v) => Settles(Append(q, Read(u)), held, v)
            /\ Awaits(q, w) => Awaits(Append(q, Read(u)), w)
        BY <2>1, <4>2, SettlesAfterMore, AwaitsAfterMore
      <4> HIDE DEF q, held
      <4> QED
        BY <3>1, <3>2, <4>1, <4>3, <4>4, StaysFine
    <3>4. CASE KeyOf(w) # k
      <4>1. queue'[KeyOf(w)] = q
        BY <1>3, <2>1, <3>4
      <4> QED
        BY <3>1, <3>2, <4>1
    <3> QED
      BY <3>3, <3>4
  <2> QED
    BY <2>2, <2>3
<1> QED
  BY <1>5, <1>7 DEF PrefsInv

LEMMA UnmountKeeps == ASSUME PrefsInv, NEW u \in Widgets, UnmountWidget(u) PROVE PrefsInv'
<1> DEFINE k == KeyOf(u)
           r == Ignoring(queue[k], u)
<1>1. /\ mounted' = mounted \ {u} /\ restored' = restored \ {u}
      /\ queue' = [queue EXCEPT ![k] = r]
      /\ disk' = disk /\ answer' = answer /\ shown' = shown /\ apart' = apart
  BY DEF UnmountWidget
<1>2. k \in Keys /\ queue[k] \in Seq(Ops)
  BY PrefsAll
<1>3. /\ r \in Seq(Ops) /\ Len(r) = Len(queue[k]) /\ NeverReads(r, u)
      /\ \A i \in 1..Len(queue[k]) : r[i] = queue[k][i] \/ r[i] = Unheeded
      /\ \A held, v : Settles(queue[k], held, v) => Settles(r, held, v)
      /\ \A w : w # u => /\ ReadOnce(queue[k], w) => ReadOnce(r, w)
                         /\ Awaits(queue[k], w) => Awaits(r, w)
      /\ \A w : NeverReads(queue[k], w) => NeverReads(r, w)
  BY <1>2, IgnoringOne
<1>4. \A i \in 1..Len(queue[k]) : queue[k][i].kind = "read" => KeyOf(queue[k][i].by) = k
  BY <1>2 DEF PrefsInv, PrefsType
<1> HIDE DEF r
<1>5. \A i \in 1..Len(r) : r[i].kind = "read" => KeyOf(r[i].by) = k
  BY <1>3, <1>4, OpFields
<1>6. /\ queue' \in [Keys -> Seq(Ops)]
      /\ \A j \in Keys : \A i \in 1..Len(queue'[j]) :
           queue'[j][i].kind = "read" => KeyOf(queue'[j][i].by) = j
      /\ queue'[k] = r /\ \A j \in Keys \ {k} : queue'[j] = queue[j]
  BY <1>1, <1>2, <1>3, <1>5, QueueTyped
<1>7. PrefsType'
  BY <1>1, <1>6 DEF PrefsInv, PrefsType
<1> HIDE DEF k
<1>8. ASSUME NEW w \in Widgets
      PROVE  Fine(w, queue'[KeyOf(w)], disk'[KeyOf(w)], w \in mounted', w \in restored',
                  w \in apart', answer'[w], shown'[w])
  <2> DEFINE q == queue[KeyOf(w)]
             held == disk[KeyOf(w)]
  <2>1. /\ Fine(w, q, held, w \in mounted, w \in restored, w \in apart, answer[w], shown[w])
        /\ KeyOf(w) \in Keys /\ q \in Seq(Ops)
    BY PrefsAll
  <2>2. CASE w = u
    <3>1. NeverReads(queue'[KeyOf(w)], w) /\ w \notin mounted' /\ w \notin restored'
      BY <1>1, <1>3, <1>6, <2>2 DEF k
    <3> QED
      BY <3>1 DEF Fine, NeverReads, ReadOnce
  <2>3. CASE w # u
    <3>1. /\ w \in mounted' <=> w \in mounted
          /\ w \in restored' <=> w \in restored
          /\ w \in apart' <=> w \in apart
          /\ answer'[w] = answer[w] /\ shown'[w] = shown[w] /\ disk'[KeyOf(w)] = held
      BY <1>1, <2>3
    <3>2. Fine(w, q, held, w \in mounted', w \in restored', w \in apart', answer'[w], shown'[w])
      BY <2>1, <3>1
    <3>3. CASE KeyOf(w) = k
      <4>1. queue'[KeyOf(w)] = r /\ queue[k] = q
        BY <1>6, <3>3
      <4>2. /\ ReadOnce(q, w) => ReadOnce(r, w)
            /\ NeverReads(q, w) => NeverReads(r, w)
            /\ \A v : Settles(q, held, v) => Settles(r, held, v)
            /\ Awaits(q, w) => Awaits(r, w)
        BY <1>3, <2>3, <4>1
      <4> HIDE DEF q, held
      <4> QED
        BY <3>1, <3>2, <4>1, <4>2, StaysFine
    <3>4. CASE KeyOf(w) # k
      <4>1. queue'[KeyOf(w)] = q
        BY <1>6, <2>1, <3>4
      <4> QED
        BY <3>1, <3>2, <4>1
    <3> QED
      BY <3>3, <3>4
  <2> QED
    BY <2>2, <2>3
<1> QED
  BY <1>7, <1>8 DEF PrefsInv

\* A choice is the last write, and the boards that show another density are let differ.
LEMMA ChooseKeeps ==
    ASSUME PrefsInv, NEW u \in Widgets, NEW v \in Values(KeyOf(u)), Choose(u, v)
    PROVE  PrefsInv'
<1> DEFINE k == KeyOf(u)
<1>1. /\ u \in mounted /\ shown' = [shown EXCEPT ![u] = v]
      /\ queue' = [queue EXCEPT ![k] = Append(queue[k], Write(u, v))]
      /\ apart' = (apart \cup {d \in mounted : KeyOf(d) = k}) \ (IF u \in restored THEN {u} ELSE {})
      /\ disk' = disk /\ mounted' = mounted /\ restored' = restored /\ answer' = answer
  BY DEF Choose
<1>2. v \in Kept /\ v # Unsaved /\ k \in Keys
  BY KeyOfWidget
<1>3. Write(u, v) \in Ops /\ Write(u, v).kind = "write"
  BY <1>2, WriteIsOp, OpFields
<1>4. /\ queue' \in [Keys -> Seq(Ops)]
      /\ \A j \in Keys : \A i \in 1..Len(queue'[j]) :
           queue'[j][i].kind = "read" => KeyOf(queue'[j][i].by) = j
      /\ queue'[k] = Append(queue[k], Write(u, v)) /\ \A j \in Keys \ {k} : queue'[j] = queue[j]
  BY <1>1, <1>2, <1>3, AppendTyped
<1>5. shown' \in [Widgets -> Kept] /\ shown'[u] = v /\ \A w \in Widgets \ {u} : shown'[w] = shown[w]
  BY <1>1, <1>2 DEF PrefsInv, PrefsType
<1>6. PrefsType'
  BY <1>1, <1>4, <1>5 DEF PrefsInv, PrefsType
<1> HIDE DEF k
<1>7. ASSUME NEW w \in Widgets
      PROVE  Fine(w, queue'[KeyOf(w)], disk'[KeyOf(w)], w \in mounted', w \in restored',
                  w \in apart', answer'[w], shown'[w])
  <2> DEFINE q == queue[KeyOf(w)]
             held == disk[KeyOf(w)]
  <2>1. /\ Fine(w, q, held, w \in mounted, w \in restored, w \in apart, answer[w], shown[w])
        /\ KeyOf(w) \in Keys /\ q \in Seq(Ops)
    BY PrefsAll
  <2>2. CASE KeyOf(w) # k
    <3>1. w # u /\ queue'[KeyOf(w)] = q /\ disk'[KeyOf(w)] = held
      BY <1>1, <1>4, <2>1, <2>2 DEF k
    <3>2. w \in apart' <=> w \in apart
      BY <1>1, <2>2, <3>1
    <3>3. /\ w \in mounted' <=> w \in mounted
          /\ w \in restored' <=> w \in restored
          /\ answer'[w] = answer[w] /\ shown'[w] = shown[w]
      BY <1>1, <1>5, <3>1
    <3> QED
      BY <2>1, <3>1, <3>2, <3>3
  <2>3. CASE KeyOf(w) = k
    <3> DEFINE r == Append(q, Write(u, v))
    <3>1. queue'[KeyOf(w)] = r
      BY <1>4, <2>3
    <3>2. Write(u, v) # Read(w)
      BY OpFields
    <3>3. /\ ReadOnce(q, w) => ReadOnce(r, w)
          /\ NeverReads(q, w) => NeverReads(r, w)
      BY <1>3, <2>1, <3>2, ReadsAfterMore
    <3>4. /\ ReadOnce(r, w) /\ (w \notin mounted' \/ answer'[w] # Unheard => NeverReads(r, w))
          /\ w \in restored' => w \in mounted' /\ answer'[w] # Unheard
      BY <1>1, <2>1, <3>3 DEF Fine
    <3>5. w \in mounted' /\ w \notin apart' => w = u /\ w \in restored'
      BY <1>1, <2>3
    <3>6. Settles(r, disk'[KeyOf(w)], v)
      BY <1>2, <2>1, SettlesAfterWrite
    <3>7. AsSaved(KeyOf(w), v) = v
      BY <1>2 DEF AsSaved
    <3>8. w = u => ShowsSettled(r, disk'[KeyOf(w)], KeyOf(w), shown'[w])
      BY <1>5, <3>6, <3>7 DEF ShowsSettled
    <3> HIDE DEF r
    <3> QED
      BY <3>1, <3>4, <3>5, <3>8 DEF Fine
  <2> QED
    BY <2>2, <2>3
<1> QED
  BY <1>6, <1>7 DEF PrefsInv

LEMMA StorageKeeps == ASSUME PrefsInv, NEW k \in Keys, StorageRuns(k) PROVE PrefsInv'
<1> DEFINE s == queue[k]
           op == Head(s)
<1>1. /\ s # <<>>
      /\ answer' = IF op.kind = "read" THEN [answer EXCEPT ![op.by] = disk[k]] ELSE answer
      /\ disk' = IF op.kind = "write" THEN [disk EXCEPT ![k] = op.value] ELSE disk
      /\ queue' = [queue EXCEPT ![k] = Tail(s)]
      /\ mounted' = mounted /\ restored' = restored /\ shown' = shown /\ apart' = apart
  BY DEF StorageRuns
<1>2. /\ s \in Seq(Ops) /\ disk[k] \in Kept /\ disk[k] # Unheard
      /\ \A i \in 1..Len(s) : s[i].kind = "read" => KeyOf(s[i].by) = k
  <2>1. s \in Seq(Ops) /\ disk[k] \in Kept
    BY DEF PrefsInv, PrefsType
  <2>2. \A i \in 1..Len(s) : s[i].kind = "read" => KeyOf(s[i].by) = k
    BY DEF PrefsInv, PrefsType
  <2> QED
    BY <2>1, <2>2, NullsAreNoValues DEF Kept
<1> HIDE DEF s
<1>3. /\ op = s[1] /\ op \in Ops /\ Tail(s) \in Seq(Ops) /\ Len(s) \in Nat /\ Len(s) >= 1
      /\ Len(Tail(s)) = Len(s) - 1 /\ \A i \in 1..Len(s) - 1 : Tail(s)[i] = s[i + 1]
  BY <1>1, <1>2, HeadTailProperties
<1>4. op.kind = "read" => op.by \in Widgets /\ op = Read(op.by) /\ KeyOf(op.by) = k
  BY <1>2, <1>3, OpKinds
<1>5. \A i \in 1..Len(Tail(s)) : Tail(s)[i].kind = "read" => KeyOf(Tail(s)[i].by) = k
  <2> SUFFICES ASSUME NEW i \in 1..Len(s) - 1, Tail(s)[i].kind = "read" PROVE KeyOf(Tail(s)[i].by) = k
    BY <1>3
  <2>1. i + 1 \in 1..Len(s) /\ Tail(s)[i] = s[i + 1]
    BY <1>3
  <2> QED
    BY <1>2, <2>1
<1>6. /\ queue' \in [Keys -> Seq(Ops)]
      /\ \A j \in Keys : \A i \in 1..Len(queue'[j]) :
           queue'[j][i].kind = "read" => KeyOf(queue'[j][i].by) = j
      /\ queue'[k] = Tail(s) /\ \A j \in Keys \ {k} : queue'[j] = queue[j]
  BY <1>1, <1>3, <1>5, QueueTyped
<1>7. op.kind = "write" => op.value \in Kept
  BY <1>3, OpKinds
<1>8. /\ disk' \in [Keys -> Kept] /\ disk'[k] = (IF op.kind = "write" THEN op.value ELSE disk[k])
      /\ \A j \in Keys \ {k} : disk'[j] = disk[j]
  BY <1>1, <1>7 DEF PrefsInv, PrefsType
<1>9. /\ answer' \in [Widgets -> Kept \cup {Unheard}]
      /\ \A w \in Widgets : answer'[w] = IF op.kind = "read" /\ op.by = w THEN disk[k] ELSE answer[w]
  BY <1>1, <1>2, <1>4 DEF PrefsInv, PrefsType
<1>10. PrefsType'
  BY <1>1, <1>6, <1>8, <1>9 DEF PrefsInv, PrefsType
<1> HIDE DEF op
<1>11. ASSUME NEW w \in Widgets
       PROVE  Fine(w, queue'[KeyOf(w)], disk'[KeyOf(w)], w \in mounted', w \in restored',
                   w \in apart', answer'[w], shown'[w])
  <2> DEFINE held == disk[KeyOf(w)]
  <2>1. /\ Fine(w, queue[KeyOf(w)], held, w \in mounted, w \in restored, w \in apart, answer[w], shown[w])
        /\ KeyOf(w) \in Keys
    BY PrefsAll
  <2>2. /\ w \in mounted' <=> w \in mounted
        /\ w \in restored' <=> w \in restored
        /\ w \in apart' <=> w \in apart
        /\ shown'[w] = shown[w]
    BY <1>1
  <2>3. CASE KeyOf(w) # k
    <3>1. queue'[KeyOf(w)] = queue[KeyOf(w)] /\ disk'[KeyOf(w)] = held /\ answer'[w] = answer[w]
      BY <1>4, <1>6, <1>8, <1>9, <2>1, <2>3
    <3> QED
      BY <2>1, <2>2, <3>1
  <2>4. CASE KeyOf(w) = k
    <3>1. queue[KeyOf(w)] = s /\ queue'[KeyOf(w)] = Tail(s) /\ held = disk[k]
      BY <1>6, <2>4 DEF s
    <3>2. Fine(w, s, disk[k], w \in mounted', w \in restored', w \in apart', answer[w], shown'[w])
      BY <2>1, <2>2, <3>1
    <3>3. /\ ReadOnce(s, w) => ReadOnce(Tail(s), w)
          /\ NeverReads(s, w) => NeverReads(Tail(s), w)
          /\ ReadOnce(s, w) /\ Head(s) = Read(w) => NeverReads(Tail(s), w)
          /\ Awaits(s, w) /\ Head(s) # Read(w) => Awaits(Tail(s), w)
      BY <1>1, <1>2, ReadsAfterOldest
    <3>4. CASE op = Read(w)
      <4>1. op.kind = "read" /\ op.by = w
        BY <3>4, OpFields
      <4>2. answer'[w] = disk[k] /\ disk'[KeyOf(w)] = disk[k] /\ answer'[w] # Unheard
        BY <1>2, <1>8, <1>9, <2>4, <4>1
      <4>3. ~NeverReads(s, w)
        <5>1. 1 \in 1..Len(s) /\ s[1] = Read(w)
          BY <1>3, <3>4
        <5> QED
          BY <5>1 DEF NeverReads
      <4>4. ReadOnce(s, w) /\ w \in mounted' /\ answer[w] = Unheard /\ w \notin restored'
        BY <3>2, <4>3 DEF Fine
      <4>5. ReadOnce(Tail(s), w) /\ NeverReads(Tail(s), w)
        BY <3>3, <3>4, <4>4 DEF op
      <4>6. w \notin apart' => shown'[w] = Default[KeyOf(w)] /\ Awaits(s, w)
        BY <3>2, <4>4 DEF Fine
      <4>7. w \notin apart' => Settles(Tail(s), disk[k], disk[k])
        BY <1>1, <1>2, <3>4, <4>4, <4>6, AnswerSettles DEF op
      <4> QED
        BY <3>1, <4>2, <4>4, <4>5, <4>6, <4>7 DEF Fine
    <3>5. CASE op # Read(w)
      <4>1. answer'[w] = answer[w]
        BY <1>4, <1>9, <3>5
      <4>2. \A v : Settles(s, disk[k], v) => Settles(Tail(s), disk'[k], v)
        BY <1>1, <1>2, <1>8, SettlesAfterOldest DEF op
      <4>3. Awaits(s, w) => Awaits(Tail(s), w)
        BY <3>3, <3>5 DEF op
      <4>4. Fine(w, Tail(s), disk'[k], w \in mounted', w \in restored', w \in apart', answer[w], shown'[w])
        BY <3>2, <3>3, <4>2, <4>3, StaysFine
      <4> QED
        BY <2>4, <3>1, <4>1, <4>4
    <3> QED
      BY <3>4, <3>5
  <2> QED
    BY <2>3, <2>4
<1> QED
  BY <1>10, <1>11 DEF PrefsInv

LEMMA FailureKeeps == ASSUME PrefsInv, NEW k \in Keys, StorageFails(k) PROVE PrefsInv'
<1> DEFINE s == queue[k]
<1>1. /\ s # <<>> /\ apart' = apart \cup {w \in Widgets : KeyOf(w) = k}
      /\ queue' = [queue EXCEPT ![k] = Tail(s)]
      /\ UNCHANGED <<disk, mounted, restored, answer, shown>>
  BY DEF StorageFails
<1>2. s \in Seq(Ops) /\ \A i \in 1..Len(s) : s[i].kind = "read" => KeyOf(s[i].by) = k
  BY DEF PrefsInv, PrefsType
<1> HIDE DEF s
<1>3. /\ Tail(s) \in Seq(Ops) /\ Len(s) \in Nat
      /\ Len(Tail(s)) = Len(s) - 1 /\ \A i \in 1..Len(s) - 1 : Tail(s)[i] = s[i + 1]
  BY <1>1, <1>2, HeadTailProperties
<1>4. \A i \in 1..Len(Tail(s)) : Tail(s)[i].kind = "read" => KeyOf(Tail(s)[i].by) = k
  <2> SUFFICES ASSUME NEW i \in 1..Len(s) - 1, Tail(s)[i].kind = "read" PROVE KeyOf(Tail(s)[i].by) = k
    BY <1>3
  <2>1. i + 1 \in 1..Len(s) /\ Tail(s)[i] = s[i + 1]
    BY <1>3
  <2> QED
    BY <1>2, <2>1
<1>5. /\ queue' \in [Keys -> Seq(Ops)]
      /\ \A j \in Keys : \A i \in 1..Len(queue'[j]) :
           queue'[j][i].kind = "read" => KeyOf(queue'[j][i].by) = j
      /\ queue'[k] = Tail(s) /\ \A j \in Keys \ {k} : queue'[j] = queue[j]
  BY <1>1, <1>3, <1>4, QueueTyped
<1>6. PrefsType'
  BY <1>1, <1>5 DEF PrefsInv, PrefsType
<1>7. ASSUME NEW w \in Widgets
      PROVE  Fine(w, queue'[KeyOf(w)], disk'[KeyOf(w)], w \in mounted', w \in restored',
                  w \in apart', answer'[w], shown'[w])
  <2>1. /\ Fine(w, queue[KeyOf(w)], disk[KeyOf(w)], w \in mounted, w \in restored,
                w \in apart, answer[w], shown[w])
        /\ KeyOf(w) \in Keys
    BY PrefsAll
  <2>2. CASE KeyOf(w) # k
    <3>1. queue'[KeyOf(w)] = queue[KeyOf(w)] /\ (w \in apart' <=> w \in apart)
      BY <1>1, <1>5, <2>1, <2>2
    <3> QED
      BY <1>1, <2>1, <3>1
  <2>3. CASE KeyOf(w) = k
    <3>1. w \in apart' /\ queue[KeyOf(w)] = s /\ queue'[KeyOf(w)] = Tail(s)
      BY <1>1, <1>5, <2>3 DEF s
    <3>2. /\ ReadOnce(s, w) => ReadOnce(Tail(s), w)
          /\ NeverReads(s, w) => NeverReads(Tail(s), w)
      BY <1>1, <1>2, ReadsAfterOldest
    <3> QED
      BY <1>1, <2>1, <3>1, <3>2 DEF Fine
  <2> QED
    BY <2>2, <2>3
<1> QED
  BY <1>6, <1>7 DEF PrefsInv

\* The answer is what will stay on disk; the rail ignores the one it shows already.
LEMMA RestoreKeeps == ASSUME PrefsInv, NEW u \in Widgets, Restore(u) PROVE PrefsInv'
<1>1. /\ u \in mounted /\ u \notin restored /\ answer[u] # Unheard /\ restored' = restored \cup {u}
      /\ UNCHANGED <<disk, queue, mounted, answer, apart>>
      /\ shown' = IF answer[u] = Unsaved \/ (u = "rail" /\ answer[u] = "collapsed") THEN shown
                  ELSE [shown EXCEPT ![u] = answer[u]]
  BY DEF Restore
<1>2. answer[u] \in Kept
  BY <1>1 DEF PrefsInv, PrefsType
<1>3. /\ shown' \in [Widgets -> Kept] /\ \A w \in Widgets \ {u} : shown'[w] = shown[w]
      /\ shown'[u] = IF answer[u] = Unsaved \/ (u = "rail" /\ answer[u] = "collapsed") THEN shown[u]
                     ELSE answer[u]
  BY <1>1, <1>2 DEF PrefsInv, PrefsType
<1>4. PrefsType'
  BY <1>1, <1>3 DEF PrefsInv, PrefsType
<1>5. u = "rail" => KeyOf(u) = "rail" /\ Default[KeyOf(u)] = "collapsed"
  BY PreferenceConstants DEF KeyOf, Default
<1>6. ASSUME NEW w \in Widgets
      PROVE  Fine(w, queue'[KeyOf(w)], disk'[KeyOf(w)], w \in mounted', w \in restored',
                  w \in apart', answer'[w], shown'[w])
  <2>1. Fine(w, queue[KeyOf(w)], disk[KeyOf(w)], w \in mounted, w \in restored,
             w \in apart, answer[w], shown[w])
    BY PrefsAll
  <2>2. CASE w # u
    <3>1. shown'[w] = shown[w] /\ (w \in restored' <=> w \in restored)
      BY <1>1, <1>3, <2>2
    <3> QED
      BY <1>1, <2>1, <3>1
  <2>3. CASE w = u
    <3>1. w \notin apart => shown[w] = Default[KeyOf(w)]
      BY <1>1, <2>1, <2>3 DEF Fine
    <3>2. w \notin apart => Settles(queue[KeyOf(w)], disk[KeyOf(w)], answer[w])
      BY <1>1, <2>1, <2>3 DEF Fine
    <3>3. w \notin apart => shown'[w] = AsSaved(KeyOf(w), answer[w])
      BY <1>3, <1>5, <2>3, <3>1 DEF AsSaved
    <3>4. w \notin apart => ShowsSettled(queue[KeyOf(w)], disk[KeyOf(w)], KeyOf(w), shown'[w])
      BY <3>2, <3>3 DEF ShowsSettled
    <3> QED
      BY <1>1, <2>1, <2>3, <3>4 DEF Fine
  <2> QED
    BY <2>2, <2>3
<1> QED
  BY <1>4, <1>6 DEF PrefsInv

LEMMA PrefsStep == PrefsInv /\ [PreferencesNext]_preferences => PrefsInv'
<1> SUFFICES ASSUME PrefsInv, [PreferencesNext]_preferences PROVE PrefsInv'
  OBVIOUS
<1>1. CASE UNCHANGED preferences
  BY <1>1 DEF preferences, PrefsInv, PrefsType
<1>2. ASSUME NEW w \in Widgets, MountWidget(w) \/ UnmountWidget(w) PROVE PrefsInv'
  BY <1>2, MountKeeps, UnmountKeeps
<1>3. ASSUME NEW w \in Widgets, Restore(w) \/ \E v \in Values(KeyOf(w)) : Choose(w, v) PROVE PrefsInv'
  BY <1>3, RestoreKeeps, ChooseKeeps
<1>4. ASSUME NEW k \in Keys, StorageRuns(k) \/ StorageFails(k) PROVE PrefsInv'
  BY <1>4, StorageKeeps, FailureKeeps
<1> QED
  BY <1>1, <1>2, <1>3, <1>4 DEF PreferencesNext

LEMMA PrefsStart == PreferencesInit => PrefsInv
<1> SUFFICES ASSUME PreferencesInit PROVE PrefsInv
  OBVIOUS
<1>1. /\ queue = [k \in Keys |-> IF k = "theme" THEN <<Read("theme")>> ELSE <<>>]
      /\ mounted = {"theme"} /\ restored = {} /\ apart = {}
      /\ answer = [w \in Widgets |-> Unheard]
      /\ shown = [w \in Widgets |-> Default[KeyOf(w)]]
  BY DEF PreferencesInit
<1>2. "theme" \in Widgets /\ KeyOf("theme") = "theme"
  BY PreferenceConstants DEF Widgets, KeyOf
<1>3. disk \in [Keys -> Kept]
  <2>1. ASSUME NEW k \in Keys PROVE Values(k) \subseteq Kept
    <3>1. "rail" \in Widgets /\ KeyOf("rail") = "rail"
      BY PreferenceConstants DEF Widgets, KeyOf
    <3>2. CASE k = "density"
      BY <3>2 DEF Values, Kept
    <3>3. CASE k # "density"
      BY <1>2, <3>1, <3>3, KeyOfWidget DEF Keys
    <3> QED
      BY <3>2, <3>3
  <2>2. \A k \in Keys : disk[k] \in Kept
    BY <2>1 DEF PreferencesInit, Kept
  <2>3. disk = [k \in Keys |-> disk[k]]
    BY DEF PreferencesInit
  <2> QED
    BY <2>2, <2>3
<1> DEFINE first == <<Read("theme")>>
<1>4. Read("theme") \in Ops
  BY <1>2, ReadIsOp
<1>5. first \in Seq(Ops) /\ Len(first) = 1 /\ first[1] = Read("theme")
  BY <1>4
<1>6. Read("theme").kind = "read" /\ Read("theme").by = "theme"
  BY OpFields
<1> HIDE DEF first
<1>7. \A k \in Keys : queue[k] = IF k = "theme" THEN first ELSE <<>>
  BY <1>1 DEF first
<1>8. queue \in [Keys -> Seq(Ops)]
  BY <1>1, <1>5 DEF first
<1>9. \A k \in Keys : \A i \in 1..Len(queue[k]) : queue[k][i].kind = "read" => KeyOf(queue[k][i].by) = k
  <2> SUFFICES ASSUME NEW k \in Keys, NEW i \in 1..Len(queue[k]) PROVE KeyOf(queue[k][i].by) = k
    OBVIOUS
  <2>1. CASE k = "theme"
    <3>1. queue[k] = first
      BY <1>7, <2>1
    <3>2. i \in 1..1
      BY <1>5, <3>1
    <3>3. i = 1
      BY <3>2
    <3> QED
      BY <1>2, <1>5, <1>6, <2>1, <3>1, <3>3
  <2>2. CASE k # "theme"
    BY <1>7, <2>2
  <2> QED
    BY <2>1, <2>2
<1>10. shown \in [Widgets -> Kept] /\ answer \in [Widgets -> Kept \cup {Unheard}]
  BY <1>1, KeyOfWidget
<1>11. PrefsType
  BY <1>1, <1>2, <1>3, <1>8, <1>9, <1>10 DEF PrefsType
<1>12. ASSUME NEW w \in Widgets
       PROVE  Fine(w, queue[KeyOf(w)], disk[KeyOf(w)], w \in mounted, w \in restored,
                   w \in apart, answer[w], shown[w])
  <2>1. KeyOf(w) \in Keys /\ answer[w] = Unheard /\ shown[w] = Default[KeyOf(w)] /\ w \notin restored
    BY <1>1, KeyOfWidget
  <2>2. CASE w = "theme"
    <3>1. queue[KeyOf(w)] = first
      BY <1>2, <1>7, <2>1, <2>2
    <3>2. ReadOnce(first, w)
      BY <1>5 DEF ReadOnce
    <3>3. NoWriteFrom(first, 1)
      BY <1>5, <1>6 DEF NoWriteFrom
    <3>4. Awaits(first, w)
      BY <1>5, <2>2, <3>3 DEF Awaits
    <3>5. w \in mounted
      BY <1>1, <2>2
    <3> QED
      BY <2>1, <3>1, <3>2, <3>4, <3>5 DEF Fine
  <2>3. CASE w # "theme"
    <3>1. KeyOf(w) # "theme" /\ w \notin mounted
      BY <1>1, <2>3 DEF KeyOf
    <3>2. queue[KeyOf(w)] = <<>>
      BY <1>7, <2>1, <3>1
    <3>3. NeverReads(<<>>, w) /\ ReadOnce(<<>>, w)
      BY DEF NeverReads, ReadOnce
    <3> QED
      BY <2>1, <3>1, <3>2, <3>3 DEF Fine
  <2> QED
    BY <2>2, <2>3
<1> QED
  BY <1>11, <1>12 DEF PrefsInv

\* ThemeContext.tsx, NavRail.tsx and density.tsx, for any boards mounted together: once
\* storage is idle a widget shows what a restart would restore, whatever was chosen,
\* mounted and left while its read and the writes were waiting.
THEOREM PreferencesSurviveRestart == PreferencesSpec => []PreferencesKept
<1>1. PrefsInv => PreferencesKept
  <2> SUFFICES ASSUME PrefsInv, NEW w \in restored \ apart, queue[KeyOf(w)] = <<>>
               PROVE  shown[w] = Saved(KeyOf(w))
    BY DEF PreferencesKept
  <2>1. w \in Widgets
    BY DEF PrefsInv, PrefsType
  <2>2. Fine(w, <<>>, disk[KeyOf(w)], w \in mounted, w \in restored, w \in apart, answer[w], shown[w])
    BY <2>1, PrefsAll
  <2>3. ShowsSettled(<<>>, disk[KeyOf(w)], KeyOf(w), shown[w])
    BY <2>2 DEF Fine
  <2>4. \A v : Settles(<<>>, disk[KeyOf(w)], v) => v = disk[KeyOf(w)]
    BY DEF Settles
  <2> QED
    BY <2>3, <2>4 DEF ShowsSettled, AsSaved, Saved
<1> QED
  BY <1>1, PrefsStart, PrefsStep, PTL DEF PreferencesSpec

-----------------------------------------------------------------------------
(* Lanes on the board.  Orders are kept through every list that is sent, stored and  *)
(* answered.                                                                        *)

LEMMA OrderFacts ==
    ASSUME NEW o \in Orders
    PROVE  /\ o \in Seq(Lanes) /\ Len(o) \in Nat
           /\ \A i \in 1..Len(o) : o[i] \in Lanes
           /\ \A i, j \in 1..Len(o) : o[i] = o[j] => i = j
<1>1. o \in Seq(Lanes) /\ IsInjective(o)
  BY DEF Orders
<1>2. DOMAIN o = 1..Len(o)
  BY <1>1
<1> QED
  BY <1>1, <1>2 DEF IsInjective

LEMMA IsOrder ==
    ASSUME NEW o \in Seq(Lanes), \A i, j \in 1..Len(o) : o[i] = o[j] => i = j
    PROVE  o \in Orders
<1>1. DOMAIN o = 1..Len(o)
  OBVIOUS
<1> QED
  BY <1>1 DEF Orders, IsInjective

\* A lane's place in an order is the one it is found at.
LEMMA PlaceOf ==
    ASSUME NEW o \in Orders, NEW k \in 1..Len(o)
    PROVE  (CHOOSE i \in 1..Len(o) : o[i] = o[k]) = k
BY OrderFacts

\* An order without the lane at one of its places.
LEMMA WithoutPlace ==
    ASSUME NEW o \in Orders, NEW k \in 1..Len(o)
    PROVE  /\ Without(o, o[k]) = RemoveAt(o, k)
           /\ Without(o, o[k]) \in Seq(Lanes) /\ Len(Without(o, o[k])) = Len(o) - 1
           /\ \A i \in 1..Len(o) - 1 : Without(o, o[k])[i] = IF i < k THEN o[i] ELSE o[i + 1]
<1>1. Without(o, o[k]) = RemoveAt(o, k)
  BY PlaceOf DEF Without
<1>2. o \in Seq(Lanes)
  BY OrderFacts
<1> QED
  BY <1>1, <1>2, RemovedAt

LEMMA WithoutIsOrder ==
    ASSUME NEW o \in Orders, NEW l
    PROVE  Without(o, l) \in Orders
<1>1. CASE \E k \in 1..Len(o) : o[k] = l
  <2>1. PICK k \in 1..Len(o) : o[k] = l
    BY <1>1
  <2> DEFINE w == Without(o, o[k])
  <2>2. /\ w \in Seq(Lanes) /\ Len(w) = Len(o) - 1
        /\ \A i \in 1..Len(o) - 1 : w[i] = IF i < k THEN o[i] ELSE o[i + 1]
    BY WithoutPlace
  <2> HIDE DEF w
  <2>3. ASSUME NEW i \in 1..Len(w), NEW j \in 1..Len(w), w[i] = w[j] PROVE i = j
    <3> DEFINE p == IF i < k THEN i ELSE i + 1
               q == IF j < k THEN j ELSE j + 1
    <3>1. Len(o) \in Nat
      BY OrderFacts
    <3>2. p \in 1..Len(o) /\ q \in 1..Len(o) /\ w[i] = o[p] /\ w[j] = o[q]
      BY <2>2, <3>1
    <3>3. p = q
      BY <2>3, <3>2, OrderFacts
    <3> QED
      BY <2>2, <3>1, <3>3
  <2>4. w \in Orders
    BY <2>2, <2>3, IsOrder
  <2> QED
    BY <2>1, <2>4 DEF w
<1>2. CASE ~\E k \in 1..Len(o) : o[k] = l
  BY <1>2 DEF Without
<1> QED
  BY <1>1, <1>2

\* A new lane goes last.
LEMMA AppendIsOrder ==
    ASSUME NEW o \in Orders, NEW l \in Lanes, \A i \in 1..Len(o) : o[i] # l
    PROVE  Append(o, l) \in Orders
<1>1. o \in Seq(Lanes) /\ Len(o) \in Nat /\ \A i, j \in 1..Len(o) : o[i] = o[j] => i = j
  BY OrderFacts
<1> DEFINE a == Append(o, l)
<1>2. /\ a \in Seq(Lanes) /\ Len(a) = Len(o) + 1
      /\ \A i \in 1..Len(o) : a[i] = o[i]
      /\ a[Len(o) + 1] = l
  BY <1>1, AppendProperties
<1> HIDE DEF a
<1>3. ASSUME NEW i \in 1..Len(a), NEW j \in 1..Len(a), a[i] = a[j] PROVE i = j
  <2>1. CASE i \in 1..Len(o) /\ j \in 1..Len(o)
    BY <1>1, <1>2, <1>3, <2>1
  <2>2. CASE i = Len(o) + 1 /\ j \in 1..Len(o)
    BY <1>2, <1>3, <2>2
  <2>3. CASE j = Len(o) + 1 /\ i \in 1..Len(o)
    BY <1>2, <1>3, <2>3
  <2>4. CASE i = Len(o) + 1 /\ j = Len(o) + 1
    BY <2>4
  <2>5. i \in 1..Len(o) \cup {Len(o) + 1} /\ j \in 1..Len(o) \cup {Len(o) + 1}
    BY <1>1, <1>2
  <2> QED
    BY <2>1, <2>2, <2>3, <2>4, <2>5
<1> QED
  BY <1>2, <1>3, IsOrder DEF a

\* Splicing a lane to another's place keeps every lane, once, and the order of the others.
LEMMA SplicedMovesOne ==
    ASSUME NEW o \in Orders, NEW k \in 1..Len(o), NEW g \in 1..Len(o)
    PROVE  LET s == Spliced(o, o[k], o[g]) IN
           s \in Orders /\ ToSet(s) = ToSet(o) /\ Without(s, o[k]) = Without(o, o[k])
<1> DEFINE n == Len(o)
           w == Without(o, o[k])
           s == Spliced(o, o[k], o[g])
<1>1. /\ o \in Seq(Lanes) /\ n \in Nat /\ \A i \in 1..n : o[i] \in Lanes
      /\ \A i, j \in 1..n : o[i] = o[j] => i = j
  BY OrderFacts
<1>2. /\ w \in Seq(Lanes) /\ Len(w) = n - 1
      /\ \A i \in 1..n - 1 : w[i] = IF i < k THEN o[i] ELSE o[i + 1]
  BY WithoutPlace
<1>3. s = InsertAt(w, g, o[k])
  BY PlaceOf DEF Spliced
<1>4. k \in 1..n /\ g \in 1..n
  OBVIOUS
<1> HIDE DEF n, w, s
<1>5. /\ s \in Seq(Lanes) /\ Len(s) = n
      /\ \A i \in 1..n : s[i] = IF i < g THEN w[i] ELSE IF i = g THEN o[k] ELSE w[i - 1]
  <2>1. g \in 1..Len(w) + 1 /\ o[k] \in Lanes /\ Len(w) + 1 = n
    BY <1>1, <1>2, <1>4
  <2> DEFINE e == o[k]
  <2>2. e \in Lanes
    BY <2>1
  <2> HIDE DEF e
  <2>3. s = InsertAt(w, g, e)
    BY <1>3 DEF e
  <2>4. w \in Seq(Lanes) /\ g \in 1..Len(w) + 1
    BY <1>2, <2>1
  <2>5. s = [i \in 1..Len(w) + 1 |-> IF i < g THEN w[i] ELSE IF i = g THEN e ELSE w[i - 1]]
    BY <2>2, <2>3, <2>4, InsertedAt
  <2>6. s \in Seq(Lanes)
    BY <2>2, <2>3, <2>4, InsertedAt
  <2> QED
    BY <1>1, <2>1, <2>5, <2>6 DEF e
<1> DEFINE q(i) == IF i < g THEN i ELSE i - 1
           p(i) == IF i = g THEN k ELSE IF q(i) < k THEN q(i) ELSE q(i) + 1
<1>6. ASSUME NEW i \in 1..n PROVE p(i) \in 1..n /\ s[i] = o[p(i)]
  <2>1. CASE i = g
    BY <1>4, <1>5, <2>1
  <2>2. CASE i # g
    <3>1. q(i) \in 1..n - 1 /\ s[i] = w[q(i)]
      BY <1>1, <1>4, <1>5, <2>2
    <3>2. w[q(i)] = IF q(i) < k THEN o[q(i)] ELSE o[q(i) + 1]
      BY <1>2, <3>1
    <3> QED
      BY <1>1, <2>2, <3>1, <3>2
  <2> QED
    BY <2>1, <2>2
<1>7. ASSUME NEW i \in 1..n, NEW j \in 1..n, p(i) = p(j) PROVE i = j
  BY <1>1, <1>4, <1>7
<1>8. s \in Orders
  <2>1. ASSUME NEW i \in 1..n, NEW j \in 1..n, s[i] = s[j] PROVE i = j
    <3>1. p(i) \in 1..n /\ p(j) \in 1..n /\ o[p(i)] = o[p(j)]
      BY <1>6, <2>1
    <3>2. p(i) = p(j)
      <4> HIDE DEF p
      <4> QED
        BY <1>1, <3>1
    <3> QED
      BY <1>7, <3>2
  <2> QED
    BY <1>5, <2>1, IsOrder
<1>9. ASSUME NEW i \in 1..n PROVE \E j \in 1..n : p(j) = i
  <2>1. CASE i = k
    BY <1>4, <2>1
  <2>2. CASE i # k
    <3> DEFINE c == IF i < k THEN i ELSE i - 1
               j == IF c < g THEN c ELSE c + 1
    <3>1. j \in 1..n /\ p(j) = i
      BY <1>1, <1>4, <2>2
    <3> QED
      BY <3>1
  <2> QED
    BY <2>1, <2>2
<1>10. ToSet(s) = ToSet(o)
  <2>1. DOMAIN s = 1..n /\ DOMAIN o = 1..n
    BY <1>1, <1>5 DEF n
  <2>2. ASSUME NEW i \in 1..n PROVE s[i] \in ToSet(o)
    <3> HIDE DEF p
    <3> QED
      BY <1>6, <2>1 DEF ToSet
  <2>3. ASSUME NEW i \in 1..n PROVE o[i] \in ToSet(s)
    <3>1. PICK j \in 1..n : p(j) = i
      BY <1>9
    <3>2. o[i] = s[j]
      BY <1>6, <3>1
    <3> QED
      BY <2>1, <3>2 DEF ToSet
  <2>4. ToSet(s) = {s[i] : i \in 1..n} /\ ToSet(o) = {o[i] : i \in 1..n}
    BY <2>1 DEF ToSet
  <2> QED
    BY <2>2, <2>3, <2>4
<1>11. Without(s, o[k]) = w
  <2> DEFINE v == Without(s, s[g])
  <2>1. s[g] = o[k]
    BY <1>4, <1>5
  <2>2. g \in 1..Len(s)
    BY <1>4, <1>5
  <2>3. /\ v \in Seq(Lanes) /\ Len(v) = n - 1
        /\ \A i \in 1..n - 1 : v[i] = IF i < g THEN s[i] ELSE s[i + 1]
    BY <1>5, <1>8, <2>2, WithoutPlace
  <2> HIDE DEF v
  <2>4. ASSUME NEW i \in 1..n - 1 PROVE v[i] = w[i]
    <3>1. CASE i < g
      BY <1>1, <1>5, <2>3, <3>1
    <3>2. CASE ~(i < g)
      <4>1. i + 1 \in 1..n /\ ~(i + 1 < g) /\ i + 1 # g /\ (i + 1) - 1 = i
        BY <1>1, <1>4, <3>2
      <4> QED
        BY <1>5, <2>3, <3>2, <4>1
    <3> QED
      BY <3>1, <3>2
  <2>5. v = w
    BY <1>2, <2>3, <2>4, SeqEqual
  <2> QED
    BY <2>1, <2>5 DEF v
<1> QED
  BY <1>8, <1>10, <1>11 DEF s, w

Boxes == [lane : Lanes, x : Int, w : Int]
Views == [origin : Int, offset : Int]

\* A request is shaped like one, counted among the acts, and lists lanes once wherever it
\* lists them: in what it asks for and, when it was answered, in what it brings.
Asking(r, n) ==
    /\ r = [n |-> r.n, kind |-> r.kind, of |-> r.of, answer |-> r.answer]
    /\ r.n \in Nat /\ r.n <= n /\ r.kind \in {"move", "reorder", "add", "delete", "load"}
    /\ r.kind = "reorder" => r.of \in Orders
    /\ r.answer \notin {Pending, Refused} =>
         /\ r.kind \in {"reorder", "add", "delete"} => r.answer \in Orders
         /\ r.kind = "load" => r.answer.of \in Orders

KanbanType ==
    /\ screenW \in Nat /\ acts \in Nat
    /\ lanes \in Orders /\ srvLanes \in Orders
    /\ frames \in Seq(Boxes)
    /\ view \in Views /\ known \in Views

KanbanInv == KanbanType /\ \A r \in sent : Asking(r, acts)

LEMMA RequestFields ==
    ASSUME NEW n, NEW kind, NEW of
    PROVE  LET r == Request(n, kind, of) IN
           /\ r = [n |-> r.n, kind |-> r.kind, of |-> r.of, answer |-> r.answer]
           /\ r.n = n /\ r.kind = kind /\ r.of = of /\ r.answer = Pending
BY DEF Request


\* Lanes have whole widths of at least 120 ...
LEMMA LaneWidths ==
    ASSUME NEW s \in Nat, NEW m \in Nat
    PROVE  LET w == ComputeLaneWidth(s, m) IN w \in Int /\ w >= 120
<1> DEFINE n == AtLeast(m, 1)
           available == AtLeast(s - BOARD_PAD * 2, 200)
           gutters == LANE_GUTTER * (n - 1) + ADD_LANE_GAP + ADD_LANE_WIDTH
           fit == (available - gutters) \div n
           softMin == IF s >= 1100 THEN 180 ELSE 150
           most == AtMost(320, AtLeast(240, (available * 82) \div 100))
           w == ComputeLaneWidth(s, m)
<1>1. n \in Nat /\ n >= 1
  BY DEF AtLeast
<1>2. available \in Int
  BY DEF AtLeast, BOARD_PAD
<1>3. gutters \in Int
  <2> HIDE DEF n
  <2> QED
    BY <1>1 DEF LANE_GUTTER, ADD_LANE_GAP, ADD_LANE_WIDTH
<1>4. w = CASE IsPhone(s) -> most
            [] ~IsPhone(s) /\ fit >= softMin -> AtMost(fit, 360)
            [] OTHER -> AtLeast(120, fit)
  BY DEF ComputeLaneWidth
<1>5. fit \in Int
  <2> HIDE DEF n, available, gutters
  <2> QED
    BY <1>1, <1>2, <1>3
<1>6. softMin \in Int /\ softMin >= 120
  OBVIOUS
<1>7. most \in Int /\ most >= 120
  <2> HIDE DEF available
  <2>1. (available * 82) \div 100 \in Int
    BY <1>2
  <2> QED
    BY <2>1 DEF AtMost, AtLeast
<1> HIDE DEF fit, softMin, most, w
<1>8. AtLeast(120, fit) \in Int /\ AtLeast(120, fit) >= 120
  BY <1>5 DEF AtLeast
<1>9. fit >= softMin => AtMost(fit, 360) \in Int /\ AtMost(fit, 360) >= 120
  BY <1>5, <1>6 DEF AtMost
<1>10. CASE IsPhone(s)
  BY <1>4, <1>7, <1>10 DEF w
<1>11. CASE ~IsPhone(s) /\ fit >= softMin
  BY <1>4, <1>9, <1>11 DEF w
<1>12. CASE ~IsPhone(s) /\ ~(fit >= softMin)
  BY <1>4, <1>8, <1>12 DEF w
<1> QED
  BY <1>10, <1>11, <1>12

\* ... so that the k-th of them is drawn apart from the j-th.
LEMMA LanesApart ==
    ASSUME NEW j \in Nat, NEW k \in Nat, NEW w \in Int, w >= 120, j < k
    PROVE  BOARD_PAD + (j - 1) * (w + LANE_GUTTER) + w < BOARD_PAD + (k - 1) * (w + LANE_GUTTER)
<1> DEFINE u == w + LANE_GUTTER
           d == k - j
<1>1. u \in Nat /\ u > w /\ d \in Nat /\ d >= 1
  BY DEF LANE_GUTTER
<1>2. (k - 1) * u = (j - 1) * u + d * u
  <2>1. k - 1 = (j - 1) + d /\ j - 1 \in Int /\ d \in Int
    OBVIOUS
  <2> HIDE DEF u, d
  <2> QED
    BY <1>1, <2>1
<1>3. d * u >= u
  <2> HIDE DEF u, d
  <2>1. d * u = u + (d - 1) * u
    BY <1>1
  <2>2. (d - 1) * u >= 0
    <3>1. d - 1 \in Nat
      BY <1>1
    <3> QED
      BY <1>1, <3>1
  <2>3. d * u \in Int /\ (d - 1) * u \in Int
    BY <1>1
  <2> QED
    BY <1>1, <2>1, <2>2, <2>3
<1>4. (j - 1) * u \in Int /\ d * u \in Int
  <2>1. j - 1 \in Int
    OBVIOUS
  <2> HIDE DEF u, d
  <2> QED
    BY <1>1, <2>1
<1> HIDE DEF u, d
<1>5. (j - 1) * u + w < (k - 1) * u
  BY <1>1, <1>2, <1>3, <1>4
<1> QED
  <2>1. (k - 1) * u \in Int
    BY <1>2, <1>4
  <2>2. BOARD_PAD + (j - 1) * u + w < BOARD_PAD + (k - 1) * u
    BY <1>4, <1>5, <2>1 DEF BOARD_PAD
  <2> QED
    BY <2>2 DEF u

LEMMA FrameFields ==
    ASSUME lanes \in Orders, screenW \in Nat, NEW k \in 1..Len(lanes)
    PROVE  /\ Frame(k) \in Boxes
           /\ LET w == ComputeLaneWidth(screenW, Len(lanes)) IN
              /\ Frame(k).lane = lanes[k] /\ Frame(k).w = w
              /\ Frame(k).x = BOARD_PAD + (k - 1) * (w + LANE_GUTTER)
<1> DEFINE w == ComputeLaneWidth(screenW, Len(lanes))
           x == BOARD_PAD + (k - 1) * (w + LANE_GUTTER)
<1>1. Frame(k) = [lane |-> lanes[k], x |-> x, w |-> w]
  BY DEF Frame, DrawnFrame
<1>2. lanes[k] \in Lanes /\ Len(lanes) \in Nat
  BY OrderFacts
<1>3. w \in Int
  BY <1>2, LaneWidths
<1>4. x \in Int
  <2> HIDE DEF w
  <2>1. k - 1 \in Int
    BY <1>2
  <2> QED
    BY <1>3, <2>1 DEF BOARD_PAD, LANE_GUTTER
<1> HIDE DEF x, w
<1>5. Frame(k) \in Boxes
  BY <1>1, <1>2, <1>3, <1>4 DEF Boxes
<1> QED
  BY <1>1, <1>5 DEF x, w

\* Frames that a measurement of every lane would leave alone have a frame for each, and
\* each of them where its lane is drawn.
LEMMA MeasuredFrames ==
    ASSUME KanbanType, NEW k \in 1..Len(lanes), frames = Recorded(k)
    PROVE  /\ \E i \in 1..Len(frames) : frames[i].lane = lanes[k]
           /\ \A i \in 1..Len(frames) : frames[i].lane = lanes[k] => frames[i] = Frame(k)
<1>1. frames \in Seq(Boxes) /\ Frame(k) \in Boxes
  BY FrameFields DEF KanbanType
<1>2. \E i \in 1..Len(frames) : frames[i].lane = lanes[k]
  <2> SUFFICES ASSUME ~\E i \in 1..Len(frames) : frames[i].lane = lanes[k] PROVE FALSE
    OBVIOUS
  <2>1. frames = Append(frames, Frame(k))
    BY DEF Recorded
  <2>2. Len(Append(frames, Frame(k))) = Len(frames) + 1 /\ Len(frames) \in Nat
    BY <1>1, AppendProperties
  <2> QED
    BY <2>1, <2>2
<1>3. ASSUME NEW i \in 1..Len(frames), frames[i].lane = lanes[k] PROVE frames[i] = Frame(k)
  <2>1. Recorded(k) = [j \in 1..Len(frames) |-> IF frames[j].lane = lanes[k] THEN Frame(k) ELSE frames[j]]
    BY <1>2 DEF Recorded
  <2> QED
    BY <1>3, <2>1
<1> QED
  BY <1>2, <1>3

\* A point of a lane's frame is a point of no other lane's.
LEMMA PointedLane ==
    ASSUME KanbanType, Settled, NoGhosts, NEW k \in 1..Len(lanes), NEW x \in PointsOf(k)
    PROVE  /\ Pointed(x, NoLane) # {}
           /\ \A i \in Pointed(x, NoLane) : i \in 1..Len(frames) /\ frames[i].lane = lanes[k]
<1> DEFINE w == ComputeLaneWidth(screenW, Len(lanes))
           u == w + LANE_GUTTER
           content == x - known.origin + known.offset
           left(j) == BOARD_PAD + (j - 1) * u
<1>1. lanes \in Orders /\ screenW \in Nat /\ Len(lanes) \in Nat
  BY OrderFacts DEF KanbanType
<1>2. w \in Int /\ w >= 120
  BY <1>1, LaneWidths
<1>3. ASSUME NEW j \in 1..Len(lanes)
      PROVE  Frame(j).lane = lanes[j] /\ Frame(j).w = w /\ Frame(j).x = left(j) /\ left(j) \in Int
  BY <1>1, FrameFields DEF Boxes
<1> HIDE DEF w
<1>4. content \in Int /\ content >= left(k) /\ content <= left(k) + w
  <2>1. PICK y \in {left(k), left(k) + w \div 2, left(k) + w} : x = y + view.origin - view.offset
    BY <1>3 DEF PointsOf
  <2>2. left(k) \in Int
    BY <1>3
  <2> HIDE DEF left
  <2>3. w \div 2 \in Int /\ w \div 2 >= 0 /\ w \div 2 <= w
    BY <1>2
  <2>4. y \in Int /\ left(k) <= y /\ y <= left(k) + w
    BY <1>2, <2>1, <2>2, <2>3
  <2>5. known = view /\ view.origin \in Int /\ view.offset \in Int
    BY DEF Settled, KanbanType, Views
  <2>6. content = y
    BY <2>1, <2>4, <2>5
  <2> QED
    BY <2>2, <2>4, <2>6
<1>5. ASSUME NEW i \in Pointed(x, NoLane)
      PROVE  i \in 1..Len(frames) /\ frames[i].lane = lanes[k]
  <2>1. i \in 1..Len(frames) /\ content >= frames[i].x /\ content <= frames[i].x + frames[i].w
    BY DEF Pointed
  <2>2. PICK j \in 1..Len(lanes) : frames[i].lane = lanes[j]
    BY <2>1 DEF NoGhosts, Drawn
  <2>3. frames[i] = Frame(j)
    BY <2>1, <2>2, MeasuredFrames DEF Settled
  <2>4. content >= left(j) /\ content <= left(j) + w
    BY <1>3, <2>1, <2>3
  <2>5. content \in Int
    BY <1>4
  <2>6. left(j) \in Int /\ left(k) \in Int
    BY <1>3
  <2>7. j = k
    <3>1. CASE j < k
      <4>1. left(j) + w < left(k)
        BY <1>1, <1>2, <3>1, LanesApart
      <4> HIDE DEF left, content
      <4> QED
        BY <1>2, <1>4, <2>4, <2>5, <2>6, <4>1
    <3>2. CASE k < j
      <4>1. left(k) + w < left(j)
        BY <1>1, <1>2, <3>2, LanesApart
      <4> HIDE DEF left, content
      <4> QED
        BY <1>2, <1>4, <2>4, <2>5, <2>6, <4>1
    <3> QED
      BY <1>1, <3>1, <3>2
  <2> QED
    BY <2>1, <2>2, <2>7
<1>6. Pointed(x, NoLane) # {}
  <2>1. PICK i \in 1..Len(frames) : frames[i].lane = lanes[k]
    BY MeasuredFrames DEF Settled
  <2>2. frames[i] = Frame(k)
    BY <2>1, MeasuredFrames DEF Settled
  <2>3. frames[i].lane # NoLane
    BY <1>1, <2>1, KanbanConstants, OrderFacts
  <2>4. content >= frames[i].x /\ content <= frames[i].x + frames[i].w
    BY <1>3, <1>4, <2>2
  <2>5. i \in Pointed(x, NoLane)
    BY <2>3, <2>4 DEF Pointed
  <2> QED
    BY <2>5
<1> QED
  BY <1>5, <1>6

LEMMA DropsLand == KanbanType => DropLandsUnderPointer
<1> SUFFICES ASSUME KanbanType, Settled, NoGhosts, NEW k \in 1..Len(lanes), NEW x \in PointsOf(k)
             PROVE  ResolveColumn(x, NoLane) = lanes[k]
  BY DEF DropLandsUnderPointer
<1> DEFINE hit == Pointed(x, NoLane)
<1>1. hit # {} /\ \A i \in hit : i \in 1..Len(frames) /\ frames[i].lane = lanes[k]
  BY PointedLane
<1>2. ResolveColumn(x, NoLane) =
        IF hit = {} THEN NoLane ELSE frames[CHOOSE i \in hit : \A j \in hit : i <= j].lane
  BY DEF ResolveColumn
<1> HIDE DEF hit
<1>3. \E i \in hit : \A j \in hit : i <= j
  <2>1. hit \subseteq Nat
    BY <1>1
  <2> QED
    BY <1>1, <2>1, LeastOf
<1> DEFINE first == CHOOSE i \in hit : \A j \in hit : i <= j
<1>4. first \in hit
  BY <1>3
<1> QED
  BY <1>1, <1>2, <1>4

-----------------------------------------------------------------------------

LEMMA KanbanStart == KanbanInit => KanbanInv
<1> SUFFICES ASSUME KanbanInit PROVE KanbanInv
  OBVIOUS
<1>1. lanes \in Orders /\ srvLanes \in Orders /\ lanes = srvLanes
  BY KanbanConstants DEF KanbanInit, Orders
<1>2. screenW \in Nat /\ acts \in Nat /\ sent = {}
  BY KanbanConstants DEF KanbanInit
<1>3. view \in Views /\ known \in Views
  <2> DEFINE o == CHOOSE o \in Origins : \A p \in Origins : o <= p
  <2>1. \E m \in Origins : \A p \in Origins : m <= p
    BY KanbanConstants, LeastOf
  <2>2. o \in Nat
    BY <2>1, KanbanConstants
  <2>3. view = At(o, 0) /\ known = view
    BY DEF KanbanInit
  <2> HIDE DEF o
  <2> QED
    BY <2>2, <2>3 DEF At, Views
<1>4. frames = [k \in 1..Len(lanes) |-> Frame(k)]
  BY DEF KanbanInit
<1>5. \A k \in 1..Len(lanes) : Frame(k) \in Boxes
  BY <1>1, <1>2, FrameFields
<1>6. Len(lanes) \in Nat
  BY <1>1, OrderFacts
<1>7. frames \in Seq(Boxes)
  BY <1>4, <1>5, <1>6
<1> QED
  BY <1>1, <1>2, <1>3, <1>7 DEF KanbanInv, KanbanType

\* What the client and the others ask for keeps the requests well-formed.
LEMMA SendKeeps ==
    ASSUME KanbanInv, NEW kind, NEW of, Send(kind, of),
           kind \in {"move", "reorder", "add", "delete"}, kind = "reorder" => of \in Orders
    PROVE  acts' \in Nat /\ \A r \in sent' : Asking(r, acts')
<1>1. acts \in Nat /\ acts' = acts + 1
  BY DEF KanbanInv, KanbanType, Send
<1>2. ASSUME NEW r \in sent PROVE Asking(r, acts')
  <2>1. Asking(r, acts)
    BY DEF KanbanInv
  <2> QED
    BY <1>1, <2>1 DEF Asking
<1> DEFINE q == Request(acts + 1, kind, of)
<1>3. /\ q = [n |-> q.n, kind |-> q.kind, of |-> q.of, answer |-> q.answer]
      /\ q.n = acts + 1 /\ q.kind = kind /\ q.of = of /\ q.answer = Pending
  BY RequestFields
<1> HIDE DEF q
<1>4. Asking(q, acts')
  BY <1>1, <1>3 DEF Asking
<1> QED
  BY <1>1, <1>2, <1>4 DEF Send, q

\* The server's answer to a request.
LEMMA ReplyKeeps ==
    ASSUME KanbanInv, NEW r \in sent, NEW a, Reply(r, a), acts' = acts,
           r.kind \in {"reorder", "add", "delete"} => a \in Orders \cup {Refused},
           r.kind = "load" => a.of \in Orders
    PROVE  \A q \in sent' : Asking(q, acts')
<1> DEFINE b == [r EXCEPT !.answer = a]
<1>1. Asking(r, acts)
  BY DEF KanbanInv
<1>2. b = [n |-> r.n, kind |-> r.kind, of |-> r.of, answer |-> a]
  BY <1>1 DEF Asking
<1> HIDE DEF b
<1>3. /\ b = [n |-> b.n, kind |-> b.kind, of |-> b.of, answer |-> b.answer]
      /\ b.n = r.n /\ b.kind = r.kind /\ b.of = r.of /\ b.answer = a
  BY <1>2
<1>4. Asking(b, acts)
  BY <1>1, <1>3 DEF Asking
<1> QED
  BY <1>4 DEF Reply, KanbanInv, b

LEMMA HandleKeeps ==
    ASSUME KanbanInv, NEW r, Handle(r)
    PROVE  KanbanInv'
<1>1. r \in sent /\ UNCHANGED <<screenW, lanes, frames, view, known, acts>>
  BY DEF Handle
<1>2. Asking(r, acts) /\ srvLanes \in Orders
  BY <1>1 DEF KanbanInv, KanbanType
<1>3. ASSUME srvLanes' \in Orders, \A q \in sent' : Asking(q, acts') PROVE KanbanInv'
  BY <1>1, <1>3 DEF KanbanInv, KanbanType
<1>4. ASSUME r.kind = "move" PROVE KanbanInv'
  <2>1. Reply(r, "done") /\ UNCHANGED srvLanes
    BY <1>4 DEF Handle
  <2> QED
    BY <1>1, <1>2, <1>3, <1>4, <2>1, ReplyKeeps
<1>5. ASSUME r.kind = "load" PROVE KanbanInv'
  <2>1. Reply(r, [of |-> srvLanes, card |-> srvCard]) /\ UNCHANGED srvLanes
    BY <1>5 DEF Handle
  <2>2. [of |-> srvLanes, card |-> srvCard].of \in Orders
    BY <1>2
  <2> QED
    BY <1>1, <1>2, <1>3, <1>5, <2>1, <2>2, ReplyKeeps
<1>6. ASSUME r.kind = "reorder", ToSet(r.of) = ToSet(srvLanes) PROVE KanbanInv'
  <2>1. Reply(r, r.of) /\ srvLanes' = r.of
    BY <1>6 DEF Handle
  <2>2. r.of \in Orders
    BY <1>2, <1>6 DEF Asking
  <2> QED
    BY <1>1, <1>3, <1>6, <2>1, <2>2, ReplyKeeps
<1>7. ASSUME r.kind = "add", Fresh # {} PROVE KanbanInv'
  <2>1. PICK l \in Fresh : srvLanes' = Append(srvLanes, l) /\ Reply(r, Append(srvLanes, l))
    BY <1>7 DEF Handle
  <2>2. Append(srvLanes, l) \in Orders
    BY <1>2, AppendIsOrder DEF Fresh
  <2> QED
    BY <1>1, <1>3, <1>7, <2>1, <2>2, ReplyKeeps
<1>8. ASSUME r.kind = "delete", Has(r.of), Len(srvLanes) > 1, srvCard # r.of PROVE KanbanInv'
  <2>1. srvLanes' = Without(srvLanes, r.of) /\ Reply(r, Without(srvLanes, r.of))
    BY <1>8 DEF Handle
  <2>2. Without(srvLanes, r.of) \in Orders
    BY <1>2, WithoutIsOrder
  <2> QED
    BY <1>1, <1>3, <1>8, <2>1, <2>2, ReplyKeeps
<1>9. ASSUME /\ r.kind # "move" /\ r.kind # "load"
             /\ ~(r.kind = "reorder" /\ ToSet(r.of) = ToSet(srvLanes))
             /\ ~(r.kind = "add" /\ Fresh # {})
             /\ ~(r.kind = "delete" /\ Has(r.of) /\ Len(srvLanes) > 1 /\ srvCard # r.of)
      PROVE KanbanInv'
  <2>1. Reply(r, Refused) /\ UNCHANGED srvLanes
    BY <1>9 DEF Handle
  <2> QED
    BY <1>1, <1>2, <1>3, <1>9, <2>1, ReplyKeeps
<1> QED
  BY <1>4, <1>5, <1>6, <1>7, <1>8, <1>9

LEMMA LandedKeeps ==
    ASSUME KanbanInv, NEW r, Landed(r)
    PROVE  KanbanInv'
<1>1. /\ r \in sent /\ r.answer \notin {Pending, Refused} /\ sent' = sent \ {r}
      /\ UNCHANGED <<screenW, srvLanes, frames, view, known, acts>>
  BY DEF Landed
<1>2. Asking(r, acts)
  BY <1>1 DEF KanbanInv
<1>3. lanes' \in Orders
  <2>1. lanes \in Orders
    BY DEF KanbanInv, KanbanType
  <2>2. CASE r.kind = "move"
    BY <2>1, <2>2 DEF Landed
  <2>3. CASE r.kind = "load"
    BY <1>1, <1>2, <2>3 DEF Landed, Asking
  <2>4. CASE r.kind = "reorder"
    BY <1>1, <1>2, <2>4 DEF Landed, Asking
  <2>5. CASE r.kind = "add"
    BY <1>1, <1>2, <2>5 DEF Landed, Asking
  <2>6. CASE r.kind = "delete"
    BY <1>1, <1>2, <2>6 DEF Landed, Asking
  <2> QED
    BY <1>2, <2>2, <2>3, <2>4, <2>5, <2>6 DEF Asking
<1> QED
  BY <1>1, <1>3 DEF KanbanInv, KanbanType

LEMMA FailedKeeps ==
    ASSUME KanbanInv, NEW r, Failed(r)
    PROVE  KanbanInv'
<1>1. /\ r \in sent /\ UNCHANGED <<screenW, lanes, srvLanes, frames, view, known, acts>>
      /\ sent' \subseteq sent \cup {Request(r.n, "load", NoLane)}
  BY DEF Failed
<1>2. Asking(r, acts)
  BY <1>1 DEF KanbanInv
<1> DEFINE q == Request(r.n, "load", NoLane)
<1>3. /\ q = [n |-> q.n, kind |-> q.kind, of |-> q.of, answer |-> q.answer]
      /\ q.n = r.n /\ q.kind = "load" /\ q.answer = Pending
  BY RequestFields
<1>4. Asking(q, acts)
  <2> HIDE DEF q
  <2> QED
    BY <1>2, <1>3 DEF Asking
<1> HIDE DEF q
<1>5. sent' \subseteq sent \cup {q}
  BY <1>1 DEF q
<1> QED
  BY <1>1, <1>4, <1>5 DEF KanbanInv, KanbanType

LEMMA ElsewhereKeeps ==
    ASSUME KanbanInv, LaneEditedElsewhere
    PROVE  KanbanInv'
<1>1. acts \in Nat /\ acts' = acts + 1 /\ UNCHANGED <<screenW, lanes, frames, view, known, sent>>
  BY DEF KanbanInv, KanbanType, LaneEditedElsewhere
<1>2. srvLanes' \in Orders
  <2>1. srvLanes \in Orders
    BY DEF KanbanInv, KanbanType
  <2>2. ASSUME NEW l \in Fresh, srvLanes' = Append(srvLanes, l) PROVE srvLanes' \in Orders
    BY <2>1, <2>2, AppendIsOrder DEF Fresh
  <2>3. ASSUME NEW l, srvLanes' = Without(srvLanes, l) PROVE srvLanes' \in Orders
    BY <2>1, <2>3, WithoutIsOrder
  <2> QED
    BY <2>2, <2>3 DEF LaneEditedElsewhere
<1>3. ASSUME NEW r \in sent PROVE Asking(r, acts')
  <2>1. Asking(r, acts)
    BY DEF KanbanInv
  <2> QED
    BY <1>1, <2>1 DEF Asking
<1> QED
  BY <1>1, <1>2, <1>3 DEF KanbanInv, KanbanType

LEMMA DropLaneKeeps ==
    ASSUME KanbanInv, NEW k \in 1..Len(lanes), NEW x, DropLane(k, x)
    PROVE  /\ KanbanInv'
           /\ lanes' \in Orders /\ ToSet(lanes') = ToSet(lanes)
           /\ Without(lanes', lanes[k]) = Without(lanes, lanes[k])
<1>1. lanes \in Orders
  BY DEF KanbanInv, KanbanType
<1>2. PICK i \in 1..Len(lanes) : lanes[i] = ResolveColumn(x, lanes[k])
  BY DEF DropLane
<1>3. lanes' = Spliced(lanes, lanes[k], lanes[i])
  BY <1>2 DEF DropLane
<1>4. /\ lanes' \in Orders /\ ToSet(lanes') = ToSet(lanes)
      /\ Without(lanes', lanes[k]) = Without(lanes, lanes[k])
  BY <1>1, <1>3, SplicedMovesOne
<1>5. Send("reorder", lanes') /\ UNCHANGED <<screenW, srvLanes, frames, view, known>>
  BY DEF DropLane
<1>6. acts' \in Nat /\ \A r \in sent' : Asking(r, acts')
  BY <1>4, <1>5, SendKeeps
<1> QED
  BY <1>4, <1>5, <1>6 DEF KanbanInv, KanbanType

LEMMA LaidOutKeeps ==
    ASSUME KanbanInv, NEW k \in 1..Len(lanes), LaidOut(k)
    PROVE  KanbanInv'
<1>1. /\ frames' = Recorded(k)
      /\ UNCHANGED <<screenW, lanes, srvLanes, view, known, sent, acts>>
  BY DEF LaidOut
<1>2. frames \in Seq(Boxes) /\ Frame(k) \in Boxes
  BY FrameFields DEF KanbanInv, KanbanType
<1>3. Recorded(k) \in Seq(Boxes)
  <2>1. Append(frames, Frame(k)) \in Seq(Boxes)
    BY <1>2
  <2> DEFINE over == [i \in 1..Len(frames) |-> IF frames[i].lane = lanes[k] THEN Frame(k) ELSE frames[i]]
  <2>2. \A i \in 1..Len(frames) : frames[i] \in Boxes
    BY <1>2
  <2>3. over \in Seq(Boxes)
    BY <1>2, <2>2
  <2> QED
    BY <2>1, <2>3 DEF Recorded
<1> QED
  BY <1>1, <1>3 DEF KanbanInv, KanbanType

LEMMA KanbanStep == KanbanInv /\ [KanbanNext]_kanban => KanbanInv'
<1> SUFFICES ASSUME KanbanInv, [KanbanNext]_kanban PROVE KanbanInv'
  OBVIOUS
<1>1. CASE UNCHANGED kanban
  BY <1>1 DEF kanban, KanbanInv, KanbanType
<1>2. CASE Scroll
  <2>1. PICK o \in Offsets : view' = [view EXCEPT !.offset = o]
    BY <1>2 DEF Scroll
  <2>2. view' \in Views
    BY <2>1, KanbanConstants DEF KanbanInv, KanbanType, Views
  <2> QED
    BY <1>2, <2>2 DEF Scroll, KanbanInv, KanbanType
<1>3. CASE RailMoves
  <2>1. PICK o \in Origins : view' = [view EXCEPT !.origin = o]
    BY <1>3 DEF RailMoves
  <2>2. view' \in Views
    BY <2>1, KanbanConstants DEF KanbanInv, KanbanType, Views
  <2> QED
    BY <1>3, <2>2 DEF RailMoves, KanbanInv, KanbanType
<1>4. CASE Measured
  BY <1>4 DEF Measured, KanbanInv, KanbanType
<1>5. CASE AddLane
  <2>1. acts' \in Nat /\ \A r \in sent' : Asking(r, acts')
    BY <1>5, SendKeeps DEF AddLane
  <2> QED
    BY <1>5, <2>1 DEF AddLane, KanbanInv, KanbanType
<1>6. CASE LaneEditedElsewhere
  BY <1>6, ElsewhereKeeps
<1>7. ASSUME NEW k \in 1..Len(lanes), DeleteLane(k) PROVE KanbanInv'
  <2>1. acts' \in Nat /\ \A r \in sent' : Asking(r, acts')
    BY <1>7, SendKeeps DEF DeleteLane
  <2> QED
    BY <1>7, <2>1 DEF DeleteLane, KanbanInv, KanbanType
<1>8. ASSUME NEW x, DropCard(x) PROVE KanbanInv'
  <2> DEFINE target == ResolveColumn(x, NoLane)
  <2>1. Send("move", target) /\ UNCHANGED <<screenW, lanes, srvLanes, frames, view, known>>
    BY <1>8 DEF DropCard
  <2> HIDE DEF target
  <2>2. acts' \in Nat /\ \A r \in sent' : Asking(r, acts')
    BY <2>1, SendKeeps
  <2> QED
    BY <2>1, <2>2 DEF KanbanInv, KanbanType
<1>9. ASSUME NEW k \in 1..Len(lanes), NEW x, DropLane(k, x) PROVE KanbanInv'
  BY <1>9, DropLaneKeeps
<1>10. ASSUME NEW k \in 1..Len(lanes), LaidOut(k) PROVE KanbanInv'
  BY <1>10, LaidOutKeeps
<1>11. ASSUME NEW r, Handle(r) \/ Landed(r) \/ Failed(r) PROVE KanbanInv'
  BY <1>11, HandleKeeps, LandedKeeps, FailedKeeps
<1> QED
  BY <1>1, <1>2, <1>3, <1>4, <1>5, <1>6, <1>7, <1>8, <1>9, <1>10, <1>11 DEF KanbanNext

\* DraggableBoard.tsx, for any lanes, screens, rails and scrolls: once the lanes on screen
\* are measured, a drop inside one resolves to it.
THEOREM DropLandsInLane == KanbanSpec => []DropLandsUnderPointer
<1>1. KanbanInv => DropLandsUnderPointer
  BY DropsLand DEF KanbanInv
<1> QED
  BY <1>1, KanbanStart, KanbanStep, PTL DEF KanbanSpec

\* commitColumnReorder, on any board and whatever the others did to its lanes meanwhile:
\* the list sent has every lane this client shows, once, and moves one of them.
THEOREM ReorderMovesOneLane == KanbanSpec => ReorderKeepsLanes
<1> DEFINE MovesOne(r) == /\ IsInjective(r.of) /\ ToSet(r.of) = ToSet(lanes)
                          /\ \E l \in ToSet(lanes) : Without(r.of, l) = Without(lanes, l)
           Good == \A r \in sent' \ sent : r.kind = "reorder" /\ r.n > acts => MovesOne(r)
<1>1. ASSUME KanbanInv, [KanbanNext]_kanban PROVE Good
  <2> SUFFICES ASSUME NEW r \in sent' \ sent, r.kind = "reorder", r.n > acts PROVE MovesOne(r)
    OBVIOUS
  <2> HIDE DEF MovesOne
  <2>1. r.n \in Nat => ~(r.n <= acts)
    BY <1>1 DEF KanbanInv, KanbanType
  <2>2. ASSUME NEW kind, NEW of, Send(kind, of) PROVE r.kind = kind /\ r.of = of
    <3>1. r = Request(acts + 1, kind, of)
      BY <2>2 DEF Send
    <3> QED
      BY <3>1, RequestFields
  <2>3. sent' = sent => FALSE
    OBVIOUS
  <2>4. ~\E q : Handle(q)
    <3> SUFFICES ASSUME NEW q, Handle(q) PROVE FALSE
      OBVIOUS
    <3>1. q \in sent /\ \E a : Reply(q, a)
      BY DEF Handle
    <3>2. PICK a : Reply(q, a)
      BY <3>1
    <3>3. r = [q EXCEPT !.answer = a]
      BY <3>2 DEF Reply
    <3>4. Asking(q, acts)
      BY <1>1, <3>1 DEF KanbanInv
    <3>5. r.n = q.n /\ q.n \in Nat /\ q.n <= acts
      BY <3>3, <3>4 DEF Asking
    <3> QED
      BY <2>1, <3>5
  <2>5. ~\E q : Landed(q) \/ Failed(q)
    <3> SUFFICES ASSUME NEW q, Landed(q) \/ Failed(q) PROVE FALSE
      OBVIOUS
    <3>1. r = Request(q.n, "load", NoLane)
      BY DEF Landed, Failed
    <3> QED
      BY <3>1, RequestFields
  <2>6. PICK k \in 1..Len(lanes) : \E x : DropLane(k, x)
    <3>1. ~AddLane /\ ~\E k \in 1..Len(lanes) : DeleteLane(k)
      BY <2>2 DEF AddLane, DeleteLane
    <3>2. ~\E x : DropCard(x)
      BY <2>2 DEF DropCard
    <3>3. ~Scroll /\ ~RailMoves /\ ~Measured /\ ~LaneEditedElsewhere /\ ~UNCHANGED kanban
      BY <2>3 DEF Scroll, RailMoves, Measured, LaneEditedElsewhere, kanban
    <3>4. ~\E k \in 1..Len(lanes) : LaidOut(k)
      BY <2>3 DEF LaidOut
    <3> QED
      BY <1>1, <2>4, <2>5, <3>1, <3>2, <3>3, <3>4 DEF KanbanNext
  <2>7. /\ lanes' \in Orders /\ ToSet(lanes') = ToSet(lanes)
        /\ Without(lanes', lanes[k]) = Without(lanes, lanes[k])
    BY <1>1, <2>6, DropLaneKeeps
  <2>8. r.of = lanes'
    BY <2>2, <2>6 DEF DropLane
  <2>9. lanes[k] \in ToSet(lanes)
    BY <1>1, OrderFacts DEF KanbanInv, KanbanType, ToSet
  <2> QED
    BY <2>7, <2>8, <2>9 DEF Orders, MovesOne
<1>2. KanbanInv /\ [KanbanNext]_kanban => [Good]_kanban
  BY <1>1
<1> HIDE DEF Good
<1>3. KanbanSpec => [][Good]_kanban
  BY <1>2, KanbanStart, KanbanStep, PTL DEF KanbanSpec
<1> QED
  BY <1>3 DEF ReorderKeepsLanes, Good

-----------------------------------------------------------------------------
(* All of them.  What the user is busy with takes the steps of its own module, and    *)
(* the rest stutters: the whole client implements each of its parts.                  *)

LEMMA PartsRun ==
    Spec => SessionSpec /\ HomeSpec /\ KanbanSpec /\ PanelSpec /\ PreferencesSpec /\ ShellSpec
<1>1. Init => /\ SessionInit /\ HomeInit /\ KanbanInit /\ PanelInit /\ PreferencesInit /\ ShellInit
  BY DEF Init
<1>2. [Next]_all => [SessionNext \/ BootOverride \/ Crash]_session
  BY DEF Next, all, parts, BootTogether, KilledTogether, SessionNext
<1>3. [Next]_all => [HomeNext]_home
  BY DEF Next, all, parts
<1>4. [Next]_all => [KanbanNext]_kanban
  BY DEF Next, all, parts
<1>5. [Next]_all => [PanelNext]_panelVars
  BY DEF Next, all, parts
<1>6. [Next]_all => [PreferencesNext]_preferences
  BY DEF Next, all, parts
<1>7. [Next]_all => [ShellNext]_shell
  BY DEF Next, all, parts
<1> QED
  BY <1>1, <1>2, <1>3, <1>4, <1>5, <1>6, <1>7, PTL
     DEF Spec, SessionSpec, HomeSpec, KanbanSpec, PanelSpec, PreferencesSpec, ShellSpec

\* The client as it is run: whatever the user is busy with, and with the boot and the
\* kill shared by session and address, what was shown of each part holds of the whole.
THEOREM ClientIsSafe ==
    Spec => /\ [](SessionCoherent /\ RestartRestores /\ RestartKeepsServer)
            /\ [](SpinnersHaveCause /\ PanelInView /\ PreferencesKept /\ NoDeadSearch)
            /\ []DropLandsUnderPointer /\ ReorderKeepsLanes
BY PartsRun, SessionStaysCoherent, RestartRestoresSession, RestartKeepsAddress, NothingSpinsForever,
   PanelStaysInView, PreferencesSurviveRestart, SearchStaysLive, DropLandsInLane,
   ReorderMovesOneLane, PTL
=============================================================================
