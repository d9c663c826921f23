-------------------------------- MODULE Session --------------------------------
(***************************************************************************)
(* The signed-in session of the app (AuthContext.tsx): who the token and the *)
(* shown user belong to, their two keys in on-device storage, the boot that  *)
(* restores them and asks /me, the sign-in screens and the profile panel.    *)
(* A token or a user is represented by the account it belongs to.            *)
(***************************************************************************)
EXTENDS Naturals, Sequences

CONSTANTS
    Accounts,   \* people who sign in on this device
    Nobody,     \* null
    MaxCalls,   \* bound: sign-ins and profile saves
    MaxCrashes  \* bound: times the app is killed

ASSUME SessionConstants ==
    Nobody \notin Accounts /\ MaxCalls \in Nat /\ MaxCrashes \in Nat

VARIABLES
    boot,     \* "override", "read", "me", "drop" or "done" (booting = FALSE)
    me,       \* whose token the /me request of this boot carries
    token,    \* the token of the context and of api/client.ts
    user,     \* the user of the context
    tokenKey, \* collaberry.token on disk
    userKey,  \* collaberry.user on disk
    writes,   \* persists that have not finished, oldest first
    calls,    \* sign-ins and profile saves sent and not answered
    made,     \* calls made so far
    crashes,  \* kills so far
    mixed,    \* history: /me was answered for a session that had been replaced,
              \* or this session was restored from torn keys
    torn      \* history: a kill left the two keys of different persists on disk

session == <<boot, me, token, user, tokenKey, userKey, writes, calls, made, crashes, mixed, torn>>

Holders == Accounts \cup {Nobody}

SessionInit ==
    /\ boot = "override" /\ me = Nobody
    /\ token = Nobody /\ user = Nobody
    /\ tokenKey \in Holders /\ userKey = tokenKey
    /\ writes = <<>> /\ calls = {} /\ made = 0 /\ crashes = 0
    /\ mixed = FALSE /\ torn = FALSE

PersistToken(a) ==  \* mutant: the profile save applies the token without its user
    /\ token' = a /\ mixed' = FALSE
    /\ writes' = Append(writes, [who |-> a, step |-> 1])
    /\ UNCHANGED user

\* persist: memory at once, then the token's key and the user's key in turn.
PersistSession(a) ==
    /\ token' = a /\ user' = a /\ mixed' = FALSE
    /\ writes' = Append(writes, [who |-> a, step |-> 1])

\* Storage runs the writes of a key in the order they were issued, but those of two
\* persists may alternate: the user's key of the first is written when the token's
\* key of the second may be already.
WriteTokenKey ==
    \E i \in 1..Len(writes) :
      /\ writes[i].step = 1
      /\ \A j \in 1..(i - 1) : writes[j].step = 2
      /\ tokenKey' = writes[i].who
      /\ writes' = [writes EXCEPT ![i].step = 2]
      /\ UNCHANGED <<boot, me, token, user, userKey, calls, made, crashes, mixed, torn>>

WriteUserKeyUnlessGone ==  \* mutant: removing the session leaves the user's key
    /\ writes # <<>> /\ Head(writes).step = 2
    /\ userKey' = IF Head(writes).who = Nobody THEN userKey ELSE Head(writes).who
    /\ writes' = Tail(writes)
    /\ torn' = (torn /\ Len(writes) > 1)
    /\ UNCHANGED <<boot, me, token, user, tokenKey, calls, made, crashes, mixed>>

WriteUserKey ==
    /\ writes # <<>> /\ Head(writes).step = 2
    /\ userKey' = Head(writes).who
    /\ writes' = Tail(writes)
    /\ torn' = (torn /\ Len(writes) > 1)
    /\ UNCHANGED <<boot, me, token, user, tokenKey, calls, made, crashes, mixed>>

DiskWrite == WriteTokenKey \/ WriteUserKey

\* loadServerOverride comes first, so that /me asks the right backend.
BootOverride ==
    /\ boot = "override" /\ boot' = "read"
    /\ UNCHANGED <<me, token, user, tokenKey, userKey, writes, calls, made, crashes, mixed, torn>>

\* Both keys there: they become the session and /me is asked about it.
BootRead ==
    /\ boot = "read"
    /\ IF tokenKey # Nobody /\ userKey # Nobody
       THEN token' = tokenKey /\ user' = userKey /\ me' = tokenKey /\ boot' = "me" /\ mixed' = torn
       ELSE boot' = "done" /\ UNCHANGED <<token, user, me, mixed>>
    /\ UNCHANGED <<tokenKey, userKey, writes, calls, made, crashes, torn>>

BootMeAnswered ==  \* setUser(fresh), whoever holds the session by now
    /\ boot = "me" /\ boot' = "done"
    /\ user' = me /\ mixed' = (token # me)
    /\ UNCHANGED <<me, token, tokenKey, userKey, writes, calls, made, crashes, torn>>

BootMeRefused ==  \* 401: the session is dropped, and booting waits for the disk
    /\ boot = "me" /\ boot' = "drop"
    /\ PersistSession(Nobody)
    /\ UNCHANGED <<me, tokenKey, userKey, calls, made, crashes, torn>>

BootMeUnhandled ==  \* mutant: only a 401 is caught, and no finally ends the boot
    /\ boot = "me" /\ boot' = "thrown"
    /\ UNCHANGED <<me, token, user, tokenKey, userKey, writes, calls, made, crashes, mixed, torn>>

BootMeFails ==  \* any other failure keeps the cached session
    /\ boot = "me" /\ boot' = "done"
    /\ UNCHANGED <<me, token, user, tokenKey, userKey, writes, calls, made, crashes, mixed, torn>>

BootDropped ==
    /\ boot = "drop" /\ writes = <<>> /\ boot' = "done"
    /\ UNCHANGED <<me, token, user, tokenKey, userKey, writes, calls, made, crashes, mixed, torn>>

Idle(kind) == made < MaxCalls /\ \A c \in calls : c.kind # kind  \* busy, saving

Call(kind, a) ==
    /\ Idle(kind)
    /\ calls' = calls \cup {[kind |-> kind, who |-> a]} /\ made' = made + 1
    /\ UNCHANGED <<boot, me, token, user, tokenKey, userKey, writes, crashes, mixed, torn>>

\* The login and register screens have no guard: their route opens during a boot
\* too (but a sign-in does not overtake the boot's few reads of the disk).
SubmitSignIn(a) ==
    /\ boot = "me" \/ (token = Nobody /\ boot \notin {"override", "read"})
    /\ Call("login", a)

SaveProfile == token # Nobody /\ Call("profile", token)

\* signIn, signUp and applySession persist whatever session they are answered
\* with, even one the user has signed out of since.
CallAnswered(c) ==
    /\ c \in calls /\ calls' = calls \ {c}
    /\ PersistSession(c.who)
    /\ UNCHANGED <<boot, me, tokenKey, userKey, made, crashes, torn>>

CallFails(c) ==
    /\ c \in calls /\ calls' = calls \ {c}
    /\ UNCHANGED <<boot, me, token, user, tokenKey, userKey, writes, made, crashes, mixed, torn>>

SignOut ==
    /\ token # Nobody
    /\ PersistSession(Nobody)
    /\ UNCHANGED <<boot, me, tokenKey, userKey, calls, made, crashes, torn>>

\* The app is killed and started again: only the disk survives.
Crash ==
    /\ crashes < MaxCrashes /\ crashes' = crashes + 1
    /\ boot' = "override" /\ me' = Nobody /\ token' = Nobody /\ user' = Nobody
    /\ writes' = <<>> /\ calls' = {} /\ mixed' = FALSE
    /\ torn' = (torn \/ \E i \in 1..Len(writes) : writes[i].step = 2)
    /\ UNCHANGED <<tokenKey, userKey, made>>

Booting == BootRead \/ BootMeAnswered \/ BootMeRefused \/ BootMeFails \/ BootDropped

SessionNext ==
    \/ DiskWrite \/ Booting \/ SaveProfile \/ SignOut
    \/ \E a \in Accounts : SubmitSignIn(a)
    \/ \E c \in calls : CallAnswered(c) \/ CallFails(c)

SessionSpec == SessionInit /\ [][SessionNext \/ BootOverride \/ Crash]_session

-----------------------------------------------------------------------------
(* Properties *)

\* The token the requests carry and the user the screens show belong to the same
\* account, except after the two races the code leaves open (see README).
SessionCoherent == ~mixed => user = token

\* Once a boot and its writes are over, a restart would restore this session.
RestartRestores ==
    boot = "done" /\ writes = <<>> /\ ~torn => tokenKey = token /\ userKey = token
=============================================================================
