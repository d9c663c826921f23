------------------------------ MODULE EditLock ------------------------------
(***************************************************************************)
(* The thirty-second edit lock of one card: PresenceStore.acquire_lock and  *)
(* release_lock (services/presence/app/store.py), split at their Redis      *)
(* commands, called by the REST routes and by the "lock" and "unlock"       *)
(* frames of the board socket (main.py), with the lock_state broadcast the  *)
(* socket handler ends with and what the clients show of it.                *)
(*                                                                         *)
(* A session is one open client of one user: two tabs are two sessions.     *)
(* One tick is an abstract unit of time; LockTTL ticks stand for            *)
(* card_lock_ttl_seconds.  A REST route first checks access to the item and *)
(* a frame that the item is on the socket's board; both only read, and a    *)
(* request they refuse never starts here.                                   *)
(***************************************************************************)
EXTENDS Integers

CONSTANTS
    Sessions,        \* open clients
    Users,
    Owner,           \* the user each session is signed in as
    SocketSessions,  \* sessions that lock over the board socket, not over REST
    LockTTL,         \* settings.card_lock_ttl_seconds, in ticks
    Prompt,          \* TRUE: no tick falls between a request's GET and the
                     \* command it sends on the strength of that GET
    NoUser

ASSUME LockConstants ==
    /\ Owner \in [Sessions -> Users]
    /\ SocketSessions \subseteq Sessions
    /\ LockTTL \in Nat \ {0}
    /\ Prompt \in BOOLEAN
    /\ NoUser \notin Users

VARIABLES
    holder,  \* value of the key lock:item:{id}, NoUser when the key is absent
    ttl,     \* ticks until Redis expires the key
    lockPc,      \* the next Redis command, or broadcast, of each session's request
    lease,   \* ticks left of the last "granted" answer the session has
    shown    \* locks[itemId].lockedBy in useBoardSocket, per session

lockVars == <<holder, ttl, lockPc, lease, shown>>

Steps == {"idle", "set", "get", "expire", "ttl", "releaseGet", "delete",
          "announceLock", "announceUnlock"}

\* Between reading the holder and acting on what was read.
Committed == {"expire", "delete"}

LockTypeOK ==
    /\ holder \in Users \cup {NoUser}
    /\ ttl \in 0..LockTTL
    /\ lockPc \in [Sessions -> Steps]
    /\ lease \in [Sessions -> 0..LockTTL]
    /\ shown \in [Sessions -> Users \cup {NoUser}]

LockInit ==
    /\ holder = NoUser
    /\ ttl = 0
    /\ lockPc = [s \in Sessions |-> "idle"]
    /\ lease = [s \in Sessions |-> 0]
    /\ shown = [s \in Sessions |-> NoUser]

Proceed(s, step) == lockPc' = [lockPc EXCEPT ![s] = step]

\* {granted: TRUE, ttl: lock_ttl} reaches the session.  The socket handler
\* goes on to broadcast; lock_result clears the caller's own indicator, since
\* the client reads locked_by, a field that frame does not have.
Granted(s) ==
    /\ lease' = [lease EXCEPT ![s] = LockTTL]
    /\ IF s \in SocketSessions
       THEN Proceed(s, "announceLock") /\ shown' = [shown EXCEPT ![s] = NoUser]
       ELSE Proceed(s, "idle") /\ UNCHANGED shown

RequestLock(s) ==
    /\ lockPc[s] = "idle"
    /\ Proceed(s, "set")
    /\ UNCHANGED <<holder, ttl, lease, shown>>

SetNXForgetsExpiry(s) ==  \* mutant: SET NX without EX
    /\ lockPc[s] = "set"
    /\ IF holder = NoUser
       THEN holder' = Owner[s] /\ ttl' = 0 /\ Granted(s)
       ELSE Proceed(s, "get") /\ UNCHANGED <<holder, ttl, lease, shown>>

SetAlways(s) ==  \* mutant: SET EX without NX
    /\ lockPc[s] = "set"
    /\ holder' = Owner[s]
    /\ ttl' = LockTTL
    /\ Granted(s)

\* SET key user NX EX lock_ttl
SetNX(s) ==
    /\ lockPc[s] = "set"
    /\ IF holder = NoUser
       THEN holder' = Owner[s] /\ ttl' = LockTTL /\ Granted(s)
       ELSE Proceed(s, "get") /\ UNCHANGED <<holder, ttl, lease, shown>>

RefreshAnyone(s) ==  \* mutant: the holder is not compared with the caller
    /\ lockPc[s] = "get"
    /\ Proceed(s, "expire")
    /\ UNCHANGED <<holder, ttl, lease, shown>>

GetHolder(s) ==
    /\ lockPc[s] = "get"
    /\ Proceed(s, IF holder = Owner[s] THEN "expire" ELSE "ttl")
    /\ UNCHANGED <<holder, ttl, lease, shown>>

\* EXPIRE key lock_ttl: touches whatever the key holds by now.
Refresh(s) ==
    /\ lockPc[s] = "expire"
    /\ ttl' = IF holder = NoUser THEN 0 ELSE LockTTL
    /\ Granted(s)
    /\ UNCHANGED holder

\* TTL key, then the answer {granted: FALSE}: 423 on REST, lock_result on the
\* socket, which leaves the indicator as it was.
Denied(s) ==
    /\ lockPc[s] = "ttl"
    /\ Proceed(s, "idle")
    /\ UNCHANGED <<holder, ttl, lease, shown>>

\* The session stops counting on the lock when it asks for the release.
RequestRelease(s) ==
    /\ lockPc[s] = "idle"
    /\ Proceed(s, "releaseGet")
    /\ lease' = [lease EXCEPT ![s] = 0]
    /\ UNCHANGED <<holder, ttl, shown>>

ReleaseUnchecked(s) ==  \* mutant: DELETE without the ownership test
    /\ lockPc[s] = "releaseGet"
    /\ Proceed(s, IF holder # NoUser THEN "delete" ELSE "idle")
    /\ UNCHANGED <<holder, ttl, lease, shown>>

ReleaseGet(s) ==
    /\ lockPc[s] = "releaseGet"
    /\ Proceed(s, IF holder = Owner[s] THEN "delete" ELSE "idle")
    /\ UNCHANGED <<holder, ttl, lease, shown>>

Delete(s) ==
    /\ lockPc[s] = "delete"
    /\ holder' = NoUser
    /\ ttl' = 0
    /\ Proceed(s, IF s \in SocketSessions THEN "announceUnlock" ELSE "idle")
    /\ UNCHANGED <<lease, shown>>

\* hub.broadcast(lock_state): to everyone else on a lock, to all on an unlock.
Announce(s) ==
    /\ \/ /\ lockPc[s] = "announceLock"
          /\ shown' = [t \in Sessions |-> IF t = s THEN shown[t] ELSE Owner[s]]
       \/ /\ lockPc[s] = "announceUnlock"
          /\ shown' = [t \in Sessions |-> NoUser]
    /\ Proceed(s, "idle")
    /\ UNCHANGED <<holder, ttl, lease>>

\* The client goes away, or the service dies under the request: the rest of
\* the request is not executed and its answer is lost.
Abandon(s) ==
    /\ lockPc[s] # "idle" \/ lease[s] > 0
    /\ Proceed(s, "idle")
    /\ lease' = [lease EXCEPT ![s] = 0]
    /\ UNCHANGED <<holder, ttl, shown>>

LockTick ==
    /\ ttl > 0 \/ \E s \in Sessions : lease[s] > 0
    /\ Prompt => \A s \in Sessions : lockPc[s] \notin Committed
    /\ ttl' = IF ttl > 0 THEN ttl - 1 ELSE 0
    /\ holder' = IF ttl = 1 THEN NoUser ELSE holder
    /\ lease' = [s \in Sessions |-> IF lease[s] > 0 THEN lease[s] - 1 ELSE 0]
    /\ UNCHANGED <<lockPc, shown>>

\* What the service does by itself once a request has reached it.
Serve(s) ==
    \/ SetNX(s) \/ GetHolder(s) \/ Refresh(s) \/ Denied(s)
    \/ ReleaseGet(s) \/ Delete(s) \/ Announce(s)

LockNext ==
    \/ \E s \in Sessions : RequestLock(s) \/ RequestRelease(s) \/ Serve(s) \/ Abandon(s)
    \/ LockTick

LockSpec == LockInit /\ [][LockNext]_lockVars

\* The service answers what it received and time passes; users are free.
FairLock == WF_lockVars(LockTick) /\ \A s \in Sessions : WF_lockVars(Serve(s))

-----------------------------------------------------------------------------
\* One request at a time per user, none outliving the key it has just read.
Serial ==
    /\ Prompt
    /\ \A s, t \in Sessions : Owner[s] = Owner[t] => s = t

Editing == {Owner[s] : s \in {t \in Sessions : lease[t] > 0}}

Abstract == INSTANCE LeaseService WITH owner <- holder, editors <- Editing

(* main.py:4 "edit locks that stop two people clobbering the same card": of *)
(* the sessions told "granted" whose time is not up, none has lost the key, *)
(* so that no two users edit at once, and the key outlives each of them.    *)
LeaseBacked ==
    Serial => \A s \in Sessions :
                 lease[s] > 0 => holder = Owner[s] /\ lease[s] <= ttl

(* An abandoned lock heals without a janitor: every key has an expiry.      *)
LockExpires == holder # NoUser <=> ttl > 0

(* store.py:102 "Release only if the caller owns the lock (no stealing)".   *)
NoStealing ==
    [][\A s \in Sessions : Delete(s) => holder \in {NoUser, Owner[s]}]_lockVars

(* With serial requests the Redis protocol implements the atomic lease.     *)
ImplementsLease == Abstract!Spec

(* A user whose sessions have all gone quiet loses the lock for good, even  *)
(* when its release request was lost and whatever the other users do.       *)
AbandonedLockFrees ==
    \A u \in Users :
        <>[](\A s \in Sessions : Owner[s] = u => lockPc[s] = "idle") => <>[](holder # u)
=============================================================================
