----------------------------- MODULE BoardRoom -----------------------------
(***************************************************************************)
(* One board's live room in presence-service: the socket handler            *)
(* board_socket (services/presence/app/main.py), which registers a           *)
(* connection with the hub (hub.py), joins it to the presence roster in       *)
(* Redis (store.py), keeps it alive on heartbeats and takes it out again.    *)
(* Every await is a place where the handlers of other connections run, so    *)
(* each Redis command and each hold of the hub's lock is a step.             *)
(*                                                                         *)
(* A connection is one socket, and never comes back: a client that reconnects *)
(* is another connection.  Time passes in ticks.                             *)
(***************************************************************************)
EXTENDS Integers

CONSTANTS
    Conns,
    PresenceTTL,  \* settings.presence_ttl_seconds, in ticks
    IndexTTL,     \* the index's own expiry (four times presence_ttl)
    MaxFaults,    \* bound: Redis errors and service crashes in a behaviour
    Timely,       \* TRUE: clients heartbeat within PresenceTTL, and no tick
                  \* falls inside a handler's run of commands
    SafeJoin,     \* TRUE: no fault strikes at the subscription or between
                  \* SADD and EXPIRE of a join
    None

ASSUME RoomConstants ==
    /\ PresenceTTL \in Nat \ {0}
    /\ IndexTTL \in Nat /\ IndexTTL >= PresenceTTL
    /\ MaxFaults \in Nat
    /\ Timely \in BOOLEAN /\ SafeJoin \in BOOLEAN
    /\ None \notin Conns

VARIABLES
    pc,          \* where each connection's handler stands
    leaving,     \* connections whose handler is in its finally clause
    alive,       \* connections whose client is there
    registered,  \* hub._boards[board]
    subscribed,  \* whether the hub's pub/sub is subscribed to the board
    leaked,      \* history: subscribed only because an unsubscribe failed
    hubLock,     \* hub._lock: the handler inside it
    key,         \* ticks left of presence:{board}:{conn}, 0 when absent
    index,       \* presence:index:{board}
    indexTtl,    \* ticks left of the index
    scan,        \* list_presence in progress: members still to look up
    stale,       \* the member list_presence found expired and will remove
    faults

hub == <<registered, subscribed, leaked, hubLock>>
redis == <<key, index, indexTtl>>
vars == <<pc, leaving, alive, hub, redis, scan, stale, faults>>

NoExpiry == -1

Joining == {"joinKey", "joinIndex", "joinExpire"}
Listening == {"open", "beatKey", "beatExpire"}
Finally == {"leaveKey", "leaveIndex", "hubRemove", "unsubscribe"}
Pushing == {"list", "get", "prune", "push"}  \* list_presence and its broadcast
Ended == {"gone", "died"}

TypeOK ==
    /\ pc \in [Conns -> {"off", "hubAdd", "subscribe"} \cup Joining \cup Listening
                        \cup Finally \cup Pushing \cup Ended]
    /\ leaving \subseteq Conns /\ alive \subseteq Conns /\ registered \subseteq Conns
    /\ subscribed \in BOOLEAN /\ leaked \in BOOLEAN
    /\ hubLock \in Conns \cup {None}
    /\ key \in [Conns -> 0..PresenceTTL]
    /\ index \subseteq Conns
    /\ indexTtl \in {NoExpiry} \cup 0..IndexTTL
    /\ scan \in [Conns -> SUBSET Conns]
    /\ stale \in [Conns -> Conns \cup {None}]
    /\ faults \in 0..MaxFaults

Init ==
    /\ pc = [c \in Conns |-> "off"]
    /\ leaving = {} /\ alive = {} /\ registered = {}
    /\ subscribed = FALSE /\ leaked = FALSE
    /\ hubLock = None
    /\ key = [c \in Conns |-> 0]
    /\ index = {} /\ indexTtl = 0
    /\ scan = [c \in Conns |-> {}]
    /\ stale = [c \in Conns |-> None]
    /\ faults = 0

At(c, step) == pc[c] = step
Goto(c, step) == pc' = [pc EXCEPT ![c] = step]

\* The index holds the members S; Redis drops a set that becomes empty.
SetIndex(S, t) == index' = S /\ indexTtl' = IF S = {} THEN 0 ELSE t

\* EXPIRE of the index: nothing when there is none.
ExpireIndex == SetIndex(index, IndexTTL)

SetKey(c, t) == key' = [key EXCEPT ![c] = t]

-----------------------------------------------------------------------------
\* The handler accepted the socket of an authorized client.
Connect(c) ==
    /\ At(c, "off")
    /\ alive' = alive \cup {c}
    /\ Goto(c, "hubAdd")
    /\ UNCHANGED <<leaving, hub, redis, scan, stale, faults>>

HubAddUnlocked(c) ==  \* mutant: Hub.add without async with self._lock
    /\ At(c, "hubAdd")
    /\ registered' = registered \cup {c}
    /\ Goto(c, IF registered = {} THEN "subscribe" ELSE "joinKey")
    /\ UNCHANGED <<leaving, alive, subscribed, leaked, hubLock, redis, scan, stale, faults>>

\* Hub.add: register, and subscribe when it is the board's first socket.
HubAdd(c) ==
    /\ At(c, "hubAdd") /\ hubLock = None
    /\ registered' = registered \cup {c}
    /\ IF registered = {}
       THEN hubLock' = c /\ Goto(c, "subscribe")
       ELSE UNCHANGED hubLock /\ Goto(c, "joinKey")
    /\ UNCHANGED <<leaving, alive, subscribed, leaked, redis, scan, stale, faults>>

Subscribe(c) ==
    /\ At(c, "subscribe")
    /\ subscribed' = TRUE /\ leaked' = FALSE
    /\ hubLock' = None
    /\ Goto(c, "joinKey")
    /\ UNCHANGED <<leaving, alive, registered, redis, scan, stale, faults>>

JoinNoExpire(c) ==  \* mutant: the index gets no expiry
    /\ \/ At(c, "joinKey") /\ SetKey(c, PresenceTTL) /\ Goto(c, "joinIndex")
          /\ UNCHANGED <<index, indexTtl>>
       \/ At(c, "joinIndex") /\ Goto(c, "list")
          /\ SetIndex(index \cup {c}, IF index = {} THEN NoExpiry ELSE indexTtl)
          /\ UNCHANGED key
    /\ UNCHANGED <<leaving, alive, hub, scan, stale, faults>>

\* PresenceStore.join: SET key EX, SADD index, EXPIRE index.
Join(c) ==
    /\ \/ At(c, "joinKey") /\ SetKey(c, PresenceTTL) /\ Goto(c, "joinIndex")
          /\ UNCHANGED <<index, indexTtl>>
       \/ At(c, "joinIndex") /\ Goto(c, "joinExpire")
          /\ SetIndex(index \cup {c}, IF index = {} THEN NoExpiry ELSE indexTtl)
          /\ UNCHANGED key
       \/ At(c, "joinExpire") /\ ExpireIndex /\ Goto(c, "list") /\ UNCHANGED key
    /\ UNCHANGED <<leaving, alive, hub, scan, stale, faults>>

\* PresenceStore.list_presence: SMEMBERS, then GET of each; a member whose key
\* is gone is removed from the index by a command of its own.
ListPresence(c) ==
    /\ \/ /\ At(c, "list")
          /\ scan' = [scan EXCEPT ![c] = index]
          /\ Goto(c, "get")
          /\ UNCHANGED <<redis, stale>>
       \/ /\ At(c, "get") /\ scan[c] # {}
          /\ \E m \in scan[c] :
               /\ scan' = [scan EXCEPT ![c] = @ \ {m}]
               /\ IF key[m] > 0
                  THEN UNCHANGED <<pc, stale>>
                  ELSE stale' = [stale EXCEPT ![c] = m] /\ Goto(c, "prune")
          /\ UNCHANGED redis
       \/ /\ At(c, "prune")
          /\ SetIndex(index \ {stale[c]}, indexTtl)
          /\ stale' = [stale EXCEPT ![c] = None]
          /\ Goto(c, "get")
          /\ UNCHANGED <<key, scan>>
    /\ UNCHANGED <<leaving, alive, hub, faults>>

\* The unsubscribe after a board's last socket: if it fails nobody hears of it
\* (contextlib.suppress), and the channel stays.
DropChannel ==
    \/ subscribed' = FALSE /\ leaked' = FALSE /\ UNCHANGED faults
    \/ /\ faults < MaxFaults /\ faults' = faults + 1
       /\ leaked' = subscribed /\ UNCHANGED subscribed

\* Hub.broadcast of the roster: the sockets it finds dead are removed, and the
\* board unsubscribed if none is left.
PushPresence(c) ==
    /\ At(c, "get") /\ scan[c] = {}
    /\ hubLock = None \/ registered \subseteq alive
    /\ registered' = registered \cap alive
    /\ IF registered # {} /\ registered' = {}
       THEN DropChannel
       ELSE UNCHANGED <<subscribed, leaked, faults>>
    /\ Goto(c, IF c \in leaving THEN "gone" ELSE "open")
    /\ UNCHANGED <<leaving, alive, hubLock, redis, scan, stale>>

\* A board event (Hub._run) or a typing frame is broadcast and finds dead sockets.
Dispatch ==
    /\ hubLock = None
    /\ ~(registered \subseteq alive)
    /\ registered' = registered \cap alive
    /\ IF registered' = {} THEN DropChannel ELSE UNCHANGED <<subscribed, leaked, faults>>
    /\ UNCHANGED <<pc, leaving, alive, hubLock, redis, scan, stale>>

HeartbeatKeyOnly(c) ==  \* mutant: the index is not kept alive with the key
    /\ \/ At(c, "open") /\ c \in alive /\ key[c] < PresenceTTL /\ Goto(c, "beatKey")
          /\ UNCHANGED redis
       \/ At(c, "beatKey") /\ SetKey(c, PresenceTTL) /\ Goto(c, "open")
          /\ UNCHANGED <<index, indexTtl>>
    /\ UNCHANGED <<leaving, alive, hub, scan, stale, faults>>

\* A ping: PresenceStore.heartbeat, SET key EX then EXPIRE index.  A client
\* pings at most once a tick.
Heartbeat(c) ==
    /\ \/ At(c, "open") /\ c \in alive /\ key[c] < PresenceTTL /\ Goto(c, "beatKey")
          /\ UNCHANGED redis
       \/ At(c, "beatKey") /\ SetKey(c, PresenceTTL) /\ Goto(c, "beatExpire")
          /\ UNCHANGED <<index, indexTtl>>
       \/ At(c, "beatExpire") /\ ExpireIndex /\ Goto(c, "open") /\ UNCHANGED key
    /\ UNCHANGED <<leaving, alive, hub, scan, stale, faults>>

\* The client closes or vanishes; its handler finds out at the next receive.
Vanish(c) ==
    /\ c \in alive
    /\ alive' = alive \ {c}
    /\ UNCHANGED <<pc, leaving, hub, redis, scan, stale, faults>>

LeaveIndexOnly(c) ==  \* mutant: the presence key is left to expire
    /\ \/ At(c, "open") /\ c \notin alive /\ Goto(c, "leaveIndex")
          /\ leaving' = leaving \cup {c} /\ UNCHANGED redis
       \/ At(c, "leaveIndex") /\ SetIndex(index \ {c}, indexTtl) /\ Goto(c, "hubRemove")
          /\ UNCHANGED <<leaving, key>>
    /\ UNCHANGED <<alive, hub, scan, stale, faults>>

\* The finally clause: PresenceStore.leave, DEL key then SREM index.
Leave(c) ==
    /\ \/ At(c, "open") /\ c \notin alive /\ Goto(c, "leaveKey")
          /\ leaving' = leaving \cup {c} /\ UNCHANGED redis
       \/ At(c, "leaveKey") /\ SetKey(c, 0) /\ Goto(c, "leaveIndex")
          /\ UNCHANGED <<leaving, index, indexTtl>>
       \/ At(c, "leaveIndex") /\ SetIndex(index \ {c}, indexTtl) /\ Goto(c, "hubRemove")
          /\ UNCHANGED <<leaving, key>>
    /\ UNCHANGED <<alive, hub, scan, stale, faults>>

HubRemoveKeepsChannel(c) ==  \* mutant: no unsubscribe after the last socket
    /\ At(c, "hubRemove") /\ hubLock = None
    /\ registered' = registered \ {c}
    /\ Goto(c, "list")
    /\ UNCHANGED <<leaving, alive, subscribed, leaked, hubLock, redis, scan, stale, faults>>

\* Hub.remove: forget the socket, and unsubscribe after the board's last one.
HubRemove(c) ==
    /\ At(c, "hubRemove") /\ hubLock = None
    /\ registered' = registered \ {c}
    /\ IF registered = {c}
       THEN hubLock' = c /\ Goto(c, "unsubscribe")
       ELSE UNCHANGED hubLock /\ Goto(c, "list")
    /\ UNCHANGED <<leaving, alive, subscribed, leaked, redis, scan, stale, faults>>

Unsubscribe(c) ==
    /\ At(c, "unsubscribe")
    /\ DropChannel
    /\ hubLock' = None
    /\ Goto(c, "list")
    /\ UNCHANGED <<leaving, alive, registered, redis, scan, stale>>

\* A Redis command raises.  Before the receive loop nothing cleans up, nor in
\* the finally clause; a ping that fails ends the loop.  The socket closes.
RedisFails(c) ==
    /\ faults < MaxFaults
    /\ SafeJoin => pc[c] \notin {"subscribe", "joinExpire"}
    /\ pc[c] \in {"subscribe"} \cup Joining \cup Pushing \cup {"beatKey", "beatExpire", "leaveKey", "leaveIndex"}
    /\ faults' = faults + 1
    /\ IF pc[c] \in Listening
       THEN Goto(c, "leaveKey") /\ leaving' = leaving \cup {c}
       ELSE Goto(c, "died") /\ UNCHANGED leaving
    /\ alive' = alive \ {c}
    /\ hubLock' = IF hubLock = c THEN None ELSE hubLock
    /\ scan' = [scan EXCEPT ![c] = {}]
    /\ stale' = [stale EXCEPT ![c] = None]
    /\ UNCHANGED <<registered, subscribed, leaked, redis>>

\* The service process dies with all its sockets; Redis keeps what it has.
Crash ==
    /\ faults < MaxFaults
    /\ \E c \in Conns : pc[c] \notin {"off"} \cup Ended
    /\ SafeJoin => \A c \in Conns : pc[c] # "joinExpire"
    /\ faults' = faults + 1
    /\ pc' = [c \in Conns |-> IF pc[c] \in {"off", "gone"} THEN pc[c] ELSE "died"]
    /\ alive' = {} /\ registered' = {} /\ hubLock' = None
    /\ subscribed' = FALSE /\ leaked' = FALSE
    /\ scan' = [c \in Conns |-> {}]
    /\ stale' = [c \in Conns |-> None]
    /\ UNCHANGED <<leaving, redis>>

Tick ==
    /\ indexTtl > 0 \/ \E c \in Conns : key[c] > 0
    /\ Timely => \A c \in Conns :
                    /\ pc[c] \in {"off", "open"} \cup Ended
                    /\ At(c, "open") /\ c \in alive => key[c] > 1
    /\ key' = [c \in Conns |-> IF key[c] > 0 THEN key[c] - 1 ELSE 0]
    /\ SetIndex(IF indexTtl = 1 THEN {} ELSE index,
                IF indexTtl > 0 THEN indexTtl - 1 ELSE indexTtl)
    /\ UNCHANGED <<pc, leaving, alive, hub, scan, stale, faults>>

Handler(c) ==
    \/ HubAdd(c) \/ Subscribe(c) \/ Join(c) \/ ListPresence(c) \/ PushPresence(c)
    \/ Leave(c) \/ HubRemove(c) \/ Unsubscribe(c)

Next ==
    \/ \E c \in Conns : Connect(c) \/ Handler(c) \/ Heartbeat(c) \/ Vanish(c) \/ RedisFails(c)
    \/ Dispatch
    \/ Crash
    \/ Tick

Spec == Init /\ [][Next]_vars

\* Handlers run, connected clients ping, and time passes.
FairRoom == WF_vars(\E c \in Conns : Handler(c) \/ Heartbeat(c)) /\ WF_vars(Tick)

-----------------------------------------------------------------------------
\* The handlers that are past Hub.add and not yet at Hub.remove.
Inside == Joining \cup Listening \cup {"leaveKey", "leaveIndex"}

(* A live viewer hears the board: from the end of Hub.add its socket is      *)
(* registered and the board's channel subscribed, however the adds and       *)
(* removes of other sockets interleave.                                      *)
ViewersAreHeard ==
    \A c \in alive : pc[c] \in Inside => c \in registered /\ subscribed

(* The hub listens to a board exactly while it has a socket for it, but for  *)
(* the channel an unsubscribe that failed has left behind (hub.py:59); the   *)
(* next viewer takes that over, and its departure gives it up.               *)
HubCoherent == hubLock = None => (subscribed <=> registered # {} \/ leaked)

(* store.py:50 "an active connection never looks stale": while its client    *)
(* pings in time, an open connection has its key and is in the index.        *)
SteadyViewerListed ==
    Timely => \A c \in alive : pc[c] \in Listening => key[c] > 0 /\ c \in index

(* A connection whose handler ran to its end leaves nothing behind.          *)
LeftIsGone ==
    \A c \in Conns : pc[c] = "gone" => key[c] = 0 /\ c \notin index \cup registered

(* store.py:43 the index "dies with" its connections: once nobody is on the  *)
(* board any more, crashed or not, the index ends up empty.                  *)
IndexDies == <>[](alive = {}) => <>[](index = {})
=============================================================================
