--------------------------- MODULE BoardRoomProofs ---------------------------
(***************************************************************************)
(* Proofs about BoardRoom for any set of connections and any expiry times:   *)
(* the hub listens exactly while it has a socket, or after an unsubscribe    *)
(* that failed, a live viewer is heard, a                                    *)
(* connection that left leaves nothing behind, and a client that pings in     *)
(* time stays on the roster.                                                 *)
(***************************************************************************)
EXTENDS BoardRoom, TLAPS

USE RoomConstants

LEMMA InitTyping == Init => TypeOK
<1> SUFFICES ASSUME Init PROVE TypeOK
  OBVIOUS
<1>1. subscribed \in BOOLEAN /\ leaked \in BOOLEAN
  BY Zenon DEF Init
<1>2. /\ pc \in [Conns -> {"off"}]
      /\ leaving \subseteq Conns /\ alive \subseteq Conns /\ registered \subseteq Conns
      /\ hubLock \in Conns \cup {None}
      /\ key \in [Conns -> 0..PresenceTTL]
      /\ index \subseteq Conns /\ indexTtl \in 0..IndexTTL
      /\ scan \in [Conns -> SUBSET Conns]
      /\ stale \in [Conns -> Conns \cup {None}]
      /\ faults \in 0..MaxFaults
  BY DEF Init
<1> QED
  BY <1>1, <1>2 DEF TypeOK

\* An unsubscribe leaves the channel subscribed only as a leak.
LEMMA DroppedChannel ==
  ASSUME TypeOK, DropChannel
  PROVE  subscribed' \in BOOLEAN /\ leaked' \in BOOLEAN /\ (subscribed' <=> leaked')
         /\ faults' \in 0..MaxFaults
<1>1. subscribed' \in BOOLEAN /\ leaked' \in BOOLEAN /\ (subscribed' <=> leaked')
  <2>1. CASE subscribed' = FALSE /\ leaked' = FALSE
    BY <2>1, Zenon
  <2>2. CASE leaked' = subscribed /\ subscribed' = subscribed
    <3>1. subscribed \in BOOLEAN
      BY DEF TypeOK
    <3> QED
      BY <2>2, <3>1, Zenon
  <2> QED
    BY <2>1, <2>2, Zenon DEF DropChannel
<1>2. faults' = faults \/ (faults < MaxFaults /\ faults' = faults + 1)
  BY Zenon DEF DropChannel
<1>3. CASE faults' = faults
  BY <1>1, <1>3 DEF TypeOK
<1>4. CASE faults < MaxFaults /\ faults' = faults + 1
  <2>1. faults \in 0..MaxFaults
    BY DEF TypeOK
  <2>2. faults' \in 0..MaxFaults
    BY <1>4, <2>1
  <2> QED
    BY <1>1, <2>2
<1> QED
  BY <1>2, <1>3, <1>4

(* Every variable of the room keeps its type.                               *)
THEOREM RoomTyping == Spec => []TypeOK
<1>1. TypeOK /\ [Next]_vars => TypeOK'
  <2> SUFFICES ASSUME TypeOK, [Next]_vars PROVE TypeOK'
    OBVIOUS
  <2> USE DEF TypeOK, At, Goto, SetIndex, SetKey, ExpireIndex, hub, redis,
              NoExpiry, Joining, Listening, Finally, Pushing, Ended
  <2>1. ASSUME NEW c \in Conns, Connect(c) \/ HubAdd(c) \/ Subscribe(c) \/ HubRemove(c)
        PROVE  TypeOK'
    BY <2>1 DEF Connect, HubAdd, Subscribe, HubRemove
  <2>12. ASSUME NEW c \in Conns, Unsubscribe(c) PROVE TypeOK'
    BY <2>12, DroppedChannel DEF Unsubscribe
  <2>2. ASSUME NEW c \in Conns, Join(c) PROVE TypeOK'
    BY <2>2 DEF Join
  <2>3. ASSUME NEW c \in Conns, ListPresence(c) PROVE TypeOK'
    BY <2>3 DEF ListPresence
  <2>4. ASSUME NEW c \in Conns, PushPresence(c) PROVE TypeOK'
    <3>1. subscribed' \in BOOLEAN /\ leaked' \in BOOLEAN
      BY <2>4, DroppedChannel, Zenon DEF PushPresence
    <3>2. faults' \in 0..MaxFaults
      BY <2>4, DroppedChannel DEF PushPresence
    <3>3. /\ registered' = registered \cap alive
          /\ pc' = [pc EXCEPT ![c] = IF c \in leaving THEN "gone" ELSE "open"]
          /\ UNCHANGED <<leaving, alive, hubLock, redis, scan, stale>>
      BY <2>4 DEF PushPresence
    <3> QED
      BY <3>1, <3>2, <3>3
  <2>5. ASSUME NEW c \in Conns, Leave(c) PROVE TypeOK'
    BY <2>5 DEF Leave
  <2>6. ASSUME NEW c \in Conns, Heartbeat(c) \/ Vanish(c) PROVE TypeOK'
    BY <2>6 DEF Heartbeat, Vanish
  <2>7. ASSUME NEW c \in Conns, RedisFails(c) PROVE TypeOK'
    BY <2>7 DEF RedisFails
  <2>8. CASE Dispatch
    <3>1. subscribed' \in BOOLEAN /\ leaked' \in BOOLEAN
      BY <2>8, DroppedChannel, Zenon DEF Dispatch
    <3>2. faults' \in 0..MaxFaults
      BY <2>8, DroppedChannel DEF Dispatch
    <3>3. /\ registered' = registered \cap alive
          /\ UNCHANGED <<pc, leaving, alive, hubLock, redis, scan, stale>>
      BY <2>8 DEF Dispatch
    <3> QED
      BY <3>1, <3>2, <3>3
  <2>9. CASE Crash
    <3>1. subscribed' \in BOOLEAN /\ leaked' \in BOOLEAN
      BY <2>9, Zenon DEF Crash
    <3>2. /\ pc' = [c \in Conns |-> IF pc[c] \in {"off", "gone"} THEN pc[c] ELSE "died"]
          /\ leaving' = leaving /\ alive' = {} /\ registered' = {} /\ hubLock' = None
          /\ UNCHANGED redis
          /\ scan' \in [Conns -> SUBSET Conns]
          /\ stale' \in [Conns -> Conns \cup {None}]
          /\ faults' \in 0..MaxFaults
      BY <2>9 DEF Crash
    <3> QED
      BY <3>1, <3>2
  <2>10. CASE Tick
    BY <2>10 DEF Tick
  <2>11. CASE UNCHANGED vars
    BY <2>11 DEF vars
  <2> QED
    BY <2>1, <2>2, <2>3, <2>4, <2>5, <2>6, <2>7, <2>8, <2>9, <2>10, <2>11, <2>12
       DEF Next, Handler
<1> QED
  BY <1>1, InitTyping, PTL DEF Spec

-----------------------------------------------------------------------------
\* A handler in its finally clause lost its client first, and none starts there.
LeavingIsOver ==
    /\ \A c \in leaving : c \notin alive
    /\ \A c \in Conns :
         /\ pc[c] \in {"off", "hubAdd", "subscribe"} \cup Joining \cup Listening => c \notin leaving
         /\ pc[c] \in Finally \cup {"gone"} => c \in leaving
         /\ pc[c] = "died" => c \notin alive

\* The hub's lock is held over the subscription of a board's only socket, and
\* over the unsubscription after its last one.
LockedIsAlone ==
    \A c \in Conns :
        /\ hubLock = c <=> pc[c] \in {"subscribe", "unsubscribe"}
        /\ pc[c] = "subscribe" => registered = {c}
        /\ pc[c] = "unsubscribe" => registered = {}

\* A live socket is registered all the way from Hub.add to Hub.remove.
LiveIsRegistered ==
    \A c \in alive :
        pc[c] \in {"subscribe"} \cup Inside \cup Pushing => c \in registered

HubInv ==
    TypeOK /\ LeavingIsOver /\ LockedIsAlone /\ LiveIsRegistered /\ (SafeJoin => HubCoherent)

LEMMA InitHub == Init => HubInv
<1> SUFFICES ASSUME Init PROVE HubInv
  OBVIOUS
<1>1. HubCoherent
  BY Zenon DEF Init, HubCoherent
<1>2. LeavingIsOver /\ LockedIsAlone /\ LiveIsRegistered
  BY DEF Init, LeavingIsOver, LockedIsAlone, LiveIsRegistered, Joining, Listening, Finally, Pushing, Inside
<1> QED
  BY <1>1, <1>2, InitTyping DEF HubInv

LEMMA StepHub == HubInv /\ TypeOK' /\ [Next]_vars => HubInv'
<1> SUFFICES ASSUME HubInv, TypeOK', [Next]_vars PROVE HubInv'
  OBVIOUS
<1> USE DEF HubInv, TypeOK, LeavingIsOver, LockedIsAlone, LiveIsRegistered, HubCoherent, At, Goto, hub, redis,
            Joining, Listening, Finally, Pushing, Inside, Ended
<1>1. ASSUME NEW c \in Conns, Connect(c) PROVE HubInv'
  BY <1>1 DEF Connect
<1>2. ASSUME NEW c \in Conns, HubAdd(c) PROVE HubInv'
  BY <1>2 DEF HubAdd
<1>3. ASSUME NEW c \in Conns, Subscribe(c) PROVE HubInv'
  BY <1>3 DEF Subscribe
<1>4. ASSUME NEW c \in Conns, Join(c) PROVE HubInv'
  BY <1>4 DEF Join
<1>5. ASSUME NEW c \in Conns, ListPresence(c) PROVE HubInv'
  BY <1>5 DEF ListPresence
<1>6. ASSUME NEW c \in Conns, PushPresence(c) PROVE HubInv'
  <2>1. registered' = registered \cap alive
    BY <1>6 DEF PushPresence
  <2>2. registered = {} => registered' = {}
    BY <2>1
  <2>3. HubCoherent => HubCoherent'
    <3>1. CASE registered # {} /\ registered' = {}
      BY <1>6, <3>1, DroppedChannel, Zenon DEF PushPresence
    <3>2. CASE ~(registered # {} /\ registered' = {})
      BY <1>6, <2>2, <3>2, Zenon DEF PushPresence
    <3> QED
      BY <3>1, <3>2
  <2>4. /\ pc' = [pc EXCEPT ![c] = IF c \in leaving THEN "gone" ELSE "open"] /\ pc[c] = "get"
        /\ hubLock = None \/ registered' = registered
        /\ UNCHANGED <<leaving, alive, hubLock>>
    BY <1>6, <2>1 DEF PushPresence
  <2>5. LeavingIsOver' /\ LockedIsAlone' /\ LiveIsRegistered'
    BY <2>1, <2>4
  <2> QED
    BY <2>3, <2>5
<1>7. ASSUME NEW c \in Conns, Leave(c) PROVE HubInv'
  BY <1>7 DEF Leave
<1>8. ASSUME NEW c \in Conns, HubRemove(c) PROVE HubInv'
  BY <1>8 DEF HubRemove
<1>9. ASSUME NEW c \in Conns, Unsubscribe(c) PROVE HubInv'
  <2>1. registered = {} /\ registered' = {}
    BY <1>9 DEF Unsubscribe
  <2>2. HubCoherent'
    BY <1>9, <2>1, DroppedChannel, Zenon DEF Unsubscribe
  <2>3. /\ pc' = [pc EXCEPT ![c] = "list"] /\ pc[c] = "unsubscribe" /\ hubLock' = None
        /\ UNCHANGED <<leaving, alive, registered>>
    BY <1>9 DEF Unsubscribe
  <2>4. LeavingIsOver' /\ LockedIsAlone' /\ LiveIsRegistered'
    BY <2>1, <2>3
  <2> QED
    BY <2>2, <2>4
<1>10. ASSUME NEW c \in Conns, Heartbeat(c) PROVE HubInv'
  BY <1>10 DEF Heartbeat
<1>11. ASSUME NEW c \in Conns, Vanish(c) PROVE HubInv'
  BY <1>11 DEF Vanish
<1>12. ASSUME NEW c \in Conns, RedisFails(c) PROVE HubInv'
  BY <1>12 DEF RedisFails
<1>13. CASE Dispatch
  <2>1. registered' = registered \cap alive /\ registered # {}
    BY <1>13 DEF Dispatch
  <2>2. HubCoherent => HubCoherent'
    <3>1. CASE registered' = {}
      BY <1>13, <3>1, DroppedChannel, Zenon DEF Dispatch
    <3>2. CASE registered' # {}
      BY <1>13, <2>1, <3>2, Zenon DEF Dispatch
    <3> QED
      BY <3>1, <3>2
  <2>3. UNCHANGED <<pc, leaving, alive, hubLock>> /\ hubLock = None
    BY <1>13 DEF Dispatch
  <2>4. LeavingIsOver' /\ LockedIsAlone' /\ LiveIsRegistered'
    BY <2>1, <2>3
  <2> QED
    BY <2>2, <2>4
<1>14. CASE Crash
  <2>1. HubCoherent'
    BY <1>14, Zenon DEF Crash
  <2>2. /\ pc' = [c \in Conns |-> IF pc[c] \in {"off", "gone"} THEN pc[c] ELSE "died"]
        /\ leaving' = leaving /\ alive' = {} /\ registered' = {} /\ hubLock' = None
    BY <1>14 DEF Crash
  <2>3. LeavingIsOver' /\ LockedIsAlone' /\ LiveIsRegistered'
    BY <2>2
  <2> QED
    BY <2>1, <2>3
<1>15. CASE Tick
  BY <1>15 DEF Tick
<1>16. CASE UNCHANGED vars
  BY <1>16 DEF vars
<1> QED
  BY <1>1, <1>2, <1>3, <1>4, <1>5, <1>6, <1>7, <1>8, <1>9, <1>10, <1>11, <1>12, <1>13, <1>14, <1>15,
     <1>16 DEF Next, Handler

LEMMA HubInvHolds == Spec => []HubInv
  BY InitHub, StepHub, RoomTyping, PTL DEF Spec

(* The hub is subscribed to a board exactly while it has a socket for it or an *)
(* unsubscribe has failed since it had one, for any number of sockets coming,  *)
(* going and found dead by a broadcast.                                       *)
THEOREM HubListensWhileNeeded == SafeJoin => (Spec => []HubCoherent)
<1> SUFFICES ASSUME SafeJoin PROVE Spec => []HubCoherent
  OBVIOUS
<1>1. HubInv => HubCoherent
  BY DEF HubInv
<1> QED
  BY <1>1, HubInvHolds, PTL

(* A live viewer's socket is registered, and its board's channel subscribed,  *)
(* from the end of Hub.add until the handler removes it.                      *)
THEOREM LiveViewersAreHeard == SafeJoin => (Spec => []ViewersAreHeard)
<1> SUFFICES ASSUME SafeJoin PROVE Spec => []ViewersAreHeard
  OBVIOUS
<1>1. HubInv => ViewersAreHeard
  BY DEF HubInv, TypeOK, LockedIsAlone, LiveIsRegistered, HubCoherent, ViewersAreHeard,
         Inside, Joining, Listening
<1> QED
  BY <1>1, HubInvHolds, PTL
-----------------------------------------------------------------------------
\* What Leave and Hub.remove take away one by one stays away: nobody else sets
\* the key, the index entry or the registration of a connection.
Departed(c) == c \in leaving /\ pc[c] \in Pushing \cup {"gone"}
LeavesNothing ==
    \A c \in Conns :
        /\ pc[c] \in {"leaveIndex", "hubRemove", "unsubscribe"} \/ Departed(c) => key[c] = 0
        /\ pc[c] \in {"hubRemove", "unsubscribe"} \/ Departed(c) => c \notin index
        /\ pc[c] = "unsubscribe" \/ Departed(c) => c \notin registered

LEMMA InitLeaves == Init => LeavesNothing
  BY DEF Init, LeavesNothing, Departed, Pushing

LEMMA StepLeaves == TypeOK /\ LeavingIsOver /\ LeavesNothing /\ [Next]_vars => LeavesNothing'
<1> SUFFICES ASSUME TypeOK, LeavingIsOver, LeavesNothing, [Next]_vars PROVE LeavesNothing'
  OBVIOUS
<1> USE DEF TypeOK, LeavingIsOver, LeavesNothing, Departed, At, Goto, SetIndex, SetKey, ExpireIndex,
            hub, redis, Joining, Listening, Finally, Pushing, Ended
<1>1. ASSUME NEW c \in Conns, Connect(c) PROVE LeavesNothing'
  BY <1>1 DEF Connect
<1>2. ASSUME NEW c \in Conns, HubAdd(c) PROVE LeavesNothing'
  BY <1>2 DEF HubAdd
<1>3. ASSUME NEW c \in Conns, Subscribe(c) PROVE LeavesNothing'
  BY <1>3 DEF Subscribe
<1>4. ASSUME NEW c \in Conns, Join(c) PROVE LeavesNothing'
  BY <1>4 DEF Join
<1>5. ASSUME NEW c \in Conns, ListPresence(c) PROVE LeavesNothing'
  BY <1>5 DEF ListPresence
<1>6. ASSUME NEW c \in Conns, PushPresence(c) PROVE LeavesNothing'
  BY <1>6 DEF PushPresence
<1>7. ASSUME NEW c \in Conns, Leave(c) PROVE LeavesNothing'
  BY <1>7 DEF Leave
<1>8. ASSUME NEW c \in Conns, HubRemove(c) PROVE LeavesNothing'
  BY <1>8 DEF HubRemove
<1>9. ASSUME NEW c \in Conns, Unsubscribe(c) PROVE LeavesNothing'
  BY <1>9 DEF Unsubscribe
<1>10. ASSUME NEW c \in Conns, Heartbeat(c) PROVE LeavesNothing'
  BY <1>10 DEF Heartbeat
<1>11. ASSUME NEW c \in Conns, Vanish(c) PROVE LeavesNothing'
  BY <1>11 DEF Vanish
<1>12. ASSUME NEW c \in Conns, RedisFails(c) PROVE LeavesNothing'
  BY <1>12 DEF RedisFails
<1>13. CASE Dispatch
  BY <1>13 DEF Dispatch
<1>14. CASE Crash
  BY <1>14 DEF Crash
<1>15. CASE Tick
  BY <1>15 DEF Tick
<1>16. CASE UNCHANGED vars
  BY <1>16 DEF vars
<1> QED
  BY <1>1, <1>2, <1>3, <1>4, <1>5, <1>6, <1>7, <1>8, <1>9, <1>10, <1>11, <1>12, <1>13, <1>14, <1>15, <1>16 DEF Next, Handler

(* A connection whose handler ran to its end left neither a key nor an entry   *)
(* in the index nor a registration, whatever failed elsewhere meanwhile.      *)
THEOREM LeaversLeaveNothing == Spec => []LeftIsGone
<1>1. HubInv => TypeOK /\ LeavingIsOver
  BY DEF HubInv
<1>2. HubInv /\ LeavesNothing => LeftIsGone
  BY DEF HubInv, LeavingIsOver, LeavesNothing, Departed, LeftIsGone
<1> QED
  BY <1>1, <1>2, HubInvHolds, InitLeaves, StepLeaves, PTL DEF Spec

-----------------------------------------------------------------------------
\* The connections that have been through the joining of the index.
Joined == {c \in Conns : pc[c] \notin {"off", "hubAdd", "subscribe", "joinKey", "joinIndex"}}
Listed == {"joinExpire"} \cup Pushing \cup Listening

\* When clients ping in time: a live connection has its key, and is in an index
\* that does not expire before the key; a roster scan never takes it for stale.
RosterKept ==
    /\ \A c \in alive :
         /\ pc[c] \in {"joinIndex"} \cup Listed => key[c] > 0
         /\ pc[c] \in Listed => c \in index
         /\ pc[c] \in Pushing \cup {"open", "beatKey"} => indexTtl = NoExpiry \/ indexTtl >= key[c]
    /\ index \subseteq Joined
    /\ \A c \in Conns : scan[c] \subseteq Joined
    /\ \A c \in Conns : stale[c] # None => stale[c] \in Joined /\ stale[c] \notin alive

LEMMA InitRoster == Init => RosterKept
  BY DEF Init, RosterKept

LEMMA StepRoster ==
    Timely /\ TypeOK /\ LeavingIsOver /\ RosterKept /\ [Next]_vars => RosterKept'
<1> SUFFICES ASSUME Timely, TypeOK, LeavingIsOver, RosterKept, [Next]_vars PROVE RosterKept'
  OBVIOUS
<1> USE DEF TypeOK, LeavingIsOver, RosterKept, Joined, Listed, At, Goto, SetIndex, SetKey, ExpireIndex,
            hub, redis, NoExpiry, Joining, Listening, Finally, Pushing, Ended
<1>1. ASSUME NEW c \in Conns, Connect(c) PROVE RosterKept'
  BY <1>1 DEF Connect
<1>2. ASSUME NEW c \in Conns, HubAdd(c) PROVE RosterKept'
  BY <1>2 DEF HubAdd
<1>3. ASSUME NEW c \in Conns, Subscribe(c) PROVE RosterKept'
  BY <1>3 DEF Subscribe
<1>4. ASSUME NEW c \in Conns, Join(c) PROVE RosterKept'
  BY <1>4 DEF Join
<1>5. ASSUME NEW c \in Conns, ListPresence(c) PROVE RosterKept'
  <2>1. CASE At(c, "list")
    BY <1>5, <2>1 DEF ListPresence
  <2>2. ASSUME NEW m \in scan[c], key[m] = 0 PROVE m \in Joined /\ m \notin alive
    BY <2>2
  <2>3. CASE At(c, "get")
    BY <1>5, <2>2, <2>3 DEF ListPresence
  <2>4. CASE At(c, "prune")
    BY <1>5, <2>4 DEF ListPresence
  <2> QED
    BY <1>5, <2>1, <2>3, <2>4 DEF ListPresence
<1>6. ASSUME NEW c \in Conns, PushPresence(c) PROVE RosterKept'
  BY <1>6 DEF PushPresence
<1>7. ASSUME NEW c \in Conns, Leave(c) PROVE RosterKept'
  BY <1>7 DEF Leave
<1>8. ASSUME NEW c \in Conns, HubRemove(c) PROVE RosterKept'
  BY <1>8 DEF HubRemove
<1>9. ASSUME NEW c \in Conns, Unsubscribe(c) PROVE RosterKept'
  BY <1>9 DEF Unsubscribe
<1>10. ASSUME NEW c \in Conns, Heartbeat(c) PROVE RosterKept'
  BY <1>10 DEF Heartbeat
<1>11. ASSUME NEW c \in Conns, Vanish(c) PROVE RosterKept'
  BY <1>11 DEF Vanish
<1>12. ASSUME NEW c \in Conns, RedisFails(c) PROVE RosterKept'
  BY <1>12 DEF RedisFails
<1>13. CASE Dispatch
  BY <1>13 DEF Dispatch
<1>14. CASE Crash
  BY <1>14 DEF Crash
<1>15. CASE Tick
  BY <1>15 DEF Tick
<1>16. CASE UNCHANGED vars
  BY <1>16 DEF vars
<1> QED
  BY <1>1, <1>2, <1>3, <1>4, <1>5, <1>6, <1>7, <1>8, <1>9, <1>10, <1>11, <1>12, <1>13, <1>14, <1>15, <1>16 DEF Next, Handler

(* While its client pings in time, an open connection has its presence key and *)
(* its entry in the index: no expiry, no scan and no other connection's       *)
(* departure takes a live viewer off the roster.                              *)
THEOREM SteadyViewersStayListed == Timely => (Spec => []SteadyViewerListed)
<1> SUFFICES ASSUME Timely PROVE Spec => []SteadyViewerListed
  OBVIOUS
<1>1. HubInv /\ RosterKept /\ [Next]_vars => RosterKept'
  BY StepRoster DEF HubInv
<1>2. RosterKept => SteadyViewerListed
  BY DEF RosterKept, Listed, SteadyViewerListed
<1> QED
  BY <1>1, <1>2, HubInvHolds, InitRoster, PTL DEF Spec
=============================================================================
