--------------------------- MODULE EditLockProofs ---------------------------
(***************************************************************************)
(* Proofs about EditLock for any sessions, users and lock time: its type    *)
(* correctness, that every lock has an expiry, that with serial requests    *)
(* the sessions told "granted" hold the key, that no release then removes   *)
(* another user's lock, and that the Redis protocol implements the atomic   *)
(* LeaseService.                                                            *)
(***************************************************************************)
EXTENDS EditLock, TLAPS

\* A serial request that has read its own user as the holder still finds it so.
CommittedHolds ==
    Serial => \A s \in Sessions : lockPc[s] \in Committed => holder = Owner[s]

\* A session that is releasing has stopped counting on its lease.
ReleasingIsDone ==
    \A s \in Sessions : lockPc[s] \in {"releaseGet", "delete"} => lease[s] = 0

IInv == LockTypeOK /\ LockExpires /\ CommittedHolds /\ ReleasingIsDone /\ LeaseBacked

USE LockConstants

(* Every variable keeps its type.                                           *)
THEOREM Typing == LockSpec => []LockTypeOK
<1>1. LockInit => LockTypeOK
  BY DEF LockInit, LockTypeOK, Steps
<1>2. LockTypeOK /\ [LockNext]_lockVars => LockTypeOK'
  <2> SUFFICES ASSUME LockTypeOK, [LockNext]_lockVars PROVE LockTypeOK'
    OBVIOUS
  <2> USE DEF LockTypeOK, Steps, Proceed
  <2>1. ASSUME NEW s \in Sessions, RequestLock(s) \/ RequestRelease(s) PROVE LockTypeOK'
    BY <2>1 DEF RequestLock, RequestRelease
  <2>2. ASSUME NEW s \in Sessions, SetNX(s) PROVE LockTypeOK'
    BY <2>2 DEF SetNX, Granted
  <2>3. ASSUME NEW s \in Sessions, GetHolder(s) \/ Denied(s) \/ ReleaseGet(s) PROVE LockTypeOK'
    BY <2>3 DEF GetHolder, Denied, ReleaseGet
  <2>4. ASSUME NEW s \in Sessions, Refresh(s) PROVE LockTypeOK'
    BY <2>4 DEF Refresh, Granted
  <2>5. ASSUME NEW s \in Sessions, Delete(s) PROVE LockTypeOK'
    BY <2>5 DEF Delete
  <2>6. ASSUME NEW s \in Sessions, Announce(s) PROVE LockTypeOK'
    BY <2>6 DEF Announce
  <2>7. ASSUME NEW s \in Sessions, Abandon(s) PROVE LockTypeOK'
    BY <2>7 DEF Abandon
  <2>8. CASE LockTick
    BY <2>8 DEF LockTick
  <2>9. CASE UNCHANGED lockVars
    BY <2>9 DEF lockVars
  <2>10. QED
    BY <2>1, <2>2, <2>3, <2>4, <2>5, <2>6, <2>7, <2>8, <2>9 DEF LockNext, Serve
<1>3. QED
  BY <1>1, <1>2, PTL DEF LockSpec

LEMMA InitIInv == LockInit => IInv
  BY DEF LockInit, IInv, LockTypeOK, Steps, LockExpires, CommittedHolds, Committed, ReleasingIsDone, LeaseBacked

\* One step per action; under Serial two sessions never share a user, so a
\* session that deletes or refreshes the key leaves the others' claims alone.
LEMMA StepIInv == IInv /\ LockTypeOK' /\ [LockNext]_lockVars => IInv'
<1> SUFFICES ASSUME IInv, LockTypeOK', [LockNext]_lockVars PROVE IInv'
  OBVIOUS
<1> USE DEF IInv, LockTypeOK, Steps, Committed, LockExpires, CommittedHolds, ReleasingIsDone, LeaseBacked, Serial, Proceed
<1>1. ASSUME NEW s \in Sessions, RequestLock(s) \/ RequestRelease(s) PROVE IInv'
  BY <1>1 DEF RequestLock, RequestRelease
<1>2. ASSUME NEW s \in Sessions, SetNX(s) PROVE IInv'
  <2>1. CASE holder = NoUser
    BY <1>2, <2>1 DEF SetNX, Granted
  <2>2. CASE holder # NoUser
    BY <1>2, <2>2 DEF SetNX
  <2>3. QED
    BY <2>1, <2>2
<1>3. ASSUME NEW s \in Sessions, GetHolder(s) \/ Denied(s) \/ ReleaseGet(s) PROVE IInv'
  BY <1>3 DEF GetHolder, Denied, ReleaseGet
<1>4. ASSUME NEW s \in Sessions, Refresh(s) PROVE IInv'
  BY <1>4 DEF Refresh, Granted
<1>5. ASSUME NEW s \in Sessions, Delete(s) PROVE IInv'
  BY <1>5 DEF Delete
<1>6. ASSUME NEW s \in Sessions, Announce(s) PROVE IInv'
  BY <1>6 DEF Announce
<1>7. ASSUME NEW s \in Sessions, Abandon(s) PROVE IInv'
  BY <1>7 DEF Abandon
<1>8. CASE LockTick
  <2>1. LockExpires'
    BY <1>8 DEF LockTick
  <2>2. CommittedHolds'
    BY <1>8 DEF LockTick
  <2>3. LeaseBacked'
    BY <1>8 DEF LockTick
  <2>4. ReleasingIsDone'
    BY <1>8 DEF LockTick
  <2>5. QED
    BY <2>1, <2>2, <2>3, <2>4
<1>9. CASE UNCHANGED lockVars
  BY <1>9 DEF lockVars
<1>10. QED
  BY <1>1, <1>2, <1>3, <1>4, <1>5, <1>6, <1>7, <1>8, <1>9 DEF LockNext, Serve

LEMMA Invariance == LockSpec => []IInv
  BY InitIInv, StepIInv, Typing, PTL DEF LockSpec, IInv

(* With serial requests, of the sessions told "granted" whose time is not   *)
(* up none has lost the key: no two users edit the card at once.            *)
THEOREM LeasesAreBacked == LockSpec => []LeaseBacked
  BY Invariance, PTL DEF IInv

(* Every lock has an expiry, whatever the interleaving of the requests.     *)
THEOREM EveryLockExpires == LockSpec => []LockExpires
  BY Invariance, PTL DEF IInv

(* With serial requests a release never deletes another user's lock.        *)
THEOREM NoLockIsStolen == ASSUME Serial PROVE LockSpec => NoStealing
<1>1. IInv /\ [LockNext]_lockVars => [\A s \in Sessions : Delete(s) => holder \in {NoUser, Owner[s]}]_lockVars
  BY DEF IInv, CommittedHolds, Committed, Delete
<1>2. QED
  BY <1>1, Invariance, PTL DEF LockSpec, NoStealing

LEMMA RefineInit == LockInit => Abstract!Init
  BY DEF LockInit, Abstract!Init, Editing

\* A lease set to zero takes its user, and under Serial only that user, out
\* of Editing: the users' sets before and after a step differ by one user.
LEMMA StopsEditing ==
  ASSUME LockTypeOK, Serial, NEW s \in Sessions,
         lease' = [lease EXCEPT ![s] = 0], UNCHANGED holder
  PROVE  [Abstract!Next]_Abstract!vars
<1>1. Editing' = Editing \ {Owner[s]}
  BY DEF Editing, LockTypeOK, Serial
<1>2. Owner[s] \in Users
  OBVIOUS
<1>3. QED
  BY <1>1, <1>2 DEF Abstract!Next, Abstract!StopEditing, Abstract!vars

LEMMA StartsEditing ==
  ASSUME LockTypeOK, NEW s \in Sessions, Granted(s), holder \in {NoUser, Owner[s]}, holder' = Owner[s]
  PROVE  Abstract!Next
<1>1. Editing' = Editing \cup {Owner[s]}
  BY DEF Editing, LockTypeOK, Granted
<1>2. Abstract!Grant(Owner[s])
  BY <1>1 DEF Abstract!Grant
<1>3. QED
  BY <1>2 DEF Abstract!Next

LEMMA RefineStep ==
  ASSUME Serial, IInv, IInv', [LockNext]_lockVars
  PROVE  [Abstract!Next]_Abstract!vars
<1> USE DEF IInv
<1>1. ASSUME UNCHANGED <<holder, lease>> PROVE [Abstract!Next]_Abstract!vars
  BY <1>1 DEF Abstract!vars, Editing
<1>2. ASSUME NEW s \in Sessions, SetNX(s) PROVE [Abstract!Next]_Abstract!vars
  BY <1>1, <1>2, StartsEditing DEF SetNX
<1>3. ASSUME NEW s \in Sessions, Refresh(s) PROVE [Abstract!Next]_Abstract!vars
  <2>1. holder = Owner[s]
    BY <1>3 DEF Refresh, CommittedHolds, Committed
  <2>2. QED
    BY <1>3, <2>1, StartsEditing DEF Refresh
<1>4. ASSUME NEW s \in Sessions, RequestRelease(s) \/ Abandon(s)
      PROVE  [Abstract!Next]_Abstract!vars
  BY <1>4, StopsEditing DEF RequestRelease, Abandon
<1>5. ASSUME NEW s \in Sessions, Delete(s) PROVE [Abstract!Next]_Abstract!vars
  <2>1. holder = Owner[s] /\ lease[s] = 0
    BY <1>5 DEF Delete, CommittedHolds, Committed, ReleasingIsDone
  <2>2. Owner[s] \notin Editing /\ Editing' = Editing
    BY <1>5, <2>1 DEF Delete, Editing, Serial
  <2>3. Abstract!Release(Owner[s])
    BY <1>5, <2>1, <2>2 DEF Delete, Abstract!Release
  <2>4. QED
    BY <2>3 DEF Abstract!Next
<1>6. CASE LockTick
  <2>1. Editing \subseteq {holder} /\ Editing' \subseteq {holder'}
    BY DEF Editing, LeaseBacked
  <2>2. Editing' \subseteq Editing
    BY <1>6 DEF LockTick, Editing, LockTypeOK
  <2>3. CASE holder' = holder
    <3>1. Editing' = Editing \/ (Editing = {holder} /\ Editing' = {})
      BY <2>1, <2>2, <2>3
    <3>2. Editing \subseteq Users
      BY DEF Editing
    <3>3. QED
      BY <2>3, <3>1, <3>2 DEF Abstract!Next, Abstract!StopEditing, Abstract!vars
  <2>4. CASE holder' # holder
    <3>1. holder # NoUser /\ holder' = NoUser
      BY <1>6, <2>4 DEF LockTick, LockExpires, LockTypeOK
    <3>2. NoUser \notin Editing'
      BY DEF Editing
    <3>3. Editing' = {} /\ Editing \ {holder} = {}
      BY <2>1, <3>1, <3>2
    <3>4. QED
      BY <3>1, <3>3 DEF Abstract!Next, Abstract!Expire
  <2>5. QED
    BY <2>3, <2>4
<1>7. CASE UNCHANGED lockVars
  BY <1>1, <1>7 DEF lockVars
<1>8. ASSUME NEW s \in Sessions,
             \/ RequestLock(s) \/ GetHolder(s) \/ Denied(s) \/ ReleaseGet(s) \/ Announce(s)
      PROVE  [Abstract!Next]_Abstract!vars
  BY <1>1, <1>8 DEF RequestLock, GetHolder, Denied, ReleaseGet, Announce
<1>9. QED
  BY <1>2, <1>3, <1>4, <1>5, <1>6, <1>7, <1>8 DEF LockNext, Serve

(* With serial requests the lock implements LeaseService: seen from outside *)
(* each request is atomic, and only its owner or time frees the lock.       *)
THEOREM LockImplementsLease == ASSUME Serial PROVE LockSpec => ImplementsLease
<1>1. IInv /\ IInv' /\ [LockNext]_lockVars => [Abstract!Next]_Abstract!vars
  BY RefineStep
<1>2. QED
  BY <1>1, RefineInit, Invariance, PTL DEF LockSpec, Abstract!Spec, ImplementsLease
=============================================================================
