----------------------------- MODULE MCPresence -----------------------------
(***************************************************************************)
(* Small instances of the presence service: the edit lock of one card and    *)
(* the room of one board, which share the process but no state.  The first   *)
(* state picks which of the two its clients use, and the other rests.        *)
(***************************************************************************)
EXTENDS EditLock, BoardRoom, TLC

CONSTANTS s1, s2, s3, u1, u2, u3, Parts
VARIABLE part  \* a member of Parts, a subset of {"lock", "room"}

Distinct == (s1 :> u1) @@ (s2 :> u2) @@ (s3 :> u3)
DistinctPair == (s1 :> u1) @@ (s2 :> u2)

all == <<part, lockVars, vars>>

PresenceInit == part \in Parts /\ LockInit /\ Init

PresenceNext ==
    /\ \/ part = "lock" /\ LockNext /\ UNCHANGED vars
       \/ part = "room" /\ Next /\ UNCHANGED lockVars
    /\ UNCHANGED part

\* A part that rests has nothing to serve and no time to let pass.
PresenceSpec == PresenceInit /\ [][PresenceNext]_all /\ FairLock /\ FairRoom
=============================================================================
