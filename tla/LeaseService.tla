---------------------------- MODULE LeaseService ----------------------------
(***************************************************************************)
(* What the edit lock of a card promises, with every request atomic: the   *)
(* lock is free or owned by one user, a grant goes to a user who finds it   *)
(* free or already owns it, and only its owner or the passing of time takes *)
(* it away.  `editors' are the users who were told "granted" and whose      *)
(* thirty seconds have not run out.  EditLock, which splits each request    *)
(* at its Redis commands, is shown to implement this module.                *)
(***************************************************************************)
CONSTANTS Users, NoUser

VARIABLES owner, editors

vars == <<owner, editors>>

Init == owner = NoUser /\ editors = {}

\* A grant; when its answer is lost the user does not become an editor.
Grant(u) ==
    /\ owner \in {NoUser, u}
    /\ owner' = u
    /\ editors' \in {editors, editors \cup {u}}

\* A user stops editing: it asks for the release, closes, or its time is up.
StopEditing(u) ==
    /\ u \in editors
    /\ editors' = editors \ {u}
    /\ UNCHANGED owner

Release(u) ==
    /\ owner = u
    /\ u \notin editors
    /\ owner' = NoUser
    /\ UNCHANGED editors

Expire ==
    /\ owner # NoUser
    /\ owner' = NoUser
    /\ editors' = editors \ {owner}

Next == \/ \E u \in Users : Grant(u) \/ StopEditing(u) \/ Release(u)
        \/ Expire

Spec == Init /\ [][Next]_vars
=============================================================================
