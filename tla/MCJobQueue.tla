----------------------------- MODULE MCJobQueue -----------------------------
(***************************************************************************)
(* Small instances of JobQueue: one job mentions two users, so that a        *)
(* handler can fail half way, and one has a body that does not parse.        *)
(***************************************************************************)
EXTENDS JobQueue, TLC

CONSTANTS j1, j2, alice, bob

TwoAndOne == (j1 :> {alice, bob}) @@ (j2 :> {bob})
=============================================================================
