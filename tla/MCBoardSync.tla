---------------------------- MODULE MCBoardSync ----------------------------
(***************************************************************************)
(* Small instances of BoardSync: a board created with two lanes.             *)
(***************************************************************************)
EXTENDS BoardSync

CONSTANTS todo, done

TwoLanes == <<todo, done>>
=============================================================================
