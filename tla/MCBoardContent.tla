--------------------------- MODULE MCBoardContent ---------------------------
(***************************************************************************)
(* Small instances of BoardContent: a board created with two lanes.  The     *)
(* first state picks what the clients are busy with: every edit of the lanes *)
(* while cards are created and deleted, or every write to a card while lanes *)
(* are deleted.  The proofs are about both at once.                          *)
(***************************************************************************)
EXTENDS BoardContent

CONSTANTS todo, done, extra

TwoLanes == <<todo, done>>
Symmetry == Permutations(Requests)

VARIABLE busy

Menu == [lanes |-> LaneOps \cup {"create", "delete"},
         cards |-> CardOps \cup {"deleteLane"}]

BusyInit == Init /\ busy \in DOMAIN Menu
BusyNext ==
    /\ Next
    /\ \A r \in Requests : req'[r].op \in Menu[busy] \cup {"idle"}
    /\ busy = "lanes" => \E r \in Requests : req'[r] = Idle  \* two at once
    /\ busy = "cards" =>  \* a lane that was deleted stands for any unknown one
         \A r \in Requests : At(r, "update", "reread")' => req'[r].patch.lane # extra
    /\ UNCHANGED busy
BusySpec == BusyInit /\ [][BusyNext]_<<vars, busy>>
=============================================================================
