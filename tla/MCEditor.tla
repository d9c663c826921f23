------------------------------- MODULE MCEditor -------------------------------
(***************************************************************************)
(* The two editors of an item, each over its own autosave, and the fields    *)
(* and bodies of the first.  They never run on the same item at once here:   *)
(* the first state picks the one that does, and the rest stays as it starts. *)
(***************************************************************************)
EXTENDS ItemEditor, CardDialog, Fields, Bodies

CONSTANT Editors
VARIABLE editor  \* a member of Editors

all == <<saving, screen, dialog, fields, body, editor>>

\* 1 h 30, 7.996 h (rounded up to a workday), 0.333 h, two days and a half, none.
SomeEstimates == {1500, 7996, 333, 20000, Null}
SomeTypings == {[days |-> 2000, hours |-> 0], [days |-> 500, hours |-> 3250], Blanked, Garbage}
SomeZones == {-5, 0, 9}
WestOfUTC == {-5}

Init ==
    /\ editor \in Editors
    /\ AutosaveInit /\ EditorInit /\ DialogInit /\ FieldsInit /\ BodiesInit
    /\ editor \notin {"screen", "dialog"} => stored.type = "card"
    /\ editor # "fields" => planned.estimate = Null /\ zone = CHOOSE z \in Zones : TRUE
    /\ editor # "body" => kind = "checklist"

Next ==
    /\ \/ editor = "screen" /\ EditorNext /\ UNCHANGED <<dialog, fields, body>>
       \/ editor = "dialog" /\ DialogNext /\ UNCHANGED <<screen, fields, body>>
       \/ editor = "fields" /\ FieldsNext /\ UNCHANGED <<saving, screen, dialog, body>>
       \/ editor = "body" /\ BodiesNext /\ UNCHANGED <<saving, screen, dialog, fields>>
    /\ UNCHANGED editor

\* A browser runs its timers and settles every request; users need do nothing.
Fairness ==
    /\ WF_all(TimerFires /\ UNCHANGED <<screen, dialog, fields, body, editor>>)
    /\ WF_all(Answers /\ UNCHANGED <<screen, dialog, fields, body, editor>>)
    /\ WF_all(BadgeFades /\ UNCHANGED <<screen, dialog, fields, body, editor>>)

Spec == Init /\ [][Next]_all /\ Fairness

TypeOK == EditorTypeOK /\ DialogTypeOK /\ FieldsTypeOK /\ BodiesTypeOK

Visible == IF editor = "screen" THEN phase = "ready" ELSE panel # "closed"

\* The badge of an editor that stays open goes back to rest once the user stops:
\* no failure, and no answer that outlives the edit it is of, leaves it spinning.
BadgeSettles == badge # "idle" ~> (badge = "idle" \/ ~Visible)
=============================================================================
