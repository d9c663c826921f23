------------------------------ MODULE CardDialog ------------------------------
(***************************************************************************)
(* The board's floating card panel, CardDialog.tsx as the board screen       *)
(* (app/(app)/board/[id].tsx) uses it.  In edit mode it saves by itself      *)
(* (Autosave) the card modelled there, or another card of the board; in      *)
(* create mode it sends one request.  It stays mounted while it is closed.   *)
(***************************************************************************)
EXTENDS Autosave

CONSTANT MaxOpens  \* bound: times the panel is opened or switched

ASSUME DialogConstants == MaxOpens \in Nat

VARIABLES
    panel,    \* "closed", "create", "edit" (the modelled card) or "other"
    opens,    \* times it was opened or switched so far
    held,     \* lockedBy, from the board's socket: it may change at any time
    creating  \* a create request is in flight: the button is busy

dialog == <<panel, opens, held, creating>>

Panels == {"closed", "create", "edit", "other"}

DialogTypeOK ==
    /\ AutosaveTypeOK
    /\ panel \in Panels /\ opens \in 0..MaxOpens
    /\ held \in BOOLEAN /\ creating \in BOOLEAN

DialogInit == panel = "closed" /\ opens = 0 /\ held = FALSE /\ creating = FALSE

\* Opening the panel, or pressing another card while it is open, fills the inputs
\* again and clears the badge.  A switch leaves the timer of the first card armed.
OpenPanel ==
    /\ opens < MaxOpens /\ opens' = opens + 1
    /\ panel' \in Panels \ {panel, "closed"}
    /\ panel' = "create" => panel = "closed"
    /\ badge' = "idle"
    /\ UNCHANGED <<stored, gone, storedBy, shown, typed, timer, flight, fades, edits, excused>>
    /\ UNCHANGED <<held, creating>>

\* The effect on "open": the timer is stopped, not flushed.
ClosePanel ==
    /\ panel # "closed"
    /\ panel' = "closed"
    /\ DropPending
    /\ UNCHANGED <<stored, gone, storedBy, shown, typed, flight, badge, fades, edits>>
    /\ UNCHANGED <<opens, held, creating>>

LockSeen == held' = ~held /\ UNCHANGED <<saving, panel, opens, creating>>

\* Title (never blank), priority and estimate; only a plain card has a
\* description; an edit of another card takes the same timer.
EditPanel ==
    /\ ~held
    /\ \/ panel = "edit" /\ \E f \in {"title", "picks", "plan"} : Persist([g \in {f} |-> Word])
       \/ panel = "edit" /\ shown.type = "card"
          /\ Persist([data |-> [shape |-> "card", lines |-> <<Word>>]])
       \/ panel = "other" /\ Persist(<<>>)
    /\ UNCHANGED <<shown, dialog>>

\* submit: a title is asked for, then one POST; its answer closes whatever create
\* panel is open by then, its failure leaves the panel and the text.
Submit ==
    /\ panel = "create" /\ ~creating
    /\ creating' = TRUE
    /\ UNCHANGED <<saving, panel, opens, held>>

Created ==
    /\ creating
    /\ creating' = FALSE
    /\ panel' = IF panel = "create" THEN "closed" ELSE panel
    /\ UNCHANGED <<saving, opens, held>>

CreateFails == creating /\ creating' = FALSE /\ UNCHANGED <<saving, panel, opens, held>>

DialogNext ==
    \/ OpenPanel \/ ClosePanel \/ LockSeen \/ EditPanel
    \/ Submit \/ Created \/ CreateFails
    \/ Background /\ UNCHANGED dialog

DialogSpec == AutosaveInit /\ DialogInit /\ [][DialogNext]_<<saving, dialog>>

-----------------------------------------------------------------------------
(* Properties *)

\* "Flush any pending save when the panel closes, so a change typed a moment before
\* dismissing isn't silently dropped": a save that waits when the panel closes is sent.
CloseFlushes ==
    [][panel # "closed" /\ panel' = "closed" /\ timer # NoPatch =>
         \E r \in flight' : r.n = timer.n]_<<saving, dialog>>
=============================================================================
