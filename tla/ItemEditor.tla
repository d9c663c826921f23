------------------------------ MODULE ItemEditor ------------------------------
(***************************************************************************)
(* The full-screen editor, app/(app)/item/[id].tsx: it loads the item and    *)
(* asks presence-service for its lock before it shows anything, then saves   *)
(* by itself (Autosave), switches the item's type at once and deletes.       *)
(* The lock's own life is EditLock's: only the answer matters here.          *)
(***************************************************************************)
EXTENDS Autosave

VARIABLES
    phase,    \* "booting", the step of the load, "ready", "error" or "left"
    locked,   \* lockedBy: another user holds the lock, the screen is read-only
    deleting  \* a DELETE is in flight

screen == <<phase, locked, deleting>>

Phases == {"booting", "item", "extras", "lock", "ready", "error", "left"}

EditorTypeOK ==
    /\ AutosaveTypeOK
    /\ phase \in Phases
    /\ locked \in BOOLEAN /\ deleting \in BOOLEAN

EditorInit ==
    /\ phase = "booting" /\ locked = FALSE /\ deleting = FALSE

At(from, to) == phase = from /\ phase' = to

\* The effect waits for the session, then for the item's board to list it.
Boot == At("booting", "item") /\ UNCHANGED <<saving, locked, deleting>>

LoadItem ==
    /\ At("item", "extras") /\ ~gone
    /\ shown' = stored
    /\ UNCHANGED <<stored, gone, storedBy, typed, timer, flight, badge, fades, edits, excused>>
    /\ UNCHANGED <<locked, deleting>>

LoadFails == At("item", "error") /\ UNCHANGED <<saving, locked, deleting>>

\* Members and comments: the screen goes on without either.
LoadExtras == At("extras", "lock") /\ UNCHANGED <<saving, locked, deleting>>

LockUnawaited ==  \* mutant: the screen shows the item before the lock is answered
    /\ \/ At("lock", "ready")
       \/ At("ready", "ready")
    /\ locked' \in BOOLEAN
    /\ UNCHANGED <<saving, deleting>>

\* Only a 423 makes the screen read-only; it stops loading after the answer.
LockAnswered ==
    /\ At("lock", "ready")
    /\ locked' \in BOOLEAN
    /\ UNCHANGED <<saving, deleting>>

Writable == phase = "ready" /\ ~locked

\* Title, estimate and dates are shown by their inputs.
EditTitle == Writable /\ Persist([title |-> Word]) /\ UNCHANGED <<shown, screen>>
EditPlan == Writable /\ Persist([plan |-> Word]) /\ UNCHANGED <<shown, screen>>

\* Priority and assignees are shown by the screen's copy, changed at once.
Pick ==
    /\ Writable
    /\ Persist([picks |-> Word])
    /\ shown' = [shown EXCEPT !.picks = Word]
    /\ UNCHANGED screen

\* Each body writes the data of the type the screen shows.  Text typed into a checklist
\* goes into the array that the screen's copy has too, until one of them is replaced.
EditBody ==
    /\ Writable
    /\ \E lines \in {<<>>, <<Word>>} :
         LET data == [shape |-> shown.type, lines |-> lines] IN
         /\ Persist([data |-> data])
         /\ \/ UNCHANGED shown
            \/ /\ shown.type = "checklist" /\ lines # <<>>
               /\ shown' = [shown EXCEPT !.data = data]
    /\ UNCHANGED screen

NonBlank(lines) ==
    LET kept[n \in 0..Len(lines)] ==
          IF n = 0 THEN <<>>
          ELSE IF lines[n] = Blank THEN kept[n - 1] ELSE Append(kept[n - 1], lines[n])
    IN  kept[Len(lines)]

\* The lines of text an item shows: none, when its data has another type's shape.
ItemTextLines(item) ==
    IF item.data.shape # item.type THEN <<>>
    ELSE IF item.type = "card" THEN item.data.lines ELSE NonBlank(item.data.lines)

ConvertItemData(item, to) ==
    LET lines == ItemTextLines(item) IN
    [shape |-> to,
     lines |-> IF to = "checklist" THEN NonBlank(lines)
               ELSE IF to = "document" /\ lines = <<>> THEN <<Blank>> ELSE lines]

OtherTypes(item) == Types \ {item.type}

\* A switch of type is sent at once, from the screen's copy of the item: neither
\* the timer nor the text it carries is looked at.
ChangeType ==
    /\ Writable /\ edits < MaxEdits
    /\ \E to \in OtherTypes(shown) :
         LET patch == [type |-> to, data |-> ConvertItemData(shown, to)] IN
         /\ flight' = flight \cup {Sent(Word, patch)}
         /\ typed' = With(typed, patch)
    /\ edits' = Word
    /\ badge' = "saving"
    /\ excused' = (excused \ {"type", "data"}) \cup (Pending \cap {"data"})
    /\ UNCHANGED <<stored, gone, storedBy, shown, timer, fades, screen>>

Delete ==
    /\ Writable /\ ~deleting
    /\ deleting' = TRUE
    /\ UNCHANGED <<saving, phase, locked>>

Unmount == DropPending /\ phase' = "left"

\* The item is gone and the screen goes back, unless only the answer was lost.
DeleteArrives ==
    /\ deleting /\ ~gone
    /\ gone' = TRUE
    /\ UNCHANGED <<stored, storedBy, shown, typed, timer, flight, badge, fades, edits, excused, screen>>

DeleteAnswered ==
    /\ deleting /\ gone
    /\ deleting' = FALSE
    /\ Unmount
    /\ UNCHANGED <<stored, gone, storedBy, shown, typed, flight, badge, fades, edits, locked>>

DeleteFails ==
    /\ deleting
    /\ deleting' = FALSE
    /\ UNCHANGED <<saving, phase, locked>>

Leave ==
    /\ phase \notin {"booting", "left"}
    /\ Unmount
    /\ UNCHANGED <<stored, gone, storedBy, shown, typed, flight, badge, fades, edits, locked, deleting>>

EditorNext ==
    \/ Boot \/ LoadItem \/ LoadFails \/ LoadExtras \/ LockAnswered
    \/ EditTitle \/ EditPlan \/ Pick \/ EditBody \/ ChangeType
    \/ Delete \/ DeleteArrives \/ DeleteAnswered \/ DeleteFails
    \/ Leave
    \/ Background /\ UNCHANGED screen

EditorSpec == AutosaveInit /\ EditorInit /\ [][EditorNext]_<<saving, screen>>

-----------------------------------------------------------------------------
(* Properties *)

\* A screen whose lock request was answered 423 sends none of its own edits: whatever
\* it could have armed before the answer would still go out.
LockedOutNeverWrites == locked => timer = NoPatch /\ flight = {} /\ ~deleting

\* item/[id].tsx:176 "carry the text across": a switch of type sends the words that
\* the user last left in the body.
SwitchCarriesWords ==
    [][\A r \in flight' \ flight :
         "type" \in DOMAIN r.patch /\ r.answer = Unanswered =>
            NonBlank(r.patch.data.lines) = NonBlank(typed.data.lines)]_<<saving, screen>>
=============================================================================
