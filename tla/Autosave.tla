------------------------------- MODULE Autosave -------------------------------
(***************************************************************************)
(* The debounced autosave of an item.  The full editor (app/(app)/item/      *)
(* [id].tsx) and the board's card dialog (CardDialog.tsx) hold the same      *)
(* code: one timer, re-armed by every edit and carrying only that edit's     *)
(* patch, then a PATCH whose answer is shown and a badge that says so.       *)
(*                                                                         *)
(* An item is its type, its body ("data"), its title, what is picked from a  *)
(* list ("picks": priority, assignees) and what is planned ("plan": estimate, *)
(* dates).  A word is the number of the edit that wrote it.                  *)
(***************************************************************************)
EXTENDS Naturals, Sequences, TLC

CONSTANTS
    MaxEdits,   \* bound: edits made by the user
    NoPatch,    \* the timer is not running
    Unanswered  \* the server has not handled the request

ASSUME AutosaveConstants == MaxEdits \in Nat

VARIABLES
    stored,   \* the item in workspace-service
    gone,     \* ... which was deleted
    storedBy, \* history: the edit that wrote each field of it
    shown,    \* the copy the screen holds: the last answer it applied
    typed,    \* history: the user's last edit of each field
    timer,    \* the pending edit, or NoPatch
    flight,   \* PATCHes sent and not yet answered
    badge,    \* "idle", "saving" or "saved"
    fades,    \* 1200 ms timers that will clear the badge
    edits,    \* edits made so far
    excused   \* history: fields whose last edit was lost in a known way, shown or not

saving == <<stored, gone, storedBy, shown, typed, timer, flight, badge, fades, edits, excused>>

Types == {"card", "checklist", "document"}
Fields == {"type", "data", "title", "picks", "plan"}
Blank == 0
Old == MaxEdits + 1      \* the words written before the editor was opened
Words == 0..Old
Bodies == [shape : Types, lines : UNION {[1..n -> Words] : n \in 0..3}]
Items == [type : Types, data : Bodies, title : Words, picks : Words, plan : Words]

Patches == UNION {[fs -> Types \cup Bodies \cup Words] : fs \in SUBSET Fields}

ASSUME NoPatchIsNoEdit == NoPatch \notin [n : Nat, patch : Patches]

AutosaveTypeOK ==
    /\ stored \in Items /\ shown \in Items /\ typed \in Items
    /\ gone \in BOOLEAN
    /\ storedBy \in [Fields -> 0..MaxEdits]
    /\ timer # NoPatch => timer.n \in 1..edits /\ DOMAIN timer.patch \subseteq Fields
    /\ \A r \in flight : /\ r.n \in 1..edits /\ DOMAIN r.patch \subseteq Fields
                         /\ r.answer \in Items \cup {Unanswered}
    /\ badge \in {"idle", "saving", "saved"}
    /\ fades \in 0..MaxEdits /\ edits \in 0..MaxEdits
    /\ excused \subseteq Fields

AutosaveInit ==
    /\ \E t \in Types :
         stored = [type |-> t, data |-> [shape |-> t, lines |-> <<Old, Blank, Old>>],
                   title |-> Old, picks |-> Old, plan |-> Old]
    /\ gone = FALSE
    /\ storedBy = [f \in Fields |-> 0]
    /\ shown = stored /\ typed = stored
    /\ timer = NoPatch /\ flight = {}
    /\ badge = "idle" /\ fades = 0 /\ edits = 0 /\ excused = {}

Pending == IF timer = NoPatch THEN {} ELSE DOMAIN timer.patch
Word == edits + 1  \* what the next edit writes
Sent(n, patch) == [n |-> n, patch |-> patch, answer |-> Unanswered]

\* { ...item, ...patch }
With(item, patch) == [f \in DOMAIN item |-> IF f \in DOMAIN patch THEN patch[f] ELSE item[f]]

PersistOnce(patch) ==  \* mutant: an armed timer is left running with the patch it has
    /\ edits < MaxEdits
    /\ edits' = edits + 1
    /\ timer' = IF timer = NoPatch THEN [n |-> edits + 1, patch |-> patch] ELSE timer
    /\ typed' = With(typed, patch)
    /\ badge' = "saving"
    /\ excused' = (excused \cup Pending) \ DOMAIN patch
    /\ UNCHANGED <<stored, gone, storedBy, flight, fades>>

\* persist: the timer is armed again with this patch alone, whatever it carried.
Persist(patch) ==
    /\ edits < MaxEdits
    /\ edits' = edits + 1
    /\ timer' = [n |-> edits + 1, patch |-> patch]
    /\ typed' = With(typed, patch)
    /\ badge' = "saving"
    /\ excused' = (excused \cup Pending) \ DOMAIN patch
    /\ UNCHANGED <<stored, gone, storedBy, flight, fades>>

\* 550 ms without another edit: the PATCH leaves.
TimerFires ==
    /\ timer # NoPatch
    /\ flight' = flight \cup {Sent(timer.n, timer.patch)}
    /\ timer' = NoPatch
    /\ UNCHANGED <<stored, gone, storedBy, shown, typed, badge, fades, edits, excused>>

\* workspace-service writes the fields of the patch.  Requests that are in
\* flight together arrive in any order: one may undo a newer one.
SaveArrives(r) ==
    /\ r \in flight /\ r.answer = Unanswered /\ ~gone
    /\ stored' = With(stored, r.patch)
    /\ storedBy' = [f \in Fields |-> IF f \in DOMAIN r.patch THEN r.n ELSE storedBy[f]]
    /\ flight' = (flight \ {r}) \cup {[r EXCEPT !.answer = With(stored, r.patch)]}
    /\ excused' = excused \cup {f \in DOMAIN r.patch : r.n < storedBy[f]}
    /\ UNCHANGED <<gone, shown, typed, timer, badge, fades, edits>>

SaveAnsweredEarly(r) ==  \* mutant: the PATCH is not awaited
    /\ r \in flight
    /\ shown' = r.answer
    /\ badge' = "saved" /\ fades' = fades + 1
    /\ flight' = flight \ {r}
    /\ UNCHANGED <<stored, gone, storedBy, typed, timer, edits, excused>>

\* The answer replaces the screen's copy; the badge says so for 1200 ms.
SaveAnswered(r) ==
    /\ r \in flight /\ r.answer # Unanswered
    /\ shown' = r.answer
    /\ badge' = "saved" /\ fades' = fades + 1
    /\ flight' = flight \ {r}
    /\ UNCHANGED <<stored, gone, storedBy, typed, timer, edits, excused>>

SaveFailsQuietly(r) ==  \* mutant: the catch leaves the badge alone
    /\ r \in flight
    /\ flight' = flight \ {r}
    /\ excused' = IF r.answer = Unanswered
                  THEN excused \cup {f \in DOMAIN r.patch : r.patch[f] = typed[f]} ELSE excused
    /\ UNCHANGED <<stored, gone, storedBy, shown, typed, timer, badge, fades, edits>>

\* The request, or only its answer, is lost, or the server refuses it (a blank
\* title, an item that is gone).  The badge is cleared and nothing tried again.
SaveFails(r) ==
    /\ r \in flight
    /\ badge' = "idle"
    /\ flight' = flight \ {r}
    /\ excused' = IF r.answer = Unanswered
                  THEN excused \cup {f \in DOMAIN r.patch : r.patch[f] = typed[f]} ELSE excused
    /\ UNCHANGED <<stored, gone, storedBy, shown, typed, timer, fades, edits>>

BadgeFades ==
    /\ fades > 0
    /\ fades' = fades - 1 /\ badge' = "idle"
    /\ UNCHANGED <<stored, gone, storedBy, shown, typed, timer, flight, edits, excused>>

Answers == \E r \in flight : SaveArrives(r) \/ SaveAnswered(r) \/ SaveFails(r)
Background == TimerFires \/ Answers \/ BadgeFades

\* Unmounting, or closing the dialog, stops the timer: what it carried is dropped.
DropPending ==
    /\ timer' = NoPatch
    /\ excused' = excused \cup Pending

-----------------------------------------------------------------------------
(* Properties *)

Waits(f) ==
    \/ timer # NoPatch /\ f \in DOMAIN timer.patch /\ timer.patch[f] = typed[f]
    \/ \E r \in flight : /\ r.answer = Unanswered
                         /\ f \in DOMAIN r.patch /\ r.patch[f] = typed[f]

\* What the user last put in a field is stored, waits for the timer or is on its
\* way; there is no way to lose it but these: an edit of another field took its timer,
\* the editor was left within the delay, a switch of type went past it (none of the
\* three shows, and the badge may say "saved"), its request failed (the badge goes
\* blank), or a request that was sent before it arrived after it.
EveryEditAccounted ==
    \A f \in Fields \ excused : stored[f] = typed[f] \/ Waits(f)
=============================================================================
