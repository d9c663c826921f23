----------------------------------- MODULE Bodies -----------------------------------
(***************************************************************************)
(* The bodies of the full editor that hold several rows of text: the entries *)
(* of a checklist (ChecklistBody of item/[id].tsx) and the blocks of a       *)
(* document (DocumentBody there, DocumentView.tsx).  Each keeps its rows,    *)
(* which the answers of the saves never replace, and sends all of them with  *)
(* every edit: the last patch is the one that counts (Autosave).             *)
(***************************************************************************)
EXTENDS Naturals, Sequences, SequencesExt

CONSTANTS
    MaxTypings, \* bound: edits of the body
    Nothing     \* no patch was made

ASSUME BodyConstants == MaxTypings \in Nat

VARIABLES
    kind,  \* "checklist" or "document"
    rows,  \* entries or blocks
    inputs, \* the text each row shows
    patch, \* the rows of the last patch, or Nothing
    said,  \* history: what the user last typed in each row; a row is its number
    made   \* edits so far

body == <<kind, rows, inputs, patch, said, made>>

FirstRows == 3
RowIds == 1..(FirstRows + MaxTypings)
Texts == 0..(FirstRows + MaxTypings)
Rows == [id : RowIds, text : Texts, done : BOOLEAN, locked : BOOLEAN]

BodiesTypeOK ==
    /\ kind \in {"checklist", "document"}
    /\ rows \in Seq(Rows) /\ inputs \in Seq(Texts) /\ Len(inputs) = Len(rows)
    /\ patch # Nothing => patch \in Seq(Rows)
    /\ said \in [RowIds -> Texts] /\ made \in 0..MaxTypings

\* Another user's name may be on a block ("locked_by"); never on an entry.
BodiesInit ==
    /\ kind \in {"checklist", "document"}
    /\ \E locks \in SUBSET (1..FirstRows) :
         /\ kind = "checklist" => locks = {}
         /\ rows = [i \in 1..FirstRows |-> [id |-> i, text |-> i, done |-> FALSE, locked |-> i \in locks]]
    /\ inputs = [i \in 1..FirstRows |-> i]
    /\ patch = Nothing /\ made = 0
    /\ said = [i \in RowIds |-> IF i <= FirstRows THEN i ELSE 0]

Edit == made < MaxTypings /\ made' = made + 1

\* commit and handle: the rows become the state and are sent.
Commit(next) == rows' = next /\ patch' = next
Written == FirstRows + made + 1

TypeEntryCopied(i) ==  \* mutant: the entry is changed in the copy that is sent alone
    /\ kind = "checklist" /\ Edit
    /\ patch' = [rows EXCEPT ![i].text = Written]
    /\ inputs' = [inputs EXCEPT ![i] = Written]
    /\ said' = [said EXCEPT ![rows[i].id] = Written]
    /\ UNCHANGED <<kind, rows>>

\* Typing changes the entry in place, without a new state, and sends a copy.
TypeEntry(i) ==
    /\ kind = "checklist" /\ Edit
    /\ Commit([rows EXCEPT ![i].text = Written])
    /\ inputs' = [inputs EXCEPT ![i] = Written]
    /\ said' = [said EXCEPT ![rows[i].id] = Written]
    /\ UNCHANGED kind

\* A block is patched by its key; a locked one cannot be edited.
TypeBlock(i) ==
    /\ kind = "document" /\ ~rows[i].locked /\ Edit
    /\ Commit([rows EXCEPT ![i].text = Written])
    /\ inputs' = [inputs EXCEPT ![i] = Written]
    /\ said' = [said EXCEPT ![rows[i].id] = Written]
    /\ UNCHANGED kind

ToggleRow(i) ==
    /\ ~rows[i].locked /\ Edit
    /\ Commit([rows EXCEPT ![i].done = ~@])
    /\ UNCHANGED <<kind, inputs, said>>

\* The inputs of a checklist belong to positions and keep the text they have: when
\* an entry goes, the last input does.  Those of a document show their block.
RemoveRow(i) ==
    /\ ~rows[i].locked /\ Edit
    /\ Commit(RemoveAt(rows, i))
    /\ inputs' = IF kind = "checklist" THEN Front(inputs) ELSE RemoveAt(inputs, i)
    /\ UNCHANGED <<kind, said>>

AddRow ==
    /\ Edit
    /\ Commit(Append(rows, [id |-> Written, text |-> 0, done |-> FALSE, locked |-> FALSE]))
    /\ inputs' = Append(inputs, 0)
    /\ UNCHANGED <<kind, said>>

BodiesNext ==
    \/ AddRow
    \/ \E i \in 1..Len(rows) : TypeEntry(i) \/ TypeBlock(i) \/ ToggleRow(i) \/ RemoveRow(i)

BodiesSpec == BodiesInit /\ [][BodiesNext]_body

-----------------------------------------------------------------------------
(* Properties *)

\* Each patch replaces the one before, so the last one alone must hold every row
\* the user left there, with the words last typed in it, however the edits of
\* several rows alternated.
LastPatchIsWhole ==
    patch # Nothing =>
        /\ patch = rows
        /\ \A i \in 1..Len(patch) : patch[i].text = said[patch[i].id]
=============================================================================
