---------------------------- MODULE BoardContent ----------------------------
(***************************************************************************)
(* One board in workspace-service: its lanes and its cards in MongoDB, and   *)
(* the requests that read and write them (services/workspace/app/main.py and *)
(* repository.py).  A request is a coroutine: it reads, decides on what it   *)
(* read, and writes, with an await in between, so that other requests run    *)
(* between any two of its database commands.  There is no transaction.       *)
(*                                                                         *)
(* A write to a card is followed by _emit: a board event on Redis and, when  *)
(* it leaves the card with an assignee, a mention job on RabbitMQ.  Lane     *)
(* edits emit nothing.  Every caller is a member of the workspace.           *)
(***************************************************************************)
EXTENDS Integers, Sequences, SequencesExt

CONSTANTS
    Cards, Lanes,       \* the ids there are; an id is never used again
    FirstLanes,         \* the lanes the board is created with, in order
    Requests,           \* bound: requests in progress at once
    Ops,                \* the requests clients make in this instance
    LaneEditsSerial,    \* TRUE: one lane edit at a time
    CardWritesSerial,   \* TRUE: one request on a card at a time
    MaxFaults,          \* bound: failed publications, crashes, lost connections
    Keep,               \* a field that a patch does not name
    Unborn, Deleted     \* what the collection has under a card's id before and after

LaneOps == {"addLane", "reorder", "rename", "deleteLane"}
CardOps == {"create", "update", "delete"}

\* `assigned': the card has an assignee, who is none of those who write it.
Contents == [lane : Lanes, assigned : BOOLEAN]

ASSUME ContentConstants ==
    /\ FirstLanes \in Seq(Lanes) /\ FirstLanes # <<>> /\ IsInjective(FirstLanes)
    /\ Ops \subseteq LaneOps \cup CardOps
    /\ LaneEditsSerial \in BOOLEAN /\ CardWritesSerial \in BOOLEAN
    /\ MaxFaults \in Nat
    /\ Keep \notin Lanes \cup BOOLEAN \cup Cards
    /\ Unborn # Deleted /\ {Unborn, Deleted} \cap Contents = {}

VARIABLES
    lanes,      \* board.columns, an array
    laneIds,    \* lane ids handed out so far
    card,       \* the items collection
    req,        \* requests in progress
    strays,     \* history: cards last put into a lane that the board did not
                \* have, or whose cards a deletion had already counted
    mentioned,  \* history: cards that since they got an assignee had a mention
                \* job, or lost it to a failure or to an event of a move
    faults

board == <<lanes, laneIds>>
history == <<strays, mentioned>>
vars == <<board, card, req, history, faults>>

Lane == [id : Lanes, order : Nat, renamed : BOOLEAN]
Idle == [op |-> "idle"]

\* A client's patch names one field.
Patches == [lane : Lanes, assigned : {Keep}] \cup [lane : {Keep}, assigned : BOOLEAN]
Patched(content, p) == [lane |-> IF p.lane = Keep THEN content.lane ELSE p.lane,
                        assigned |-> IF p.assigned = Keep THEN content.assigned ELSE p.assigned]

IdsOf(columns) == {columns[i].id : i \in DOMAIN columns}
Orders(columns) == {columns[i].order : i \in DOMAIN columns}
Exists(c) == card[c] \notin {Unborn, Deleted}
InProgress(ops) == {r \in Requests : req[r].op \in ops}
Touches(c) == {r \in InProgress(CardOps) : req[r].card = c}
At(r, op, step) == req[r].op = op /\ req[r].step = step

\* Lanes a card may enter: no deletion that has counted their cards is under way.
Doomed == {req[r].lane : r \in {q \in InProgress(LaneOps) : At(q, "deleteLane", "pull")}}
OpenLanes == IdsOf(lanes) \ Doomed

\* What a request keeps between two awaits.
CardRequest == [op : {"create"}, step : {"insert"}, card : {Keep}, item : Contents]
          \cup [op : {"update"}, step : {"reread", "set", "after"}, card : Cards,
                before : Lanes, patch : Patches \cup [lane : {Keep}, assigned : {Keep}]]
          \cup [op : {"delete"}, step : {"remove"}, card : Cards, item : Contents]
          \cup [op : {"create", "update", "delete"}, step : {"publish", "enqueue"},
                card : Cards, item : Contents, event : {"created", "updated", "moved", "deleted"}]
LaneRequest == [op : {"addLane"}, read : Seq(Lane)]
          \cup [op : {"reorder"}, read : Seq(Lane), wanted : Seq(Lanes)]
          \cup [op : {"rename"}, lane : Lanes]
          \cup [op : {"deleteLane"}, step : {"count", "pull"}, lane : Lanes]

TypeOK ==
    /\ lanes \in Seq(Lane) /\ laneIds \subseteq Lanes
    /\ card \in [Cards -> Contents \cup {Unborn, Deleted}]
    /\ req \in [Requests -> {Idle} \cup CardRequest \cup LaneRequest]
    /\ strays \subseteq Cards /\ mentioned \subseteq Cards
    /\ faults \in 0..MaxFaults

Init ==
    /\ lanes = [i \in DOMAIN FirstLanes |->
                  [id |-> FirstLanes[i], order |-> i - 1, renamed |-> FALSE]]
    /\ laneIds = IdsOf(lanes)
    /\ card = [c \in Cards |-> Unborn]
    /\ req = [r \in Requests |-> Idle]
    /\ strays = {} /\ mentioned = {}
    /\ faults = 0

\* Which requests the clients make when.
MayStart(op) ==
    /\ op \in Ops
    /\ op \in LaneOps /\ LaneEditsSerial => InProgress(LaneOps) = {}

Begin(r, m) == /\ req[r] = Idle /\ MayStart(m.op)
               /\ req' = [req EXCEPT ![r] = m]
BeginOn(r, c, m) == /\ Exists(c) /\ (CardWritesSerial => Touches(c) = {})
                    /\ Begin(r, m)
Continue(r, m) == req' = [req EXCEPT ![r] = m]
End(r) == Continue(r, Idle)
ToPublish(r, c, item, event) ==
    Continue(r, [op |-> req[r].op, step |-> "publish", card |-> c, item |-> item, event |-> event])

-----------------------------------------------------------------------------
\* POST items: the lane is on the board, the next free order in it is read (not
\* modelled: two cards may get the same), and the card is inserted.
BeginCreate(r, item) ==
    /\ item.lane \in IdsOf(lanes)
    /\ Begin(r, [op |-> "create", step |-> "insert", card |-> Keep, item |-> item])

CreateItem(r) ==
    \/ (\E item \in Contents : BeginCreate(r, item)) /\ UNCHANGED card
    \/ /\ At(r, "create", "insert")
       /\ \E c \in Cards :
            /\ card[c] = Unborn
            /\ card' = [card EXCEPT ![c] = req[r].item]
            /\ ToPublish(r, c, req[r].item, "created")

\* PATCH items, up to the write: main.py reads the card, update_item reads it
\* again and leaves column_id alone when the card is in that lane already.  No
\* one asks whether the board has the lane: a screen's list of lanes may be old.
BeginUpdate(r, c, p) ==
    BeginOn(r, c, [op |-> "update", step |-> "reread", card |-> c,
                   before |-> card[c].lane, patch |-> p])

ReadForUpdate(r) ==
    \/ \E c \in Cards, p \in Patches : BeginUpdate(r, c, p)
    \/ /\ At(r, "update", "reread")
       /\ LET c == req[r].card IN
          IF ~Exists(c) THEN End(r)
          ELSE Continue(r, [req[r] EXCEPT !.step = "set",
                              !.patch.lane = IF @ = card[c].lane THEN Keep ELSE @])

\* mutant: the write creates the card when it is gone
SetItemUpserts(r) ==
    /\ At(r, "update", "set")
    /\ LET c == req[r].card IN
       card' = [card EXCEPT ![c] =
                  Patched(IF Exists(c) THEN @ ELSE [lane |-> req[r].before, assigned |-> FALSE],
                          req[r].patch)]
    /\ Continue(r, [req[r] EXCEPT !.step = "after"])

SetItemWhole(r) ==  \* mutant: the write puts the lane back that was read before
    /\ At(r, "update", "set")
    /\ LET c == req[r].card IN
       card' = IF ~Exists(c) THEN card
               ELSE [card EXCEPT ![c] = Patched([@ EXCEPT !.lane = req[r].before], req[r].patch)]
    /\ Continue(r, [req[r] EXCEPT !.step = "after"])

\* The $set of the fields that change; nothing when the card is gone.
SetItem(r) ==
    /\ At(r, "update", "set")
    /\ LET c == req[r].card IN
       card' = IF Exists(c) THEN [card EXCEPT ![c] = Patched(@, req[r].patch)] ELSE card
    /\ Continue(r, [req[r] EXCEPT !.step = "after"])

ReadUpdatedAsMoves(r) ==  \* mutant: a card that changed anything is a move
    /\ At(r, "update", "after")
    /\ LET c == req[r].card IN
       IF ~Exists(c) THEN End(r) ELSE ToPublish(r, c, card[c], "moved")
    /\ UNCHANGED mentioned

\* get_item after the write; the event is a move when the lane differs from the
\* one read first, so that an assignment that another request's move overlaps is
\* announced as that move.
ReadUpdated(r) ==
    /\ At(r, "update", "after")
    /\ LET c == req[r].card
           moved == Exists(c) /\ card[c].lane # req[r].before
       IN /\ IF ~Exists(c) THEN End(r)
             ELSE ToPublish(r, c, card[c], IF moved THEN "moved" ELSE "updated")
          /\ mentioned' = IF moved /\ req[r].patch.assigned = TRUE /\ card[c].assigned
                          THEN mentioned \cup {c} ELSE mentioned

\* DELETE items: read, then delete_one.
DeleteItem(r) ==
    \/ /\ \E c \in Cards :
            BeginOn(r, c, [op |-> "delete", step |-> "remove", card |-> c, item |-> card[c]])
       /\ UNCHANGED card
    \/ /\ At(r, "delete", "remove")
       /\ card' = [card EXCEPT ![req[r].card] = Deleted]
       /\ ToPublish(r, req[r].card, req[r].item, "deleted")

\* The cards whose lane a request's step writes.
Placing(r) == {c \in Cards : \/ card[c] = Unborn /\ card'[c] # Unborn
                             \/ /\ At(r, "update", "set") /\ req[r].card = c
                                /\ req[r].patch.lane # Keep}

\* The write to the cards of a request's step, with the history it leaves.
WriteCards(r) ==
    /\ CreateItem(r) \/ SetItem(r) \/ DeleteItem(r)
    /\ strays' = {c \in Cards : /\ card'[c] \notin {Unborn, Deleted}
                                /\ IF c \in Placing(r) THEN card'[c].lane \notin OpenLanes
                                   ELSE c \in strays}
    /\ mentioned' = {c \in mentioned : card'[c] \notin {Unborn, Deleted} /\ card'[c].assigned}
    /\ UNCHANGED <<board, faults>>

ReadCards(r) ==
    /\ \/ ReadForUpdate(r) /\ UNCHANGED mentioned
       \/ ReadUpdated(r)
    /\ UNCHANGED <<board, card, strays, faults>>

-----------------------------------------------------------------------------
AddAtLength(r) ==  \* mutant: the order is the number of lanes, not past the last
    /\ \/ Begin(r, [op |-> "addLane", read |-> lanes]) /\ UNCHANGED board
       \/ /\ req[r].op = "addLane"
          /\ \E l \in Lanes \ laneIds :
               /\ lanes' = Append(lanes, [id |-> l, order |-> Len(req[r].read), renamed |-> FALSE])
               /\ laneIds' = laneIds \cup {l}
          /\ End(r)
    /\ UNCHANGED <<card, history, faults>>

\* add_column: the board is read for the highest order, then the lane pushed.
AddColumn(r) ==
    /\ \/ Begin(r, [op |-> "addLane", read |-> lanes]) /\ UNCHANGED board
       \/ /\ req[r].op = "addLane"
          /\ \E l \in Lanes \ laneIds :
               /\ lanes' = Append(lanes, [id |-> l, renamed |-> FALSE,
                                          order |-> Max(Orders(req[r].read) \cup {-1}) + 1])
               /\ laneIds' = laneIds \cup {l}
          /\ End(r)
    /\ UNCHANGED <<card, history, faults>>

LaneNamed(columns, l) == CHOOSE i \in DOMAIN columns : columns[i].id = l
Reordered(columns, wanted) ==
    [i \in DOMAIN wanted |-> [columns[LaneNamed(columns, wanted[i])] EXCEPT !.order = i - 1]]

\* Lists a client may send: one entry for a lane or two, too few or too many.
LaneLists == UNION {[1..n -> Lanes] : n \in 1..Len(lanes) + 1}

ReorderSubset(r) ==  \* mutant: the list may leave lanes out
    /\ \/ /\ \E wanted \in LaneLists :
               /\ IsInjective(wanted) /\ ToSet(wanted) \subseteq IdsOf(lanes)
               /\ Begin(r, [op |-> "reorder", read |-> lanes, wanted |-> wanted])
          /\ UNCHANGED lanes
       \/ /\ req[r].op = "reorder"
          /\ lanes' = Reordered(req[r].read, req[r].wanted)
          /\ End(r)
    /\ UNCHANGED <<laneIds, card, history, faults>>

\* reorder_columns: the board is read, the list checked against it, and the
\* whole array written from what was read.
ReorderColumns(r) ==
    /\ \/ /\ \E wanted \in LaneLists :
               /\ ToSet(wanted) = IdsOf(lanes) /\ Len(wanted) = Len(lanes)
               /\ Begin(r, [op |-> "reorder", read |-> lanes, wanted |-> wanted])
          /\ UNCHANGED lanes
       \/ /\ req[r].op = "reorder"
          /\ lanes' = Reordered(req[r].read, req[r].wanted)
          /\ End(r)
    /\ UNCHANGED <<laneIds, card, history, faults>>

\* rename_column: the write names the lane, and does nothing when it is gone.
RenameColumn(r) ==
    /\ \/ /\ \E l \in IdsOf(lanes) : Begin(r, [op |-> "rename", lane |-> l])
          /\ UNCHANGED lanes
       \/ /\ req[r].op = "rename"
          /\ lanes' = [i \in DOMAIN lanes |->
                         [lanes[i] EXCEPT !.renamed = @ \/ lanes[i].id = req[r].lane]]
          /\ End(r)
    /\ UNCHANGED <<laneIds, card, history, faults>>

\* $pull: ids differ, so that at most one lane goes, and the others keep their order.
Pulled(columns, l) ==
    IF l \in IdsOf(columns) THEN RemoveAt(columns, LaneNamed(columns, l)) ELSE columns

DeleteColumnUncounted(r) ==  \* mutant: the lane's cards are not counted
    /\ \/ /\ Len(lanes) > 1
          /\ \E l \in IdsOf(lanes) :
               Begin(r, [op |-> "deleteLane", step |-> "pull", lane |-> l])
          /\ UNCHANGED lanes
       \/ /\ At(r, "deleteLane", "pull")
          /\ lanes' = Pulled(lanes, req[r].lane)
          /\ End(r)
    /\ UNCHANGED <<laneIds, card, history, faults>>

\* delete_column: not the last lane, no card in it, then the pull.
DeleteColumn(r) ==
    /\ \/ /\ Len(lanes) > 1
          /\ \E l \in IdsOf(lanes) :
               Begin(r, [op |-> "deleteLane", step |-> "count", lane |-> l])
          /\ UNCHANGED lanes
       \/ /\ At(r, "deleteLane", "count")
          /\ IF \E c \in Cards : Exists(c) /\ card[c].lane = req[r].lane
             THEN End(r)
             ELSE Continue(r, [req[r] EXCEPT !.step = "pull"])
          /\ UNCHANGED lanes
       \/ /\ At(r, "deleteLane", "pull")
          /\ lanes' = Pulled(lanes, req[r].lane)
          /\ End(r)
    /\ UNCHANGED <<laneIds, card, history, faults>>

-----------------------------------------------------------------------------
PublishOnlyNews(r, published) ==  \* mutant: only a new card mentions anybody
    /\ req[r].op \in CardOps /\ req[r].step = "publish"
    /\ IF published THEN UNCHANGED faults ELSE faults < MaxFaults /\ faults' = faults + 1
    /\ IF req[r].event = "created" /\ req[r].item.assigned
       THEN Continue(r, [req[r] EXCEPT !.step = "enqueue"])
       ELSE End(r)
    /\ UNCHANGED <<board, card, history>>

\* _emit, first the board event.  A publication that fails is logged.
Publish(r, published) ==
    /\ req[r].op \in CardOps /\ req[r].step = "publish"
    /\ IF published THEN UNCHANGED faults ELSE faults < MaxFaults /\ faults' = faults + 1
    /\ IF req[r].event \in {"created", "updated"} /\ req[r].item.assigned
       THEN Continue(r, [req[r] EXCEPT !.step = "enqueue"])
       ELSE End(r)
    /\ UNCHANGED <<board, card, history>>

\* _emit, then the mention job; a broker that refuses it is logged.
EnqueueMention(r) ==
    /\ req[r].op \in CardOps /\ req[r].step = "enqueue"
    /\ LET c == req[r].card IN
       mentioned' = IF Exists(c) /\ card[c].assigned THEN mentioned \cup {c} ELSE mentioned
    /\ End(r)
    /\ UNCHANGED <<board, card, strays, faults>>

\* The service dies: what its requests had not yet done is never done.
Crash ==
    /\ faults < MaxFaults /\ InProgress(LaneOps \cup CardOps) # {}
    /\ faults' = faults + 1
    /\ mentioned' = mentioned \cup
                       {c \in Cards : Touches(c) # {} /\ Exists(c) /\ card[c].assigned}
    /\ req' = [r \in Requests |-> Idle]
    /\ UNCHANGED <<board, card, strays>>

LaneStep(r) == AddColumn(r) \/ ReorderColumns(r) \/ RenameColumn(r) \/ DeleteColumn(r)

Next ==
    \/ \E r \in Requests :
         \/ WriteCards(r) \/ ReadCards(r) \/ LaneStep(r)
         \/ (\E ok \in BOOLEAN : Publish(r, ok)) \/ EnqueueMention(r)
    \/ Crash

Spec == Init /\ [][Next]_vars

-----------------------------------------------------------------------------
(* repository.py:170 "a board needs one": the board always has a lane, and     *)
(* its lanes have ids and orders of their own, so that they sort one way.     *)
LanesWellFormed ==
    /\ lanes # <<>>
    /\ \A i, j \in DOMAIN lanes :
         i # j => lanes[i].id # lanes[j].id /\ lanes[i].order # lanes[j].order

(* A lane leaves the board only when a request deletes that lane, a deleted   *)
(* lane never returns, and a lane keeps its new name, whatever reorder_columns *)
(* writes over the array (repository.py:147 "can't drop or duplicate a lane"). *)
LanesOnlyByRequest ==
    [][/\ \A l \in IdsOf(lanes) \ IdsOf(lanes') :
            \E r \in Requests : At(r, "deleteLane", "pull") /\ req[r].lane = l
       /\ IdsOf(lanes') \cap laneIds \subseteq IdsOf(lanes)
       /\ \A i \in DOMAIN lanes, j \in DOMAIN lanes' :
            lanes[i].id = lanes'[j].id /\ lanes[i].renamed => lanes'[j].renamed]_vars

(* No update brings a deleted card back, however late it writes.             *)
DeletedStaysDeleted ==
    [][\A c \in Cards : card[c] = Deleted => card'[c] = Deleted]_vars

(* Updates of different fields do not undo each other: a field of a card      *)
(* changes only to what a patch that names it asked for.                     *)
FieldsChangeByPatch ==
    [][\A c \in Cards : Exists(c) /\ card'[c] \notin {Unborn, Deleted} /\ card'[c] # card[c] =>
         \E r \in Touches(c) : At(r, "update", "set") /\ card'[c] = Patched(card[c], req[r].patch)]_vars

(* repository.py:171 "so cards are never silently orphaned": every card is in *)
(* a lane of the board.                                                      *)
NoOrphans == \A c \in Cards : Exists(c) => card[c].lane \in IdsOf(lanes)

(* The count in delete_column protects every card that was in a lane when it  *)
(* ran, whatever other requests do meanwhile: a card is without a lane only   *)
(* if it was last put into one after that lane's cards were counted, or its   *)
(* deletion was over.                                                        *)
OnlyStraysAreOrphaned ==
    \A c \in Cards : Exists(c) /\ card[c].lane \notin IdsOf(lanes) => c \in strays

\* Request r is on its way to enqueue a mention, unless another one moves its card.
Owes(r) ==
    \/ At(r, "update", "after") /\ req[r].patch.assigned = TRUE
    \/ /\ req[r].op \in CardOps /\ req[r].step = "publish" /\ req[r].item.assigned
       /\ req[r].event \in {"created", "updated"}
    \/ req[r].op \in CardOps /\ req[r].step = "enqueue"

(* However requests on a card overlap, an assignee's mention is never just    *)
(* forgotten: since the card got its assignee the job was enqueued, or failed, *)
(* or was taken for another request's move (main.py:305), or a request that   *)
(* is still in progress will enqueue it.                                     *)
AssignedIsMentioned ==
    \A c \in Cards :
        Exists(c) /\ card[c].assigned => c \in mentioned \/ \E r \in Touches(c) : Owes(r)
=============================================================================
