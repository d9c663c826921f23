------------------------- MODULE BoardContentProofs -------------------------
(***************************************************************************)
(* Proofs about BoardContent for any number of cards, lanes and requests:    *)
(* a deleted card stays deleted, updates change only what they name, and an  *)
(* assignee's mention is never just forgotten, however the requests          *)
(* interleave; with lane edits one at a time, the lanes stay well formed and *)
(* leave only by request, and no card loses its lane but by entering it      *)
(* after the count.                                                          *)
(***************************************************************************)
EXTENDS BoardContent, DataLemmas

USE ContentConstants

AnyPatch == [lane : Lanes \cup {Keep}, assigned : BOOLEAN \cup {Keep}]
Stored == Contents \cup {Unborn, Deleted}
EventKinds == {"created", "updated", "moved", "deleted"}

Inserting == [op : {"create"}, step : {"insert"}, card : {Keep}, item : Contents]
Updating == [op : {"update"}, step : {"reread", "set", "after"}, card : Cards,
             before : Lanes, patch : AnyPatch]
Removing == [op : {"delete"}, step : {"remove"}, card : Cards, item : Contents]
Emitting == [op : CardOps, step : {"publish", "enqueue"}, card : Cards, item : Contents,
             event : EventKinds]

\* What the requests on cards keep, and what is stored under a card's id.
CardsTyped ==
    /\ card \in [Cards -> Stored]
    /\ req = [r \in Requests |-> req[r]]
    /\ \A r \in Requests :
         req[r].op \in CardOps => req[r] \in Inserting \cup Updating \cup Removing \cup Emitting

LEMMA PatchedStays ==
  ASSUME NEW content \in Contents, NEW p \in AnyPatch
  PROVE  Patched(content, p) \in Contents
  BY DEF Contents, AnyPatch, Patched

LEMMA PatchIsOne == Patches \subseteq AnyPatch
  BY DEF Patches, AnyPatch

LEMMA InitCards == Init => CardsTyped
  BY DEF Init, CardsTyped, Stored, Idle, CardOps

\* A request that leaves this request's card and everybody's records alone.
LEMMA Untouched ==
  ASSUME CardsTyped, NEW r \in Requests, NEW m, req' = [req EXCEPT ![r] = m],
         m.op \in CardOps => m \in Inserting \cup Updating \cup Removing \cup Emitting,
         card' \in [Cards -> Stored]
  PROVE  CardsTyped'
<1>1. req' = [s \in Requests |-> IF s = r THEN m ELSE req[s]]
  BY DEF CardsTyped
<1>2. req' = [s \in Requests |-> req'[s]]
  BY <1>1
<1>3. ASSUME NEW s \in Requests, req'[s].op \in CardOps
      PROVE  req'[s] \in Inserting \cup Updating \cup Removing \cup Emitting
  BY <1>1, <1>3 DEF CardsTyped
<1> QED
  BY <1>2, <1>3 DEF CardsTyped

\* No lane edit touches the cards, and it stays a lane edit.
LEMMA LaneStepLeavesCards ==
  ASSUME NEW r \in Requests, LaneStep(r)
  PROVE  /\ UNCHANGED card /\ req[r].op \notin CardOps
         /\ \E m : req' = [req EXCEPT ![r] = m] /\ m.op \notin CardOps
<1> USE DEF At, Continue, End, Begin, Idle, CardOps
<1> DEFINE Edit(m) == req' = [req EXCEPT ![r] = m] /\ m.op \notin CardOps
<1>1. CASE AddColumn(r)
  <2>1. Edit([op |-> "addLane", read |-> lanes]) \/ Edit(Idle)
    BY <1>1 DEF AddColumn
  <2> QED
    BY <1>1, <2>1 DEF AddColumn
<1>2. CASE ReorderColumns(r)
  <2>1. (\E wanted : Edit([op |-> "reorder", read |-> lanes, wanted |-> wanted])) \/ Edit(Idle)
    BY <1>2 DEF ReorderColumns
  <2> QED
    BY <1>2, <2>1 DEF ReorderColumns
<1>3. CASE RenameColumn(r)
  <2>1. (\E l : Edit([op |-> "rename", lane |-> l])) \/ Edit(Idle)
    BY <1>3 DEF RenameColumn
  <2> QED
    BY <1>3, <2>1 DEF RenameColumn
<1>4. CASE DeleteColumn(r)
  <2>0. UNCHANGED card /\ req[r].op \notin CardOps
    BY <1>4 DEF DeleteColumn
  <2>1. CASE At(r, "deleteLane", "count") /\ req' = [req EXCEPT ![r] = [req[r] EXCEPT !.step = "pull"]]
    <3>1. [req[r] EXCEPT !.step = "pull"].op = "deleteLane"
      BY <2>1
    <3> QED
      BY <2>0, <2>1, <3>1
  <2>2. CASE req' = [req EXCEPT ![r] = Idle]
    <3>1. Edit(Idle)
      BY <2>2
    <3> QED
      BY <2>0, <3>1
  <2>3. CASE \E l : req' = [req EXCEPT ![r] = [op |-> "deleteLane", step |-> "count", lane |-> l]]
    <3>1. PICK l : req' = [req EXCEPT ![r] = [op |-> "deleteLane", step |-> "count", lane |-> l]]
      BY <2>3
    <3>2. Edit([op |-> "deleteLane", step |-> "count", lane |-> l])
      BY <3>1
    <3> QED
      BY <2>0, <3>2
  <2> QED
    BY <1>4, <2>1, <2>2, <2>3 DEF DeleteColumn
<1> QED
  BY <1>1, <1>2, <1>3, <1>4 DEF LaneStep

LEMMA StepCards == CardsTyped /\ [Next]_vars => CardsTyped'
<1> SUFFICES ASSUME CardsTyped, [Next]_vars PROVE CardsTyped'
  OBVIOUS
<1> USE DEF At, Continue, End, Begin, Idle, CardOps
<1>1. card \in [Cards -> Stored] /\ \A c \in Cards : Exists(c) => card[c] \in Contents
  BY DEF CardsTyped, Stored, Exists
<1>2. ASSUME NEW r \in Requests, CreateItem(r) PROVE CardsTyped'
  <2>1. ASSUME NEW item \in Contents, BeginCreate(r, item), UNCHANGED card PROVE CardsTyped'
    BY <1>1, <2>1, Untouched DEF BeginCreate, Inserting
  <2>2. ASSUME NEW c \in Cards, At(r, "create", "insert"),
               card' = [card EXCEPT ![c] = req[r].item], ToPublish(r, c, req[r].item, "created")
        PROVE  CardsTyped'
    <3>1. req[r] \in Inserting
      BY <2>2 DEF CardsTyped, Updating, Removing, Emitting
    <3> QED
      BY <1>1, <2>2, <3>1, Untouched DEF Inserting, Emitting, ToPublish, EventKinds, Stored
  <2> QED
    BY <1>2, <2>1, <2>2 DEF CreateItem
<1>3. ASSUME NEW r \in Requests, ReadForUpdate(r), UNCHANGED card PROVE CardsTyped'
  <2>1. ASSUME NEW c \in Cards, NEW p \in Patches, BeginUpdate(r, c, p) PROVE CardsTyped'
    <3>1. card[c].lane \in Lanes
      BY <1>1, <2>1 DEF BeginUpdate, BeginOn, Contents
    <3> QED
      BY <1>1, <1>3, <2>1, <3>1, PatchIsOne, Untouched DEF BeginUpdate, BeginOn, Updating
  <2>2. CASE At(r, "update", "reread")
    <3>1. req[r] \in Updating
      BY <2>2 DEF CardsTyped, Inserting, Removing, Emitting
    <3>2. CASE ~Exists(req[r].card)
      BY <1>1, <1>3, <2>2, <3>1, <3>2, Untouched DEF ReadForUpdate, BeginUpdate, BeginOn, Updating
    <3>3. CASE Exists(req[r].card)
      <4> DEFINE m == [req[r] EXCEPT !.step = "set",
                              !.patch.lane = IF @ = card[req[r].card].lane THEN Keep ELSE @]
      <4>1. m \in Updating
        BY <3>1 DEF Updating, AnyPatch
      <4>2. req' = [req EXCEPT ![r] = m]
        BY <1>3, <2>2, <3>3 DEF ReadForUpdate, BeginUpdate, BeginOn
      <4> HIDE DEF m
      <4> QED
        BY <1>1, <1>3, <4>1, <4>2, Untouched
    <3> QED
      BY <3>2, <3>3
  <2> QED
    BY <1>3, <2>1, <2>2 DEF ReadForUpdate
<1>4. ASSUME NEW r \in Requests, SetItem(r) PROVE CardsTyped'
  <2>1. req[r] \in Updating
    BY <1>4 DEF SetItem, CardsTyped, Inserting, Removing, Emitting
  <2>2. card' \in [Cards -> Stored]
    BY <1>1, <1>4, <2>1, PatchedStays DEF SetItem, Updating, Stored
  <2> QED
    BY <1>4, <2>1, <2>2, Untouched DEF SetItem, Updating
<1>5. ASSUME NEW r \in Requests, ReadUpdated(r), UNCHANGED card PROVE CardsTyped'
  <2>1. req[r] \in Updating
    BY <1>5 DEF ReadUpdated, CardsTyped, Inserting, Removing, Emitting
  <2> QED
    BY <1>1, <1>5, <2>1, Untouched DEF ReadUpdated, ToPublish, Updating, Emitting, EventKinds
<1>6. ASSUME NEW r \in Requests, DeleteItem(r) PROVE CardsTyped'
  <2>1. ASSUME NEW c \in Cards, UNCHANGED card,
               BeginOn(r, c, [op |-> "delete", step |-> "remove", card |-> c, item |-> card[c]])
        PROVE  CardsTyped'
    BY <1>1, <2>1, Untouched DEF BeginOn, Removing
  <2>2. CASE At(r, "delete", "remove")
    <3>1. req[r] \in Removing
      BY <2>2 DEF CardsTyped, Inserting, Updating, Emitting
    <3>2. /\ card' = [card EXCEPT ![req[r].card] = Deleted]
          /\ ToPublish(r, req[r].card, req[r].item, "deleted")
      BY <1>6, <2>2 DEF DeleteItem, BeginOn
    <3>3. card' \in [Cards -> Stored]
      BY <1>1, <3>1, <3>2 DEF Stored
    <3> QED
      BY <3>1, <3>2, <3>3, Untouched DEF ToPublish, Removing, Emitting, EventKinds
  <2> QED
    BY <1>6, <2>1, <2>2 DEF DeleteItem
<1>7. ASSUME NEW r \in Requests, LaneStep(r) PROVE CardsTyped'
  <2>1. UNCHANGED card /\ \E m : req' = [req EXCEPT ![r] = m] /\ m.op \notin CardOps
    BY <1>7, LaneStepLeavesCards
  <2> QED
    BY <1>1, <2>1, Untouched
<1>8. ASSUME NEW r \in Requests, NEW ok \in BOOLEAN, Publish(r, ok) PROVE CardsTyped'
  <2>1. req[r] \in Emitting
    BY <1>8 DEF Publish, CardsTyped, Inserting, Updating, Removing
  <2>2. [req[r] EXCEPT !.step = "enqueue"] \in Emitting
    BY <2>1 DEF Emitting
  <2> QED
    BY <1>1, <1>8, <2>2, Untouched DEF Publish
<1>9. ASSUME NEW r \in Requests, EnqueueMention(r) PROVE CardsTyped'
  BY <1>1, <1>9, Untouched DEF EnqueueMention
<1>10. CASE Crash
  BY <1>10 DEF Crash, CardsTyped
<1>11. CASE UNCHANGED vars
  BY <1>11 DEF vars, board, CardsTyped
<1> QED
  BY <1>2, <1>3, <1>4, <1>5, <1>6, <1>7, <1>8, <1>9, <1>10, <1>11 DEF Next, WriteCards, ReadCards

-----------------------------------------------------------------------------
\* What a request's write does to one card.
LEMMA CardWrite ==
  ASSUME CardsTyped, NEW r \in Requests, WriteCards(r), NEW c \in Cards, card'[c] # card[c]
  PROVE  \/ card[c] = Unborn
         \/ card'[c] = Deleted
         \/ /\ Exists(c) /\ r \in Touches(c) /\ At(r, "update", "set")
            /\ card'[c] = Patched(card[c], req[r].patch)
<1>1. ASSUME CreateItem(r) PROVE card[c] = Unborn
  BY <1>1 DEF CreateItem, CardsTyped
<1>2. ASSUME DeleteItem(r) PROVE card'[c] = Deleted
  BY <1>2 DEF DeleteItem, CardsTyped
<1>3. ASSUME SetItem(r)
      PROVE  /\ Exists(c) /\ r \in Touches(c) /\ At(r, "update", "set")
             /\ card'[c] = Patched(card[c], req[r].patch)
  BY <1>3 DEF SetItem, CardsTyped, Exists, Touches, InProgress, At, CardOps
<1> QED
  BY <1>1, <1>2, <1>3 DEF WriteCards

LEMMA OnlyWritesChange ==
  ASSUME [Next]_vars, card' # card
  PROVE  \E r \in Requests : WriteCards(r)
<1>1. ASSUME NEW r \in Requests, LaneStep(r) PROVE card' = card
  BY <1>1, LaneStepLeavesCards
<1> QED
  BY <1>1 DEF Next, ReadCards, Publish, EnqueueMention, Crash, vars

LEMMA CardsTypedHolds == Spec => []CardsTyped
  BY InitCards, StepCards, PTL DEF Spec

(* No update, however late it writes, brings back a card that was deleted.    *)
THEOREM NothingReturnsFromDeletion == Spec => DeletedStaysDeleted
<1>1. CardsTyped /\ [Next]_vars => [\A c \in Cards : card[c] = Deleted => card'[c] = Deleted]_vars
  <2> SUFFICES ASSUME CardsTyped, [Next]_vars, NEW c \in Cards, card[c] = Deleted
               PROVE  card'[c] = Deleted
    OBVIOUS
  <2> QED
    BY OnlyWritesChange, CardWrite DEF Exists
<1> QED
  BY <1>1, CardsTypedHolds, PTL DEF Spec, DeletedStaysDeleted

(* Concurrent updates never undo each other's fields: a card changes only by    *)
(* the patch of an update in progress on it, applied to what it is then.      *)
THEOREM UpdatesKeepOtherFields == Spec => FieldsChangeByPatch
<1>1. CardsTyped /\ [Next]_vars =>
        [\A c \in Cards : Exists(c) /\ card'[c] \notin {Unborn, Deleted} /\ card'[c] # card[c] =>
           \E r \in Touches(c) :
             At(r, "update", "set") /\ card'[c] = Patched(card[c], req[r].patch)]_vars
  <2> SUFFICES ASSUME CardsTyped, [Next]_vars, NEW c \in Cards, Exists(c),
                      card'[c] \notin {Unborn, Deleted}, card'[c] # card[c]
               PROVE  \E r \in Touches(c) :
                        At(r, "update", "set") /\ card'[c] = Patched(card[c], req[r].patch)
    OBVIOUS
  <2> QED
    BY OnlyWritesChange, CardWrite DEF Exists
<1> QED
  BY <1>1, CardsTypedHolds, PTL DEF Spec, FieldsChangeByPatch

-----------------------------------------------------------------------------
\* No card ever goes back to not being there yet.
LEMMA BornForGood ==
  ASSUME CardsTyped, [Next]_vars, NEW c \in Cards, card[c] # Unborn
  PROVE  card'[c] # Unborn
<1>1. ASSUME NEW r \in Requests, r \in Touches(c), At(r, "update", "set"), Exists(c)
      PROVE  Patched(card[c], req[r].patch) # Unborn
  <2>1. card[c] \in Contents /\ req[r].patch \in AnyPatch
    BY <1>1 DEF CardsTyped, Stored, Exists, Touches, InProgress, At, Inserting, Updating, Removing, Emitting
  <2> QED
    BY <2>1, PatchedStays
<1> QED
  BY <1>1, OnlyWritesChange, CardWrite

\* With one request on a card at a time, no two are at work on the same card.
SerialInv ==
    /\ \A c \in Cards : \A r, s \in Touches(c) : r = s
    /\ \A c \in Cards : Touches(c) # {} => card[c] # Unborn

LEMMA InitSerial == Init => SerialInv
  BY DEF Init, SerialInv, Touches, InProgress, Idle, CardOps

\* A step of request r leaves the cards to whom they belong, if it takes none that
\* another request has.
LEMMA SerialStays ==
  ASSUME SerialInv, NEW r \in Requests, \A s \in Requests \ {r} : req'[s] = req[s],
         \A c \in Cards : card[c] # Unborn => card'[c] # Unborn,
         \A c \in Cards : r \in Touches(c)' => r \in Touches(c) \/ (Touches(c) = {} /\ card'[c] # Unborn)
  PROVE  SerialInv'
<1>1. ASSUME NEW c \in Cards, NEW s \in Requests \ {r} PROVE s \in Touches(c)' <=> s \in Touches(c)
  BY <1>1 DEF Touches, InProgress
<1>2. ASSUME NEW c \in Cards PROVE Touches(c)' \subseteq Requests /\ Touches(c) \subseteq Requests
  BY DEF Touches, InProgress
<1>3. ASSUME NEW c \in Cards, NEW s \in Touches(c)', NEW t \in Touches(c)' PROVE s = t
  BY <1>1, <1>2, <1>3 DEF SerialInv
<1>4. ASSUME NEW c \in Cards, NEW s \in Touches(c)' PROVE card'[c] # Unborn
  BY <1>1, <1>2, <1>4 DEF SerialInv
<1> QED
  BY <1>3, <1>4 DEF SerialInv

LEMMA StepSerial ==
  ASSUME CardWritesSerial, CardsTyped, CardsTyped', SerialInv, [Next]_vars
  PROVE  SerialInv'
<1>a. ASSUME NEW r \in Requests, NEW m, req' = [req EXCEPT ![r] = m]
      PROVE  req'[r] = m /\ \A s \in Requests \ {r} : req'[s] = req[s]
  BY <1>a DEF CardsTyped
<1>b. \A c \in Cards : card[c] # Unborn => card'[c] # Unborn
  BY BornForGood
<1>c. ASSUME NEW r \in Requests, NEW m, req' = [req EXCEPT ![r] = m],
             \/ m.op \notin CardOps \/ m.card \notin Cards
             \/ req[r].op \in CardOps /\ m.card = req[r].card
             \/ Touches(m.card) = {} /\ card'[m.card] # Unborn
      PROVE  SerialInv'
  BY <1>a, <1>b, <1>c, SerialStays DEF Touches, InProgress
<1> USE DEF At, Continue, End, Begin
<1>e. ASSUME NEW r \in Requests, End(r) PROVE SerialInv'
  BY <1>c, <1>e DEF Idle, CardOps
<1>1. ASSUME NEW r \in Requests, CreateItem(r) PROVE SerialInv'
  <2>1. ASSUME NEW item \in Contents, BeginCreate(r, item) PROVE SerialInv'
    BY <1>c, <2>1 DEF BeginCreate
  <2>2. ASSUME NEW c \in Cards, req[r].op = "create", req[r].step = "insert", card[c] = Unborn,
               card' = [card EXCEPT ![c] = req[r].item], ToPublish(r, c, req[r].item, "created")
        PROVE  SerialInv'
    <3>1. req[r].item \in Contents
      BY <2>2 DEF CardsTyped, Inserting, Updating, Removing, Emitting, CardOps
    <3>2. Touches(c) = {} /\ card'[c] # Unborn
      BY <2>2, <3>1 DEF SerialInv, CardsTyped
    <3> QED
      BY <1>c, <2>2, <3>2 DEF ToPublish
  <2> QED
    BY <1>1, <2>1, <2>2 DEF CreateItem
<1>2. ASSUME NEW r \in Requests, NEW c \in Cards, NEW m, BeginOn(r, c, m), m.card = c PROVE SerialInv'
  BY <1>b, <1>c, <1>2 DEF BeginOn, Exists
<1>3. ASSUME NEW r \in Requests, ReadForUpdate(r) PROVE SerialInv'
  <2>1. ASSUME NEW c \in Cards, NEW p \in Patches, BeginUpdate(r, c, p) PROVE SerialInv'
    BY <1>2, <2>1 DEF BeginUpdate
  <2>2. ASSUME NEW x, req[r].op = "update", req[r].step = "reread",
               req' = [req EXCEPT ![r] = [req[r] EXCEPT !.step = "set",
                                            !.patch.lane = IF @ = x THEN Keep ELSE @]]
        PROVE  SerialInv'
    <3>1. req[r] \in Updating
      BY <2>2 DEF CardsTyped, Inserting, Removing, Emitting, CardOps
    <3> DEFINE m == [req[r] EXCEPT !.step = "set", !.patch.lane = IF @ = x THEN Keep ELSE @]
    <3>2. m.card = req[r].card
      BY <3>1 DEF Updating
    <3> QED
      BY <1>c, <2>2, <3>2 DEF CardOps
  <2> QED
    BY <1>3, <1>e, <2>1, <2>2 DEF ReadForUpdate
<1>4. ASSUME NEW r \in Requests, SetItem(r) PROVE SerialInv'
  <2>1. req[r] \in Updating
    BY <1>4 DEF SetItem, CardsTyped, Inserting, Removing, Emitting, CardOps
  <2>2. [req[r] EXCEPT !.step = "after"].card = req[r].card
    BY <2>1 DEF Updating
  <2> QED
    BY <1>4, <1>c, <2>2 DEF SetItem, CardOps
<1>5. ASSUME NEW r \in Requests, ReadUpdated(r) PROVE SerialInv'
  BY <1>5, <1>c, <1>e DEF ReadUpdated, ToPublish, CardOps
<1>6. ASSUME NEW r \in Requests, DeleteItem(r) PROVE SerialInv'
  BY <1>6, <1>2, <1>c DEF DeleteItem, ToPublish, CardOps
<1>7. ASSUME NEW r \in Requests, LaneStep(r) PROVE SerialInv'
  BY <1>7, <1>c, LaneStepLeavesCards
<1>8. ASSUME NEW r \in Requests, NEW ok \in BOOLEAN, Publish(r, ok) PROVE SerialInv'
  <2>1. req[r] \in Emitting
    BY <1>8 DEF Publish, CardsTyped, Inserting, Updating, Removing
  <2>2. [req[r] EXCEPT !.step = "enqueue"].card = req[r].card
    BY <2>1 DEF Emitting
  <2> QED
    BY <1>8, <1>c, <1>e, <2>2 DEF Publish
<1>9. ASSUME NEW r \in Requests, EnqueueMention(r) PROVE SerialInv'
  BY <1>9, <1>e DEF EnqueueMention
<1>10. CASE Crash
  BY <1>10 DEF Crash, SerialInv, Touches, InProgress, Idle, CardOps
<1>11. CASE UNCHANGED vars
  BY <1>11 DEF vars, board, SerialInv, Touches, InProgress
<1> QED
  BY <1>1, <1>3, <1>4, <1>5, <1>6, <1>7, <1>8, <1>9, <1>10, <1>11 DEF Next, WriteCards, ReadCards

-----------------------------------------------------------------------------
\* The assignee of card c was told, or will be.
Tracked(c) == Exists(c) /\ card[c].assigned =>
               c \in mentioned \/ \E r \in Touches(c) : Owes(r)

\* A step of request r leaves the other requests' debts as they are, so that only its
\* own debt, the card's history and a new assignment are left to look at.
LEMMA StillTracked ==
  ASSUME NEW r \in Requests, \A s \in Requests \ {r} : req'[s] = req[s], NEW c \in Cards, Tracked(c),
         (r \in Touches(c) /\ Owes(r)) \/ (card'[c] # card[c] /\ ~(Exists(c) /\ card[c].assigned)) =>
            Tracked(c)' \/ (r \in Touches(c)' /\ Owes(r)'),
         c \in mentioned => Tracked(c)'
  PROVE  Tracked(c)'
<1> SUFFICES ASSUME Exists(c)', card'[c].assigned PROVE c \in mentioned' \/ \E s \in Touches(c)' : Owes(s)'
  BY DEF Tracked
<1>1. ASSUME NEW s \in Touches(c), Owes(s), s # r PROVE s \in Touches(c)' /\ Owes(s)'
  BY <1>1 DEF Touches, InProgress, Owes, At
<1>2. CASE Exists(c) /\ card[c].assigned
  BY <1>1, <1>2 DEF Tracked
<1>3. CASE ~(Exists(c) /\ card[c].assigned)
  BY <1>3 DEF Tracked, Exists
<1> QED
  BY <1>2, <1>3

LEMMA StepTracked ==
  ASSUME CardsTyped, CardsTyped', NEW c \in Cards, Tracked(c), [Next]_vars
  PROVE  Tracked(c)'
<1>a. ASSUME NEW r \in Requests, NEW m, req' = [req EXCEPT ![r] = m]
      PROVE  req'[r] = m /\ \A s \in Requests \ {r} : req'[s] = req[s]
  BY <1>a DEF CardsTyped
<1>k. ASSUME c \in mentioned, UNCHANGED card, mentioned \subseteq mentioned' PROVE Tracked(c)'
  BY <1>k DEF Tracked
<1>w. ASSUME NEW r \in Requests, WriteCards(r), c \in mentioned PROVE Tracked(c)'
  BY <1>w DEF WriteCards, Tracked, Exists
<1> USE DEF At, Continue, End, Begin
<1>1. ASSUME NEW r \in Requests, CreateItem(r), WriteCards(r) PROVE Tracked(c)'
  <2>1. ASSUME NEW item \in Contents, BeginCreate(r, item), UNCHANGED card PROVE Tracked(c)'
    <3>1. ~Owes(r)
      BY <2>1 DEF BeginCreate, Owes, Idle, CardOps
    <3> QED
      BY <1>1, <1>a, <1>w, <2>1, <3>1, StillTracked DEF BeginCreate
  <2>2. ASSUME NEW d \in Cards, req[r].op = "create", req[r].step = "insert", card[d] = Unborn,
               card' = [card EXCEPT ![d] = req[r].item], ToPublish(r, d, req[r].item, "created")
        PROVE  Tracked(c)'
    <3>1. ~Owes(r)
      BY <2>2 DEF Owes
    <3>2. /\ req'[r].op = "create" /\ req'[r].step = "publish" /\ req'[r].card = d
          /\ req'[r].item = req[r].item /\ req'[r].event = "created"
          /\ \A s \in Requests \ {r} : req'[s] = req[s]
      BY <2>2 DEF ToPublish, CardsTyped
    <3>3. card'[d] = req[r].item /\ (c # d => card'[c] = card[c])
      BY <2>2 DEF CardsTyped
    <3>4. card'[c] # card[c] => Tracked(c)' \/ (r \in Touches(c)' /\ Owes(r)')
      BY <3>2, <3>3 DEF Tracked, Owes, Touches, InProgress, CardOps
    <3> QED
      BY <1>1, <1>w, <3>1, <3>2, <3>4, StillTracked
  <2> QED
    BY <1>1, <2>1, <2>2 DEF CreateItem
<1>2. ASSUME NEW r \in Requests, SetItem(r), WriteCards(r) PROVE Tracked(c)'
  <2>1. req[r] \in Updating /\ req[r].step = "set"
    BY <1>2 DEF SetItem, CardsTyped, Inserting, Removing, Emitting, CardOps
  <2>2. ~Owes(r)
    BY <2>1 DEF Owes, Updating
  <2>3. /\ req'[r].op = "update" /\ req'[r].step = "after" /\ req'[r].card = req[r].card
        /\ req'[r].patch = req[r].patch /\ \A s \in Requests \ {r} : req'[s] = req[s]
    <3>1. req'[r] = [req[r] EXCEPT !.step = "after"] /\ \A s \in Requests \ {r} : req'[s] = req[s]
      BY <1>2 DEF SetItem, CardsTyped
    <3> QED
      BY <2>1, <3>1 DEF Updating
  <2>4. ASSUME card'[c] # card[c], ~(Exists(c) /\ card[c].assigned), card'[c].assigned
        PROVE  r \in Touches(c)' /\ Owes(r)'
    <3>1. Exists(c) /\ req[r].card = c /\ card'[c] = Patched(card[c], req[r].patch)
      BY <1>2, <2>4 DEF SetItem, CardsTyped, Exists
    <3>2. ~card[c].assigned /\ req[r].patch.assigned \in BOOLEAN \cup {Keep}
      BY <2>1, <2>4, <3>1 DEF Updating, AnyPatch
    <3>3. card'[c].assigned = IF req[r].patch.assigned = Keep THEN card[c].assigned
                             ELSE req[r].patch.assigned
      BY <3>1 DEF Patched
    <3>4. req[r].patch.assigned = TRUE
      BY <2>4, <3>2, <3>3, Zenon
    <3> QED
      BY <2>3, <3>1, <3>4 DEF Owes, Touches, InProgress, CardOps
  <2> QED
    BY <1>2, <1>w, <2>2, <2>3, <2>4, StillTracked DEF Tracked
<1>3. ASSUME NEW r \in Requests, DeleteItem(r), WriteCards(r) PROVE Tracked(c)'
  <2>1. ~Owes(r)
    BY <1>3 DEF DeleteItem, BeginOn, Owes, Idle, CardOps
  <2>2. card'[c] # card[c] => ~Exists(c)'
    BY <1>3 DEF DeleteItem, CardsTyped, Exists
  <2> QED
    BY <1>3, <1>a, <1>w, <2>1, <2>2, StillTracked DEF DeleteItem, BeginOn, ToPublish, Tracked
<1>4. ASSUME NEW r \in Requests, ReadForUpdate(r), UNCHANGED <<card, mentioned>> PROVE Tracked(c)'
  <2>1. ~Owes(r)
    BY <1>4 DEF ReadForUpdate, BeginUpdate, BeginOn, Owes, Idle, CardOps
  <2> QED
    BY <1>4, <1>a, <1>k, <2>1, StillTracked DEF ReadForUpdate, BeginUpdate, BeginOn
<1>5. ASSUME NEW r \in Requests, ReadUpdated(r), UNCHANGED card PROVE Tracked(c)'
  <2> DEFINE moved == Exists(req[r].card) /\ card[req[r].card].lane # req[r].before
  <2>0. req[r].op = "update" /\ req[r].step = "after" /\ req[r].card \in Cards
    BY <1>5 DEF ReadUpdated, CardsTyped, Inserting, Updating, Removing, Emitting, CardOps
  <2>1. /\ mentioned' = IF moved /\ req[r].patch.assigned = TRUE /\ card[req[r].card].assigned
                        THEN mentioned \cup {req[r].card} ELSE mentioned
        /\ IF Exists(req[r].card)
           THEN ToPublish(r, req[r].card, card[req[r].card], IF moved THEN "moved" ELSE "updated")
           ELSE End(r)
    BY <1>5 DEF ReadUpdated
  <2>2. mentioned \subseteq mentioned' /\ \A s \in Requests \ {r} : req'[s] = req[s]
    BY <1>a, <2>1 DEF ToPublish
  <2>3. ASSUME r \in Touches(c), Owes(r), Exists(c), card[c].assigned
        PROVE  c \in mentioned' \/ (r \in Touches(c)' /\ Owes(r)')
    <3>1. req[r].card = c /\ req[r].patch.assigned = TRUE
      BY <2>0, <2>3 DEF Touches, Owes
    <3>2. CASE moved
      BY <2>1, <2>3, <3>1, <3>2
    <3>3. CASE ~moved
      <4>1. /\ req'[r].op = "update" /\ req'[r].step = "publish" /\ req'[r].card = c
            /\ req'[r].item = card[c] /\ req'[r].event = "updated"
        BY <2>0, <2>1, <2>3, <3>1, <3>3 DEF ToPublish, CardsTyped
      <4> QED
        BY <2>3, <4>1 DEF Touches, InProgress, Owes, CardOps
    <3> QED
      BY <3>2, <3>3
  <2> QED
    BY <1>5, <1>k, <2>2, <2>3, StillTracked DEF Tracked, Exists
<1>6. ASSUME NEW r \in Requests, LaneStep(r) PROVE Tracked(c)'
  <2>1. /\ UNCHANGED card /\ req[r].op \notin CardOps
        /\ \E m : req' = [req EXCEPT ![r] = m] /\ m.op \notin CardOps
    BY <1>6, LaneStepLeavesCards
  <2>2. UNCHANGED mentioned
    BY <1>6 DEF LaneStep, AddColumn, ReorderColumns, RenameColumn, DeleteColumn, history
  <2> QED
    BY <1>a, <1>k, <2>1, <2>2, StillTracked DEF Touches, InProgress
<1>7. ASSUME NEW r \in Requests, NEW ok \in BOOLEAN, Publish(r, ok) PROVE Tracked(c)'
  <2>1. req[r] \in Emitting /\ req[r].step = "publish" /\ UNCHANGED <<card, mentioned>>
    BY <1>7 DEF Publish, history, CardsTyped, Inserting, Updating, Removing
  <2>2. ASSUME r \in Touches(c), Owes(r) PROVE r \in Touches(c)' /\ Owes(r)'
    <3>1. req' = [req EXCEPT ![r] = [req[r] EXCEPT !.step = "enqueue"]]
      BY <1>7, <2>1, <2>2 DEF Publish, Owes, Emitting
    <3>2. req'[r].op = req[r].op /\ req'[r].step = "enqueue" /\ req'[r].card = req[r].card
      <4>1. req'[r] = [req[r] EXCEPT !.step = "enqueue"]
        BY <3>1 DEF CardsTyped
      <4> QED
        BY <2>1, <4>1 DEF Emitting
    <3> QED
      BY <2>1, <2>2, <3>2 DEF Owes, Touches, InProgress, Emitting
  <2> QED
    BY <1>7, <1>a, <1>k, <2>1, <2>2, StillTracked DEF Publish
<1>8. ASSUME NEW r \in Requests, EnqueueMention(r) PROVE Tracked(c)'
  <2>1. /\ UNCHANGED card /\ mentioned \subseteq mentioned'
        /\ req[r].card = c /\ Exists(c) /\ card[c].assigned => c \in mentioned'
    BY <1>8 DEF EnqueueMention
  <2>2. r \in Touches(c) => Tracked(c)'
    BY <2>1 DEF Touches, Tracked, Exists
  <2> QED
    BY <1>8, <1>a, <1>k, <2>1, <2>2, StillTracked DEF EnqueueMention
<1>9. CASE Crash
  BY <1>9 DEF Crash, Tracked, Exists
<1>10. CASE UNCHANGED vars
  BY <1>10 DEF vars, history, Tracked, Exists, Touches, InProgress, Owes
<1> QED
  BY <1>1, <1>2, <1>3, <1>4, <1>5, <1>6, <1>7, <1>8, <1>9, <1>10 DEF Next, WriteCards, ReadCards

LEMMA InitTracked == Init => AssignedIsMentioned
  BY DEF Init, AssignedIsMentioned, Exists

(* main.py _emit: however requests on a card overlap, the mention of its        *)
(* assignee is enqueued, or still will be, or was lost to a failure or to being *)
(* told as another request's move; nothing else makes a card forget it.        *)
THEOREM AssigneesAreMentioned == Spec => []AssignedIsMentioned
<1>1. CardsTyped /\ CardsTyped' /\ AssignedIsMentioned /\ [Next]_vars => AssignedIsMentioned'
  BY StepTracked DEF AssignedIsMentioned, Tracked
<1> QED
  BY <1>1, InitTracked, CardsTypedHolds, PTL DEF Spec
-----------------------------------------------------------------------------
Uniquely(columns) == \A i, j \in DOMAIN columns : i # j => columns[i].id # columns[j].id

LEMMA NamedLane ==
  ASSUME NEW columns, NEW l \in IdsOf(columns)
  PROVE  LaneNamed(columns, l) \in DOMAIN columns /\ columns[LaneNamed(columns, l)].id = l
  BY DEF IdsOf, LaneNamed

\* A list that names each lane and is no longer than the board names none twice.
LEMMA NamesEachOnce ==
  ASSUME NEW columns \in Seq(Lane), Uniquely(columns), NEW wanted \in Seq(Lanes),
         ToSet(wanted) = IdsOf(columns), Len(wanted) = Len(columns)
  PROVE  IsInjective(wanted)
<1> DEFINE n == Len(columns)
           ids == [i \in 1..n |-> columns[i].id]
<1>1. n \in Nat /\ IsFiniteSet(1..n) /\ Cardinality(1..n) = n
  <2>1. n \in Nat
    OBVIOUS
  <2> QED
    BY <2>1, UpTo
<1>2. ids \in Bijection(1..n, IdsOf(columns))
  BY DEF IdsOf, Uniquely, Bijection, Injection, Surjection, IsInjective
<1>3. Cardinality(IdsOf(columns)) = n
  BY <1>1, <1>2, FS_Bijection DEF ExistsBijection
<1>4. wanted \in Surjection(1..n, IdsOf(columns))
  BY DEF ToSet, Surjection
<1>5. wanted \in Injection(1..n, IdsOf(columns))
  BY <1>1, <1>3, <1>4, FS_SurjSameCardinalityImpliesInj
<1> QED
  BY <1>5 DEF Injection

-----------------------------------------------------------------------------
\* What is known of a lane edit between its two awaits: the array it read is the
\* array still, which is where lane edits one at a time are needed.
ReadIsCurrent(r) ==
    /\ req[r].op \in {"addLane", "reorder"} => req[r].read = lanes
    /\ req[r].op = "reorder" =>
         /\ req[r].wanted \in Seq(Lanes)
         /\ ToSet(req[r].wanted) = IdsOf(lanes) /\ Len(req[r].wanted) = Len(lanes)
    /\ req[r].op = "deleteLane" => Len(lanes) > 1

LanesTyped ==
    /\ lanes \in Seq(Lane)
    /\ IdsOf(lanes) \subseteq laneIds /\ laneIds \subseteq Lanes
    /\ \E top \in Nat : \A o \in Orders(lanes) : o <= top

EditsTyped ==
    /\ req = [r \in Requests |-> req[r]]
    /\ \A r, s \in InProgress(LaneOps) : r = s
    /\ \A r \in InProgress(LaneOps) : ReadIsCurrent(r)

LaneInv == LanesTyped /\ LanesWellFormed /\ EditsTyped

\* A request that leaves the lanes alone and does not start to edit them.
LEMMA LanesLeft ==
  ASSUME LaneInv, NEW r \in Requests, NEW m, req' = [req EXCEPT ![r] = m],
         m.op \notin LaneOps, UNCHANGED board
  PROVE  LaneInv'
<1>1. \A s \in Requests : req'[s] = IF s = r THEN m ELSE req[s]
  BY DEF LaneInv, EditsTyped
<1>2. InProgress(LaneOps)' \subseteq InProgress(LaneOps)
  BY <1>1 DEF InProgress
<1>3. ASSUME NEW s \in InProgress(LaneOps)' PROVE req'[s] = req[s]
  BY <1>1, <1>3 DEF InProgress
<1>4. EditsTyped'
  <2>1. req' = [s \in Requests |-> req'[s]]
    BY DEF LaneInv, EditsTyped
  <2>2. \A s \in InProgress(LaneOps)' : ReadIsCurrent(s)'
    BY <1>2, <1>3 DEF LaneInv, EditsTyped, ReadIsCurrent, board
  <2> QED
    BY <1>2, <2>1, <2>2 DEF LaneInv, EditsTyped
<1> QED
  BY <1>4 DEF LaneInv, LanesTyped, LanesWellFormed, board

\* A lane edit that starts, or goes on, without writing yet.
LEMMA LanesRead ==
  ASSUME LaneInv, NEW r \in Requests, NEW m, req' = [req EXCEPT ![r] = m],
         \A s \in InProgress(LaneOps) : s = r, ReadIsCurrent(r)', UNCHANGED board
  PROVE  LaneInv'
<1>1. \A s \in Requests : req'[s] = IF s = r THEN m ELSE req[s]
  BY DEF LaneInv, EditsTyped
<1>2. InProgress(LaneOps)' \subseteq {r}
  BY <1>1 DEF InProgress
<1>3. EditsTyped'
  BY <1>2 DEF LaneInv, EditsTyped
<1> QED
  BY <1>3 DEF LaneInv, LanesTyped, LanesWellFormed, board

\* A lane edit that writes: it was the only one, and ends.
LEMMA LanesWritten ==
  ASSUME LaneInv, NEW r \in InProgress(LaneOps), End(r), LanesTyped', LanesWellFormed'
  PROVE  LaneInv'
<1>1. r \in Requests /\ \A s \in Requests : req'[s] = IF s = r THEN Idle ELSE req[s]
  BY DEF LaneInv, EditsTyped, End, Continue, InProgress
<1>2. InProgress(LaneOps)' = {}
  BY <1>1 DEF LaneInv, EditsTyped, InProgress, Idle, LaneOps
<1>3. req' = [s \in Requests |-> req'[s]]
  BY DEF LaneInv, EditsTyped, End, Continue
<1>4. EditsTyped'
  BY <1>2, <1>3 DEF EditsTyped
<1> QED
  BY <1>4 DEF LaneInv

LEMMA InitLanes == Init => LaneInv
<1> SUFFICES ASSUME Init PROVE LaneInv
  OBVIOUS
<1>1. /\ lanes = [i \in DOMAIN FirstLanes |-> [id |-> FirstLanes[i], order |-> i - 1, renamed |-> FALSE]]
      /\ laneIds = IdsOf(lanes) /\ req = [r \in Requests |-> Idle]
  BY DEF Init
<1>2. FirstLanes \in Seq(Lanes) /\ FirstLanes # <<>> /\ IsInjective(FirstLanes)
  BY ContentConstants
<1> DEFINE n == Len(FirstLanes)
<1>3. n \in Nat /\ n > 0 /\ DOMAIN FirstLanes = 1..n /\ \A i \in 1..n : FirstLanes[i] \in Lanes
  BY <1>2
<1> HIDE DEF n
<1>4. DOMAIN lanes = 1..n /\ \A i \in 1..n : lanes[i] = [id |-> FirstLanes[i], order |-> i - 1, renamed |-> FALSE]
  BY <1>1, <1>3
<1>5. lanes \in [1..n -> Lane]
  BY <1>1, <1>3, <1>4 DEF Lane
<1>6. lanes \in Seq(Lane) /\ Len(lanes) = n
  BY <1>3, <1>5
<1>7. IdsOf(lanes) \subseteq Lanes
  BY <1>3, <1>4 DEF IdsOf
<1>8. \A o \in Orders(lanes) : o <= n
  BY <1>3, <1>4 DEF Orders
<1>9. LanesWellFormed
  BY <1>2, <1>3, <1>4, <1>6 DEF LanesWellFormed, IsInjective
<1>10. EditsTyped
  BY <1>1 DEF EditsTyped, InProgress, Idle, LaneOps
<1> QED
  BY <1>1, <1>3, <1>6, <1>7, <1>8, <1>9, <1>10 DEF LaneInv, LanesTyped

-----------------------------------------------------------------------------
LEMMA LaneFields ==
  ASSUME LanesTyped
  PROVE  /\ Len(lanes) \in Nat /\ DOMAIN lanes = 1..Len(lanes)
         /\ \A i \in 1..Len(lanes) :
              /\ lanes[i] \in Lane /\ lanes[i].id \in Lanes /\ lanes[i].order \in Nat
              /\ lanes[i].id \in IdsOf(lanes) /\ lanes[i].order \in Orders(lanes)
<1>1. Len(lanes) \in Nat /\ DOMAIN lanes = 1..Len(lanes) /\ \A i \in 1..Len(lanes) : lanes[i] \in Lane
  BY DEF LanesTyped
<1> QED
  BY <1>1 DEF Lane, IdsOf, Orders

\* What each write makes of the array, for the proofs below.
LEMMA LanePushed ==
  ASSUME LanesTyped, LanesWellFormed, NEW new \in Lane, new.id \notin laneIds,
         \A o \in Orders(lanes) : o < new.order,
         lanes' = Append(lanes, new), laneIds' = laneIds \cup {new.id}
  PROVE  /\ LanesTyped' /\ LanesWellFormed'
         /\ IdsOf(lanes') = IdsOf(lanes) \cup {new.id}
         /\ \A i \in DOMAIN lanes, j \in DOMAIN lanes' :
              lanes'[j].id = lanes[i].id => lanes'[j] = lanes[i]
<1>1. new.id \in Lanes /\ new.order \in Nat
  BY DEF Lane
<1>2. PICK n \in Nat : n = Len(lanes) /\ DOMAIN lanes = 1..n
  BY DEF LanesTyped
<1>3. /\ lanes' \in Seq(Lane) /\ Len(lanes') = n + 1 /\ DOMAIN lanes' = 1..n + 1
      /\ lanes'[n + 1] = new /\ \A i \in 1..n : lanes'[i] = lanes[i]
  BY <1>2, AppendProperties DEF LanesTyped
<1>4. \A j \in 1..n + 1 : j \in 1..n \/ j = n + 1
  BY <1>2
<1>5. 1..n \subseteq 1..n + 1 /\ n + 1 \in 1..n + 1
  BY <1>2
<1>6. ASSUME NEW i \in 1..n
      PROVE  /\ lanes[i].id \in IdsOf(lanes) /\ lanes[i].order \in Orders(lanes)
             /\ lanes[i].id # new.id /\ lanes[i].order # new.order
  <2>1. lanes[i].id \in IdsOf(lanes) /\ lanes[i].order \in Orders(lanes) /\ lanes[i].order \in Nat
    BY <1>2, LaneFields
  <2>2. lanes[i].order < new.order
    BY <2>1
  <2> QED
    BY <1>1, <2>1, <2>2 DEF LanesTyped
<1>7. IdsOf(lanes') = IdsOf(lanes) \cup {new.id}
  <2>1. IdsOf(lanes') \subseteq IdsOf(lanes) \cup {new.id}
    BY <1>3, <1>4, <1>6 DEF IdsOf
  <2>2. IdsOf(lanes) \subseteq IdsOf(lanes')
    BY <1>2, <1>3, <1>5 DEF IdsOf
  <2>3. new.id \in IdsOf(lanes')
    BY <1>3, <1>5 DEF IdsOf
  <2> QED
    BY <2>1, <2>2, <2>3
<1>8. \A o \in Orders(lanes') : o <= new.order
  <2>1. ASSUME NEW j \in 1..n PROVE lanes[j].order <= new.order
    <3>1. lanes[j].order \in Nat /\ lanes[j].order < new.order
      BY <1>2, LaneFields
    <3> QED
      BY <1>1, <3>1
  <2> QED
    BY <1>1, <1>3, <1>4, <2>1 DEF Orders
<1>9. LanesTyped'
  BY <1>1, <1>3, <1>7, <1>8 DEF LanesTyped
<1>10. LanesWellFormed'
  <2>1. ASSUME NEW i \in 1..n + 1, NEW j \in 1..n + 1, i # j
        PROVE  lanes'[i].id # lanes'[j].id /\ lanes'[i].order # lanes'[j].order
    <3>1. CASE i \in 1..n /\ j \in 1..n
      BY <1>2, <1>3, <2>1, <3>1 DEF LanesWellFormed
    <3>2. CASE i \in 1..n /\ j = n + 1
      BY <1>3, <1>6, <3>2
    <3>3. CASE i = n + 1 /\ j \in 1..n
      BY <1>3, <1>6, <3>3
    <3> QED
      BY <1>4, <2>1, <3>1, <3>2, <3>3
  <2>2. lanes' # <<>>
    BY <1>2, <1>3
  <2> QED
    BY <1>3, <2>1, <2>2 DEF LanesWellFormed
<1>11. ASSUME NEW i \in 1..n, NEW j \in 1..n + 1, lanes'[j].id = lanes[i].id
       PROVE  lanes'[j] = lanes[i]
  <2>1. j \in 1..n
    BY <1>3, <1>4, <1>6, <1>11
  <2> QED
    BY <1>2, <1>3, <1>11, <2>1 DEF LanesWellFormed
<1> QED
  BY <1>2, <1>3, <1>7, <1>9, <1>10, <1>11

LEMMA LaneAdded ==
  ASSUME LanesTyped, LanesWellFormed, NEW l \in Lanes \ laneIds,
         lanes' = Append(lanes, [id |-> l, renamed |-> FALSE, order |-> Max(Orders(lanes) \cup {-1}) + 1]),
         laneIds' = laneIds \cup {l}
  PROVE  /\ LanesTyped' /\ LanesWellFormed'
         /\ IdsOf(lanes') = IdsOf(lanes) \cup {l}
         /\ \A i \in DOMAIN lanes, j \in DOMAIN lanes' :
              lanes'[j].id = lanes[i].id => lanes'[j] = lanes[i]
<1> DEFINE m == Max(Orders(lanes) \cup {-1})
           new == [id |-> l, renamed |-> FALSE, order |-> m + 1]
<1>1. Orders(lanes) \subseteq Nat
  BY LaneFields DEF Orders
<1>2. m \in Orders(lanes) \cup {-1} /\ \A o \in Orders(lanes) : o <= m
  BY <1>1, MaxIsHighest DEF LanesTyped
<1>3. lanes' = Append(lanes, new) /\ new.id = l /\ new.order = m + 1
  OBVIOUS
<1> HIDE DEF m
<1>4. m + 1 \in Nat /\ \A o \in Orders(lanes) : o < m + 1
  BY <1>1, <1>2
<1>5. new \in Lane
  BY <1>4 DEF Lane
<1> HIDE DEF new
<1> QED
  BY <1>3, <1>4, <1>5, LanePushed

LEMMA LanesReordered ==
  ASSUME LanesTyped, LanesWellFormed, NEW wanted \in Seq(Lanes),
         ToSet(wanted) = IdsOf(lanes), Len(wanted) = Len(lanes),
         lanes' = Reordered(lanes, wanted), laneIds' = laneIds
  PROVE  /\ LanesTyped' /\ LanesWellFormed'
         /\ IdsOf(lanes') = IdsOf(lanes)
         /\ \A i \in DOMAIN lanes, j \in DOMAIN lanes' :
              lanes'[j].id = lanes[i].id => lanes'[j].renamed = lanes[i].renamed
<1>1. PICK n \in Nat : n = Len(wanted) /\ DOMAIN wanted = 1..n /\ DOMAIN lanes = 1..n /\ n > 0
  BY DEF LanesTyped, LanesWellFormed
<1>2. IsInjective(wanted)
  BY NamesEachOnce DEF LanesTyped, LanesWellFormed, Uniquely
<1> DEFINE k(i) == LaneNamed(lanes, wanted[i])
<1>3. ASSUME NEW i \in 1..n PROVE k(i) \in 1..n /\ lanes[k(i)].id = wanted[i]
  <2>1. wanted[i] \in IdsOf(lanes)
    BY <1>1, <1>3 DEF ToSet
  <2> QED
    BY <1>1, <2>1, NamedLane
<1>4. DOMAIN lanes' = 1..n /\ \A i \in 1..n : lanes'[i] = [lanes[k(i)] EXCEPT !.order = i - 1]
  BY <1>1 DEF Reordered
<1> HIDE DEF k
<1>5. ASSUME NEW i \in 1..n
      PROVE  /\ lanes'[i] \in Lane /\ lanes'[i].id = wanted[i] /\ lanes'[i].order = i - 1
             /\ lanes'[i].renamed = lanes[k(i)].renamed
  <2>1. lanes[k(i)] \in Lane
    BY <1>1, <1>3, <1>5 DEF LanesTyped
  <2> QED
    BY <1>3, <1>4, <1>5, <2>1 DEF Lane
<1>6. lanes' \in Seq(Lane) /\ Len(lanes') = n /\ lanes' # <<>>
  <2>1. lanes' = [i \in 1..n |-> lanes'[i]]
    BY <1>1, <1>4 DEF Reordered
  <2>2. lanes' \in [1..n -> Lane]
    BY <1>5, <2>1
  <2> QED
    BY <1>1, <2>2
<1>7. IdsOf(lanes') = IdsOf(lanes)
  <2>1. IdsOf(lanes') = ToSet(wanted)
    BY <1>1, <1>4, <1>5 DEF IdsOf, ToSet
  <2> QED
    BY <2>1
<1>8. LanesTyped'
  <2>1. \A o \in Orders(lanes') : o <= n
    BY <1>4, <1>5 DEF Orders
  <2> QED
    BY <1>6, <1>7, <2>1 DEF LanesTyped
<1>9. LanesWellFormed'
  BY <1>1, <1>2, <1>4, <1>5, <1>6 DEF LanesWellFormed, IsInjective
<1>10. ASSUME NEW i \in 1..n, NEW j \in 1..n, lanes'[j].id = lanes[i].id
       PROVE  lanes'[j].renamed = lanes[i].renamed
  <2>1. k(j) \in 1..n /\ lanes[k(j)].id = lanes[i].id
    BY <1>3, <1>5, <1>10
  <2>2. k(j) = i
    BY <1>1, <2>1 DEF LanesWellFormed
  <2> QED
    BY <1>5, <2>2
<1> QED
  BY <1>1, <1>4, <1>7, <1>8, <1>9, <1>10

LEMMA LaneRenamed ==
  ASSUME LanesTyped, LanesWellFormed, NEW l,
         lanes' = [i \in DOMAIN lanes |-> [lanes[i] EXCEPT !.renamed = @ \/ lanes[i].id = l]],
         laneIds' = laneIds
  PROVE  /\ LanesTyped' /\ LanesWellFormed'
         /\ IdsOf(lanes') = IdsOf(lanes)
         /\ \A i \in DOMAIN lanes, j \in DOMAIN lanes' :
              lanes'[j].id = lanes[i].id /\ lanes[i].renamed => lanes'[j].renamed
<1>1. PICK n \in Nat : n = Len(lanes) /\ DOMAIN lanes = 1..n /\ n > 0
  BY DEF LanesTyped, LanesWellFormed
<1>2. ASSUME NEW i \in 1..n
      PROVE  /\ lanes'[i] \in Lane /\ lanes'[i].id = lanes[i].id /\ lanes'[i].order = lanes[i].order
             /\ (lanes[i].renamed => lanes'[i].renamed)
  <2>1. lanes[i] \in Lane /\ lanes'[i] = [lanes[i] EXCEPT !.renamed = @ \/ lanes[i].id = l]
    BY <1>1, <1>2 DEF LanesTyped
  <2> QED
    BY <2>1 DEF Lane
<1>3. DOMAIN lanes' = 1..n
  BY <1>1
<1>4. lanes' \in Seq(Lane) /\ Len(lanes') = n /\ lanes' # <<>>
  <2>1. lanes' \in [1..n -> Lane]
    BY <1>1, <1>2
  <2> QED
    BY <1>1, <2>1
<1>5. IdsOf(lanes') = IdsOf(lanes) /\ Orders(lanes') = Orders(lanes)
  BY <1>1, <1>2, <1>3 DEF IdsOf, Orders
<1>6. LanesTyped'
  BY <1>4, <1>5 DEF LanesTyped
<1>7. LanesWellFormed'
  BY <1>1, <1>2, <1>3, <1>4 DEF LanesWellFormed
<1>8. \A i, j \in 1..n : lanes'[j].id = lanes[i].id => i = j
  BY <1>1, <1>2 DEF LanesWellFormed
<1> QED
  BY <1>1, <1>2, <1>3, <1>5, <1>6, <1>7, <1>8

LEMMA LanePulled ==
  ASSUME LanesTyped, LanesWellFormed, Len(lanes) > 1, NEW l,
         lanes' = Pulled(lanes, l), laneIds' = laneIds
  PROVE  /\ LanesTyped' /\ LanesWellFormed'
         /\ IdsOf(lanes') = IdsOf(lanes) \ {l}
         /\ \A i \in DOMAIN lanes, j \in DOMAIN lanes' :
              lanes'[j].id = lanes[i].id => lanes'[j] = lanes[i]
<1>1. PICK n \in Nat : n = Len(lanes) /\ DOMAIN lanes = 1..n /\ n > 1
  BY DEF LanesTyped
<1>2. CASE l \notin IdsOf(lanes)
  BY <1>2 DEF Pulled, LanesTyped, LanesWellFormed
<1>3. CASE l \in IdsOf(lanes)
  <2>1. PICK k \in 1..n : lanes[k].id = l /\ lanes' = RemoveAt(lanes, k)
    BY <1>1, <1>3, NamedLane DEF Pulled
  <2>2. /\ lanes' \in Seq(Lane) /\ Len(lanes') = n - 1
        /\ \A i \in 1..n - 1 : lanes'[i] = IF i < k THEN lanes[i] ELSE lanes[i + 1]
    <3>1. lanes \in Seq(Lane) /\ k \in 1..Len(lanes)
      BY <1>1 DEF LanesTyped
    <3>2. /\ RemoveAt(lanes, k) \in Seq(Lane) /\ Len(RemoveAt(lanes, k)) = Len(lanes) - 1
          /\ \A i \in 1..Len(lanes) - 1 :
               RemoveAt(lanes, k)[i] = IF i < k THEN lanes[i] ELSE lanes[i + 1]
      BY <3>1, RemovedAt
    <3> QED
      BY <1>1, <2>1, <3>2
  <2>3. DOMAIN lanes' = 1..n - 1 /\ lanes' # <<>>
    BY <1>1, <2>2
  <2>4. \A j \in 1..n - 1 : \E i \in 1..n \ {k} : lanes'[j] = lanes[i]
    BY <1>1, <2>2
  <2>5. \A i \in 1..n \ {k} : \E j \in 1..n - 1 : lanes'[j] = lanes[i]
    <3>1. ASSUME NEW i \in 1..n, i < k PROVE \E j \in 1..n - 1 : lanes'[j] = lanes[i]
      BY <1>1, <2>2, <3>1
    <3>2. ASSUME NEW i \in 1..n, i > k PROVE \E j \in 1..n - 1 : lanes'[j] = lanes[i]
      <4>1. i - 1 \in 1..n - 1 /\ ~(i - 1 < k) /\ (i - 1) + 1 = i
        BY <1>1, <3>2
      <4> QED
        BY <2>2, <4>1
    <3> QED
      BY <3>1, <3>2
  <2>6. IdsOf(lanes') = IdsOf(lanes) \ {l}
    <3>1. \A i \in 1..n : lanes[i].id = l => i = k
      BY <1>1, <2>1 DEF LanesWellFormed
    <3>2. ASSUME NEW x \in IdsOf(lanes') PROVE x \in IdsOf(lanes) \ {l}
      <4>1. PICK j \in 1..n - 1 : x = lanes'[j].id
        BY <2>3, <3>2 DEF IdsOf
      <4>2. PICK i \in 1..n \ {k} : lanes'[j] = lanes[i]
        BY <2>4
      <4> QED
        BY <1>1, <3>1, <4>1, <4>2 DEF IdsOf
    <3>3. ASSUME NEW x \in IdsOf(lanes) \ {l} PROVE x \in IdsOf(lanes')
      <4>1. PICK i \in 1..n : x = lanes[i].id
        BY <1>1, <3>3 DEF IdsOf
      <4>2. PICK j \in 1..n - 1 : lanes'[j] = lanes[i]
        BY <2>1, <2>5, <3>3, <4>1
      <4> QED
        BY <2>3, <4>1, <4>2 DEF IdsOf
    <3> QED
      BY <3>2, <3>3
  <2>7. Orders(lanes') \subseteq Orders(lanes)
    BY <1>1, <2>3, <2>4 DEF Orders
  <2>8. LanesTyped'
    BY <2>2, <2>6, <2>7 DEF LanesTyped
  <2>9. LanesWellFormed'
    <3>1. ASSUME NEW i \in 1..n - 1, NEW j \in 1..n - 1, i # j
          PROVE  lanes'[i].id # lanes'[j].id /\ lanes'[i].order # lanes'[j].order
      <4> DEFINE a == IF i < k THEN i ELSE i + 1
                 b == IF j < k THEN j ELSE j + 1
      <4>1. a \in 1..n /\ b \in 1..n /\ a # b
        BY <1>1, <3>1
      <4>2. lanes'[i] = lanes[a] /\ lanes'[j] = lanes[b]
        BY <2>2, <3>1
      <4> HIDE DEF a, b
      <4> QED
        BY <1>1, <4>1, <4>2 DEF LanesWellFormed
    <3> QED
      BY <2>3, <3>1 DEF LanesWellFormed
  <2>10. ASSUME NEW i \in 1..n, NEW j \in 1..n - 1, lanes'[j].id = lanes[i].id
         PROVE  lanes'[j] = lanes[i]
    <3>1. PICK m \in 1..n \ {k} : lanes'[j] = lanes[m]
      BY <2>4
    <3>2. m = i
      BY <1>1, <2>10, <3>1 DEF LanesWellFormed
    <3> QED
      BY <3>1, <3>2
  <2> QED
    BY <1>1, <2>3, <2>6, <2>8, <2>9, <2>10
<1> QED
  BY <1>2, <1>3
-----------------------------------------------------------------------------
\* No step of a request on cards touches the lanes, or edits them later.
LeavesLanes(r) == \E m : req' = [req EXCEPT ![r] = m] /\ m.op \notin LaneOps

LEMMA CardStepLeavesLanes ==
  ASSUME CardsTyped, NEW r \in Requests,
         WriteCards(r) \/ ReadCards(r) \/ (\E ok \in BOOLEAN : Publish(r, ok)) \/ EnqueueMention(r)
  PROVE  UNCHANGED board /\ LeavesLanes(r)
<1> USE DEF At, Continue, End, Begin, Idle, LaneOps
<1> DEFINE Step(m) == req' = [req EXCEPT ![r] = m] /\ m.op \notin LaneOps
<1>0. \A m : Step(m) => LeavesLanes(r)
  BY DEF LeavesLanes
<1>1. UNCHANGED board
  BY DEF WriteCards, ReadCards, Publish, EnqueueMention
<1>2. End(r) => LeavesLanes(r)
  <2>1. End(r) => Step(Idle)
    OBVIOUS
  <2> QED
    BY <1>0, <2>1
<1>3. ASSUME CreateItem(r) PROVE LeavesLanes(r)
  <2>1. ASSUME NEW item, BeginCreate(r, item) PROVE LeavesLanes(r)
    <3>1. Step([op |-> "create", step |-> "insert", card |-> Keep, item |-> item])
      BY <2>1 DEF BeginCreate
    <3> QED
      BY <1>0, <3>1
  <2>2. ASSUME NEW c, req[r].op = "create", ToPublish(r, c, req[r].item, "created")
        PROVE  LeavesLanes(r)
    <3>1. Step([op |-> req[r].op, step |-> "publish", card |-> c, item |-> req[r].item, event |-> "created"])
      BY <2>2 DEF ToPublish
    <3> QED
      BY <1>0, <3>1
  <2> QED
    BY <1>3, <2>1, <2>2 DEF CreateItem
<1>4. ASSUME ReadForUpdate(r) PROVE LeavesLanes(r)
  <2>1. ASSUME NEW c, NEW p, BeginUpdate(r, c, p) PROVE LeavesLanes(r)
    <3>1. Step([op |-> "update", step |-> "reread", card |-> c, before |-> card[c].lane, patch |-> p])
      BY <2>1 DEF BeginUpdate, BeginOn
    <3> QED
      BY <1>0, <3>1
  <2>2. ASSUME NEW x, req[r].op = "update", req[r].step = "reread",
               Continue(r, [req[r] EXCEPT !.step = "set", !.patch.lane = IF @ = x THEN Keep ELSE @])
        PROVE  LeavesLanes(r)
    <3> DEFINE m == [req[r] EXCEPT !.step = "set", !.patch.lane = IF @ = x THEN Keep ELSE @]
    <3>1. req[r] \in Updating
      BY <2>2 DEF CardsTyped, Inserting, Removing, Emitting, CardOps
    <3>2. m.op = "update"
      BY <3>1 DEF Updating
    <3>3. req' = [req EXCEPT ![r] = m]
      BY <2>2
    <3> HIDE DEF m
    <3> QED
      BY <1>0, <3>2, <3>3
  <2> QED
    BY <1>2, <1>4, <2>1, <2>2 DEF ReadForUpdate
<1>5. ASSUME SetItem(r) PROVE LeavesLanes(r)
  <2> DEFINE m == [req[r] EXCEPT !.step = "after"]
  <2>1. req[r] \in Updating
    BY <1>5 DEF SetItem, CardsTyped, Inserting, Removing, Emitting, CardOps
  <2>2. Step(m)
    BY <1>5, <2>1 DEF SetItem, Updating
  <2> QED
    BY <1>0, <2>2
<1>6. ASSUME ReadUpdated(r) PROVE LeavesLanes(r)
  <2>1. ASSUME NEW c, NEW item, NEW event, req[r].op = "update", ToPublish(r, c, item, event)
        PROVE  LeavesLanes(r)
    <3>1. Step([op |-> req[r].op, step |-> "publish", card |-> c, item |-> item, event |-> event])
      BY <2>1 DEF ToPublish
    <3> QED
      BY <1>0, <3>1
  <2> QED
    BY <1>2, <1>6, <2>1 DEF ReadUpdated
<1>7. ASSUME DeleteItem(r) PROVE LeavesLanes(r)
  <2>1. ASSUME NEW c, BeginOn(r, c, [op |-> "delete", step |-> "remove", card |-> c, item |-> card[c]])
        PROVE  LeavesLanes(r)
    <3>1. Step([op |-> "delete", step |-> "remove", card |-> c, item |-> card[c]])
      BY <2>1 DEF BeginOn
    <3> QED
      BY <1>0, <3>1
  <2>2. ASSUME NEW c, req[r].op = "delete", ToPublish(r, c, req[r].item, "deleted")
        PROVE  LeavesLanes(r)
    <3>1. Step([op |-> req[r].op, step |-> "publish", card |-> c, item |-> req[r].item, event |-> "deleted"])
      BY <2>2 DEF ToPublish
    <3> QED
      BY <1>0, <3>1
  <2> QED
    BY <1>7, <2>1, <2>2 DEF DeleteItem
<1>8. ASSUME \E ok \in BOOLEAN : Publish(r, ok) PROVE LeavesLanes(r)
  <2> DEFINE m == [req[r] EXCEPT !.step = "enqueue"]
  <2>1. req[r] \in Emitting
    BY <1>8 DEF Publish, CardsTyped, Inserting, Updating, Removing
  <2>2. m.op \notin LaneOps
    BY <2>1 DEF Emitting, CardOps
  <2>3. req' = [req EXCEPT ![r] = m] \/ req' = [req EXCEPT ![r] = Idle]
    BY <1>8 DEF Publish
  <2> HIDE DEF m
  <2> QED
    BY <1>0, <1>2, <2>2, <2>3
<1>9. ASSUME EnqueueMention(r) PROVE LeavesLanes(r)
  BY <1>2, <1>9 DEF EnqueueMention
<1> QED
  BY <1>1, <1>3, <1>4, <1>5, <1>6, <1>7, <1>8, <1>9 DEF WriteCards, ReadCards

\* What a lane edit that writes may do to the array.
LaneChange(r) ==
    /\ \A l \in IdsOf(lanes) \ IdsOf(lanes') : At(r, "deleteLane", "pull") /\ req[r].lane = l
    /\ IdsOf(lanes') \cap laneIds \subseteq IdsOf(lanes)
    /\ \A i \in DOMAIN lanes, j \in DOMAIN lanes' :
         lanes[i].id = lanes'[j].id /\ lanes[i].renamed => lanes'[j].renamed

LEMMA UnchangedLanes == ASSUME LanesWellFormed, UNCHANGED board, NEW r PROVE LaneChange(r)
  BY DEF LaneChange, LanesWellFormed, board

LEMMA LaneStepKeepsLanes ==
  ASSUME LaneEditsSerial, LaneInv, NEW r \in Requests, LaneStep(r)
  PROVE  LaneInv' /\ LaneChange(r)
<1> USE DEF At, Continue, End, Begin
<1>1. LanesTyped /\ LanesWellFormed
  BY DEF LaneInv
<1>2. req[r] = Idle /\ (\E op \in LaneOps : MayStart(op)) => \A s \in InProgress(LaneOps) : s = r
  BY DEF MayStart, InProgress
<1>3. req[r].op \in LaneOps => r \in InProgress(LaneOps) /\ ReadIsCurrent(r)
                               /\ \A s \in InProgress(LaneOps) : s = r
  BY DEF LaneInv, EditsTyped, InProgress
<1>4. req = [s \in Requests |-> req[s]]
  BY DEF LaneInv, EditsTyped
<1>5. ASSUME LanesTyped', LanesWellFormed', LaneChange(r), End(r), req[r].op \in LaneOps
      PROVE  LaneInv' /\ LaneChange(r)
  BY <1>3, <1>5, LanesWritten
<1>6. ASSUME NEW m, req' = [req EXCEPT ![r] = m], \A s \in InProgress(LaneOps) : s = r,
             ReadIsCurrent(r)', UNCHANGED board
      PROVE  LaneInv' /\ LaneChange(r)
  BY <1>1, <1>6, LanesRead, UnchangedLanes
<1>7. CASE AddColumn(r)
  <2>1. CASE Begin(r, [op |-> "addLane", read |-> lanes]) /\ UNCHANGED board
    <3>0. req'[r].op = "addLane" /\ req'[r].read = lanes
      BY <1>4, <2>1
    <3>1. ReadIsCurrent(r)'
      BY <2>1, <3>0 DEF ReadIsCurrent, board
    <3> QED
      BY <1>2, <1>6, <2>1, <3>1 DEF LaneOps
  <2>2. ASSUME NEW l \in Lanes \ laneIds, req[r].op = "addLane", End(r),
               lanes' = Append(lanes, [id |-> l, renamed |-> FALSE,
                                       order |-> Max(Orders(req[r].read) \cup {-1}) + 1]),
               laneIds' = laneIds \cup {l}
        PROVE  LaneInv' /\ LaneChange(r)
    <3>1. req[r].read = lanes
      BY <1>3, <2>2 DEF ReadIsCurrent, LaneOps
    <3>2. /\ LanesTyped' /\ LanesWellFormed' /\ IdsOf(lanes') = IdsOf(lanes) \cup {l}
          /\ \A i \in DOMAIN lanes, j \in DOMAIN lanes' :
               lanes'[j].id = lanes[i].id => lanes'[j] = lanes[i]
      BY <1>1, <2>2, <3>1, LaneAdded
    <3>3. LaneChange(r)
      BY <3>2 DEF LaneChange
    <3> QED
      BY <1>5, <2>2, <3>2, <3>3 DEF LaneOps
  <2> QED
    BY <1>7, <2>1, <2>2 DEF AddColumn
<1>8. CASE ReorderColumns(r)
  <2>1. ASSUME NEW wanted \in LaneLists, ToSet(wanted) = IdsOf(lanes), Len(wanted) = Len(lanes),
               Begin(r, [op |-> "reorder", read |-> lanes, wanted |-> wanted]), UNCHANGED board
        PROVE  LaneInv' /\ LaneChange(r)
    <3>1. wanted \in Seq(Lanes)
      BY <1>1 DEF LaneLists, LanesTyped
    <3>0. req'[r].op = "reorder" /\ req'[r].read = lanes /\ req'[r].wanted = wanted
      BY <1>4, <2>1
    <3>2. ReadIsCurrent(r)'
      BY <2>1, <3>0, <3>1 DEF ReadIsCurrent, board
    <3> QED
      BY <1>2, <1>6, <2>1, <3>2 DEF LaneOps
  <2>2. CASE req[r].op = "reorder" /\ lanes' = Reordered(req[r].read, req[r].wanted) /\ End(r)
             /\ laneIds' = laneIds
    <3>1. /\ req[r].read = lanes /\ req[r].wanted \in Seq(Lanes)
          /\ ToSet(req[r].wanted) = IdsOf(lanes) /\ Len(req[r].wanted) = Len(lanes)
      BY <1>3, <2>2 DEF ReadIsCurrent, LaneOps
    <3>2. /\ LanesTyped' /\ LanesWellFormed' /\ IdsOf(lanes') = IdsOf(lanes)
          /\ \A i \in DOMAIN lanes, j \in DOMAIN lanes' :
               lanes'[j].id = lanes[i].id => lanes'[j].renamed = lanes[i].renamed
      BY <1>1, <2>2, <3>1, LanesReordered
    <3>3. LaneChange(r)
      BY <3>2 DEF LaneChange
    <3> QED
      BY <1>5, <2>2, <3>2, <3>3 DEF LaneOps
  <2> QED
    BY <1>8, <2>1, <2>2 DEF ReorderColumns, board
<1>9. CASE RenameColumn(r)
  <2>1. ASSUME NEW l, Begin(r, [op |-> "rename", lane |-> l]), UNCHANGED board
        PROVE  LaneInv' /\ LaneChange(r)
    <3>0. req'[r].op = "rename"
      BY <1>4, <2>1
    <3>1. ReadIsCurrent(r)'
      BY <2>1, <3>0 DEF ReadIsCurrent, board
    <3> QED
      BY <1>2, <1>6, <2>1, <3>1 DEF LaneOps
  <2>2. CASE /\ req[r].op = "rename" /\ End(r) /\ laneIds' = laneIds
             /\ lanes' = [i \in DOMAIN lanes |->
                            [lanes[i] EXCEPT !.renamed = @ \/ lanes[i].id = req[r].lane]]
    <3>1. /\ LanesTyped' /\ LanesWellFormed' /\ IdsOf(lanes') = IdsOf(lanes)
          /\ \A i \in DOMAIN lanes, j \in DOMAIN lanes' :
               lanes'[j].id = lanes[i].id /\ lanes[i].renamed => lanes'[j].renamed
      BY <1>1, <2>2, LaneRenamed
    <3>2. LaneChange(r)
      BY <3>1 DEF LaneChange
    <3> QED
      BY <1>5, <2>2, <3>1, <3>2 DEF LaneOps
  <2> QED
    BY <1>9, <2>1, <2>2 DEF RenameColumn, board
<1>10. CASE DeleteColumn(r)
  <2>1. ASSUME NEW l, Len(lanes) > 1, UNCHANGED board,
               Begin(r, [op |-> "deleteLane", step |-> "count", lane |-> l])
        PROVE  LaneInv' /\ LaneChange(r)
    <3>0. req'[r].op = "deleteLane"
      BY <1>4, <2>1
    <3>1. ReadIsCurrent(r)'
      BY <2>1, <3>0 DEF ReadIsCurrent, board
    <3> QED
      BY <1>2, <1>6, <2>1, <3>1 DEF LaneOps
  <2>2. CASE At(r, "deleteLane", "count") /\ UNCHANGED board /\ End(r)
    <3>1. ReadIsCurrent(r)'
      BY <1>4, <2>2 DEF ReadIsCurrent, Idle
    <3> QED
      BY <1>3, <1>6, <2>2, <3>1 DEF LaneOps
  <2>3. CASE /\ At(r, "deleteLane", "count") /\ UNCHANGED board
             /\ Continue(r, [req[r] EXCEPT !.step = "pull"])
    <3> DEFINE m == [req[r] EXCEPT !.step = "pull"]
    <3>1. m.op = "deleteLane"
      BY <2>3
    <3>2. req' = [req EXCEPT ![r] = m] /\ UNCHANGED board
      BY <2>3
    <3>3. Len(lanes) > 1 /\ \A s \in InProgress(LaneOps) : s = r
      BY <1>3, <2>3 DEF ReadIsCurrent, LaneOps
    <3> HIDE DEF m
    <3>4. ReadIsCurrent(r)'
      BY <1>4, <3>1, <3>2, <3>3 DEF ReadIsCurrent, board
    <3> QED
      BY <1>6, <3>2, <3>3, <3>4
  <2>4. CASE At(r, "deleteLane", "pull") /\ lanes' = Pulled(lanes, req[r].lane) /\ End(r)
             /\ laneIds' = laneIds
    <3>1. Len(lanes) > 1
      BY <1>3, <2>4 DEF ReadIsCurrent, LaneOps
    <3>2. /\ LanesTyped' /\ LanesWellFormed' /\ IdsOf(lanes') = IdsOf(lanes) \ {req[r].lane}
          /\ \A i \in DOMAIN lanes, j \in DOMAIN lanes' :
               lanes'[j].id = lanes[i].id => lanes'[j] = lanes[i]
      BY <1>1, <2>4, <3>1, LanePulled
    <3>3. LaneChange(r)
      BY <2>4, <3>2 DEF LaneChange
    <3> QED
      BY <1>5, <2>4, <3>2, <3>3 DEF LaneOps
  <2> QED
    BY <1>10, <2>1, <2>2, <2>3, <2>4 DEF DeleteColumn, board
<1> QED
  BY <1>7, <1>8, <1>9, <1>10 DEF LaneStep

LEMMA StepLanes ==
  ASSUME LaneEditsSerial, CardsTyped, LaneInv, [Next]_vars
  PROVE  LaneInv' /\ (UNCHANGED board \/ \E r \in Requests : LaneStep(r) /\ LaneChange(r))
<1>1. ASSUME NEW r \in Requests, UNCHANGED board, LeavesLanes(r) PROVE LaneInv'
  BY <1>1, LanesLeft DEF LeavesLanes
<1>2. CASE Crash
  <2>1. UNCHANGED board /\ req' = [r \in Requests |-> Idle]
    BY <1>2 DEF Crash
  <2>2. EditsTyped'
    BY <2>1 DEF EditsTyped, InProgress, Idle, LaneOps
  <2> QED
    BY <2>1, <2>2 DEF LaneInv, LanesTyped, LanesWellFormed, board
<1>3. CASE UNCHANGED vars
  BY <1>3 DEF vars, board, LaneInv, LanesTyped, LanesWellFormed, EditsTyped, InProgress, ReadIsCurrent
<1> QED
  BY <1>1, <1>2, <1>3, CardStepLeavesLanes, LaneStepKeepsLanes DEF Next

(* repository.py:170 and 147: while lane edits come one at a time, whatever the  *)
(* requests on cards do meanwhile, the board always has a lane and no two lanes *)
(* share an id or an order.                                                  *)
THEOREM BoardKeepsItsLanes == LaneEditsSerial => (Spec => []LanesWellFormed)
<1> SUFFICES ASSUME LaneEditsSerial PROVE Spec => []LanesWellFormed
  OBVIOUS
<1>1. CardsTyped /\ LaneInv /\ [Next]_vars => LaneInv'
  BY StepLanes
<1>2. LaneInv => LanesWellFormed
  BY DEF LaneInv
<1> QED
  BY <1>1, <1>2, InitLanes, CardsTypedHolds, PTL DEF Spec

(* repository.py:147: while lane edits come one at a time, only a request to     *)
(* delete a lane takes it off the board, for good, and a new name is kept.     *)
THEOREM LanesLeaveByRequest == LaneEditsSerial => (Spec => LanesOnlyByRequest)
<1> SUFFICES ASSUME LaneEditsSerial PROVE Spec => LanesOnlyByRequest
  OBVIOUS
<1>1. CardsTyped /\ LaneInv /\ [Next]_vars => LaneInv'
  BY StepLanes
<1>2. CardsTyped /\ LaneInv /\ [Next]_vars =>
        [/\ \A l \in IdsOf(lanes) \ IdsOf(lanes') :
              \E r \in Requests : At(r, "deleteLane", "pull") /\ req[r].lane = l
         /\ IdsOf(lanes') \cap laneIds \subseteq IdsOf(lanes)
         /\ \A i \in DOMAIN lanes, j \in DOMAIN lanes' :
              lanes[i].id = lanes'[j].id /\ lanes[i].renamed => lanes'[j].renamed]_vars
  <2> SUFFICES ASSUME CardsTyped, LaneInv, [Next]_vars
               PROVE  /\ \A l \in IdsOf(lanes) \ IdsOf(lanes') :
                           \E r \in Requests : At(r, "deleteLane", "pull") /\ req[r].lane = l
                      /\ IdsOf(lanes') \cap laneIds \subseteq IdsOf(lanes)
                      /\ \A i \in DOMAIN lanes, j \in DOMAIN lanes' :
                           lanes[i].id = lanes'[j].id /\ lanes[i].renamed => lanes'[j].renamed
    OBVIOUS
  <2>1. CASE \E r \in Requests : LaneChange(r)
    BY <2>1 DEF LaneChange
  <2>2. CASE UNCHANGED board
    <3>1. LanesWellFormed
      BY DEF LaneInv
    <3> QED
      BY <2>2, <3>1 DEF LanesWellFormed, board
  <2> QED
    BY <2>1, <2>2, StepLanes
<1> QED
  BY <1>1, <1>2, InitLanes, CardsTypedHolds, PTL DEF Spec, LanesOnlyByRequest
-----------------------------------------------------------------------------
\* Every card but the strays is in a lane that no deletion has counted yet.
PlaceInv == \A c \in Cards : Exists(c) /\ c \notin strays => card[c].lane \in OpenLanes

LEMMA InitPlaces == Init => PlaceInv
  BY DEF Init, PlaceInv, Exists

\* A step that edits no lane leaves the lanes that may be entered as they are.
LEMMA OpenLanesStay ==
  ASSUME CardsTyped, NEW r \in Requests,
         WriteCards(r) \/ ReadCards(r) \/ (\E ok \in BOOLEAN : Publish(r, ok)) \/ EnqueueMention(r)
  PROVE  OpenLanes' = OpenLanes
<1>1. UNCHANGED board /\ LeavesLanes(r)
  BY CardStepLeavesLanes
<1>2. PICK m : req' = [req EXCEPT ![r] = m] /\ m.op \notin LaneOps
  BY <1>1 DEF LeavesLanes
<1>3. \A s \in Requests : req'[s] = IF s = r THEN m ELSE req[s]
  BY <1>2 DEF CardsTyped
<1>4. req[r].op \notin LaneOps
  BY DEF WriteCards, ReadCards, Publish, EnqueueMention, CreateItem, SetItem, DeleteItem, ReadForUpdate,
         ReadUpdated, BeginCreate, BeginUpdate, BeginOn, Begin, At, CardOps, LaneOps, Idle
<1>5. ASSUME NEW s \in Requests
      PROVE  (s \in InProgress(LaneOps)' <=> s \in InProgress(LaneOps))
             /\ (s \in InProgress(LaneOps) => req'[s] = req[s])
  BY <1>2, <1>3, <1>4 DEF InProgress
<1>6. InProgress(LaneOps)' = InProgress(LaneOps)
  BY <1>5 DEF InProgress
<1>7. Doomed' = Doomed
  BY <1>5, <1>6 DEF Doomed, InProgress, At
<1> QED
  BY <1>1, <1>7 DEF OpenLanes, board

LEMMA WritesKeepPlaces ==
  ASSUME CardsTyped, PlaceInv, NEW r \in Requests, WriteCards(r)
  PROVE  PlaceInv'
<1> SUFFICES ASSUME NEW c \in Cards, Exists(c)', c \notin strays' PROVE card'[c].lane \in OpenLanes'
  BY DEF PlaceInv
<1>1. OpenLanes' = OpenLanes
  BY OpenLanesStay
<1>2. /\ c \in Placing(r) => card'[c].lane \in OpenLanes
      /\ c \notin Placing(r) => c \notin strays
  BY DEF WriteCards, Exists
<1>3. CASE c \notin Placing(r)
  <2>1. Exists(c) /\ card'[c].lane = card[c].lane
    <3>1. CASE card'[c] = card[c]
      BY <3>1 DEF Exists
    <3>2. CASE card'[c] # card[c]
      <4>1. /\ Exists(c) /\ r \in Touches(c) /\ At(r, "update", "set")
            /\ card'[c] = Patched(card[c], req[r].patch)
        BY <1>3, <3>2, CardWrite DEF Placing, Exists
      <4>2. req[r].patch.lane = Keep
        BY <1>3, <4>1 DEF Placing, Touches
      <4> QED
        BY <4>1, <4>2 DEF Patched
    <3> QED
      BY <3>1, <3>2
  <2> QED
    BY <1>1, <1>2, <1>3, <2>1 DEF PlaceInv
<1> QED
  BY <1>1, <1>2, <1>3

\* A deletion comes to its pull only from a count that found the lane empty.
LEMMA PullFollowsCount ==
  ASSUME req = [s \in Requests |-> req[s]], NEW r \in Requests, LaneStep(r), At(r, "deleteLane", "pull")'
  PROVE  req'[r].lane = req[r].lane /\ \A c \in Cards : Exists(c) => card[c].lane # req[r].lane
<1> USE DEF At, Continue, End, Begin
<1>1. PICK m : req' = [req EXCEPT ![r] = m] /\ m.op \notin CardOps
  BY LaneStepLeavesCards
<1>2. req'[r] = m
  BY <1>1
<1>3. ~AddColumn(r) /\ ~ReorderColumns(r) /\ ~RenameColumn(r)
  <2>1. req'[r].op = "deleteLane"
    OBVIOUS
  <2>2. ~AddColumn(r)
    BY <2>1 DEF AddColumn, Idle
  <2>3. ~ReorderColumns(r)
    BY <2>1 DEF ReorderColumns, Idle
  <2>4. ~RenameColumn(r)
    BY <2>1 DEF RenameColumn, Idle
  <2> QED
    BY <2>2, <2>3, <2>4
<1>4. DeleteColumn(r)
  BY <1>3 DEF LaneStep
<1>5. req' # [req EXCEPT ![r] = Idle]
  BY <1>1, <1>2 DEF Idle
<1>6. \A l : req' # [req EXCEPT ![r] = [op |-> "deleteLane", step |-> "count", lane |-> l]]
  BY <1>1, <1>2
<1>7. /\ ~\E c \in Cards : Exists(c) /\ card[c].lane = req[r].lane
      /\ req' = [req EXCEPT ![r] = [req[r] EXCEPT !.step = "pull"]]
  BY <1>4, <1>5, <1>6 DEF DeleteColumn
<1>8. m = [req[r] EXCEPT !.step = "pull"]
  BY <1>2, <1>7
<1>9. m.lane = req[r].lane
  BY <1>8
<1> QED
  BY <1>2, <1>7, <1>9

LEMMA LaneEditsKeepPlaces ==
  ASSUME CardsTyped, PlaceInv, NEW r \in Requests, LaneStep(r), LaneChange(r)
  PROVE  PlaceInv'
<1>1. UNCHANGED <<card, strays>>
  BY LaneStepLeavesCards DEF LaneStep, AddColumn, ReorderColumns, RenameColumn, DeleteColumn, history
<1>2. req = [s \in Requests |-> req[s]]
  BY DEF CardsTyped
<1>3. PICK m : req' = [req EXCEPT ![r] = m]
  BY LaneStepLeavesCards
<1>4. \A s \in Requests : s # r => req'[s] = req[s]
  BY <1>2, <1>3
<1> SUFFICES ASSUME NEW c \in Cards, Exists(c), c \notin strays PROVE card[c].lane \in OpenLanes'
  BY <1>1 DEF PlaceInv, Exists
<1>5. card[c].lane \in IdsOf(lanes) /\ card[c].lane \notin Doomed
  BY DEF PlaceInv, OpenLanes
<1>6. card[c].lane \in IdsOf(lanes')
  <2>1. ~(At(r, "deleteLane", "pull") /\ req[r].lane = card[c].lane)
    BY <1>5 DEF Doomed, InProgress, LaneOps, At
  <2> QED
    BY <1>5, <2>1 DEF LaneChange
<1>7. ASSUME NEW s \in Requests, At(s, "deleteLane", "pull")' PROVE req'[s].lane # card[c].lane
  <2>1. CASE s = r
    BY <1>2, <1>7, <2>1, PullFollowsCount
  <2>2. CASE s # r
    BY <1>4, <1>5, <1>7, <2>2 DEF Doomed, InProgress, LaneOps, At
  <2> QED
    BY <2>1, <2>2
<1>8. card[c].lane \notin Doomed'
  BY <1>7 DEF Doomed, InProgress
<1> QED
  BY <1>6, <1>8 DEF OpenLanes

LEMMA StepPlaces ==
  ASSUME LaneEditsSerial, CardsTyped, LaneInv, PlaceInv, [Next]_vars
  PROVE  PlaceInv'
<1>1. CASE Crash
  <2>1. Doomed' = {}
    BY <1>1 DEF Crash, Doomed, InProgress, Idle, LaneOps
  <2> QED
    BY <1>1, <2>1 DEF Crash, board, PlaceInv, OpenLanes, Exists
<1>2. CASE UNCHANGED vars
  <2>1. OpenLanes' = OpenLanes
    BY <1>2 DEF vars, board, OpenLanes, Doomed, InProgress, At
  <2> QED
    BY <1>2, <2>1 DEF vars, history, PlaceInv, Exists
<1>3. ASSUME NEW r \in Requests, LaneStep(r) PROVE PlaceInv'
  BY <1>3, LaneStepKeepsLanes, LaneEditsKeepPlaces
<1>4. ASSUME NEW r \in Requests,
             ReadCards(r) \/ (\E ok \in BOOLEAN : Publish(r, ok)) \/ EnqueueMention(r)
      PROVE  PlaceInv'
  <2>1. UNCHANGED <<card, strays>>
    BY <1>4 DEF ReadCards, Publish, EnqueueMention, history
  <2>2. OpenLanes' = OpenLanes
    BY <1>4, OpenLanesStay
  <2> QED
    BY <2>1, <2>2 DEF PlaceInv, Exists
<1> QED
  BY <1>1, <1>2, <1>3, <1>4, WritesKeepPlaces DEF Next

LEMMA PlacesShow == PlaceInv => OnlyStraysAreOrphaned
  BY DEF PlaceInv, OpenLanes, OnlyStraysAreOrphaned

(* repository.py:171: while lane edits come one at a time, whatever creations,   *)
(* moves and deletions of cards run between the awaits of delete_column, a card *)
(* loses its lane only if it was put there after the lane's cards were counted  *)
(* or after the lane was gone: the count is never wrong about an older card.    *)
THEOREM CountProtectsCards == LaneEditsSerial => (Spec => []OnlyStraysAreOrphaned)
<1> SUFFICES ASSUME LaneEditsSerial PROVE Spec => []OnlyStraysAreOrphaned
  OBVIOUS
<1>1. CardsTyped /\ LaneInv /\ [Next]_vars => LaneInv'
  BY StepLanes
<1>2. CardsTyped /\ LaneInv /\ PlaceInv /\ [Next]_vars => PlaceInv'
  BY StepPlaces
<1> QED
  BY <1>1, <1>2, InitLanes, InitPlaces, PlacesShow, CardsTypedHolds, PTL DEF Spec
=============================================================================
