-------------------------- MODULE BoardSyncProofs --------------------------
(***************************************************************************)
(* Proof that a screen stays in step with its board (BoardSync), for any     *)
(* number of cards, requests and events on their way, with one request on a  *)
(* card at a time.  The inductive invariant says, for each card, what the    *)
(* events and responses still to come will make of what the screen shows.    *)
(***************************************************************************)
EXTENDS BoardSync, BoardContentProofs

-----------------------------------------------------------------------------
(* The server: what a request's step does to each card.                       *)

\* A request that acts on a card, and has an event still to publish for it.
Owed(c) == {req[r].op : r \in {s \in Touches(c) : req[s].step # "enqueue"}}

OnBus(c) == {i \in 1..Len(bus) : bus[i].card = c}
LastOn(c, i) == i \in OnBus(c) /\ \A j \in OnBus(c) : j <= i
Brings(e) == IF e.event = "deleted" THEN Unborn ELSE e.item

\* What is stored under the card of a request on it, by how far the request is.
Alive(r) ==
    LET c == req[r].card IN
    /\ req[r].op \in {"create", "update"} /\ req[r].step # "insert" => Exists(c)
    /\ req[r].op \in {"create", "update"} /\ req[r].step \in {"publish", "enqueue"} =>
         /\ card[c] = req[r].item
         /\ req[r].event \in IF req[r].op = "create" THEN {"created"} ELSE {"updated", "moved"}
    /\ req[r].op = "delete" => \/ req[r].step = "remove" /\ Exists(c)
                               \/ req[r].step = "publish" /\ card[c] = Deleted /\ req[r].event = "deleted"

\* The events on their way about a card tell its life in order; unless some were lost
\* behind them, and no request has one still to publish, the last tells what the card is.
BusInv(c) ==
    /\ card[c] = Unborn \/ "create" \in Owed(c) => OnBus(c) = {}
    /\ \A i \in OnBus(c) : bus[i].event = "deleted" => card[c] = Deleted /\ Owed(c) = {}
    /\ \A i, j \in OnBus(c) : i < j => bus[i].event # "deleted" /\ bus[j].event # "created"
    /\ ~gap /\ Owed(c) = {} => \A i \in OnBus(c) : LastOn(c, i) => Brings(bus[i]) = Listed[c]

DueLast(c, kinds) == Owed(c) = {} /\ \E i \in OnBus(c) : LastOn(c, i) /\ bus[i].event \in kinds

\* What a screen shows of a card will be the card once the events still to come about
\* it were received: nothing is to come, or the last one will be taken.
WillShow(c, shown) ==
    /\ Owed(c) = {} /\ OnBus(c) = {} => shown = Listed[c]
    /\ "update" \in Owed(c) \/ DueLast(c, {"updated", "moved"}) =>
         shown # Unborn \/ \E i \in OnBus(c) : bus[i].event = "created"
    /\ "create" \in Owed(c) \/ DueLast(c, {"created"}) => shown \in {Unborn, Listed[c]}

\* A drag whose request is gone: it will load the list again.
Stray == \E r \in Mine : call[r] = Drag /\ req[r] = Idle

\* A response tells what the card is until it is used.
Current(r) ==
    Answered(r) =>
        /\ call[r] \in Events /\ Owed(call[r].card) = {} /\ card[call[r].card] # Unborn
        /\ Brings(call[r]) = Listed[call[r].card]

ScreenInv ==
    /\ (fetch = None /\ ~behind) \/ (Reading /\ ~fetch.overtaken) => ~gap
    /\ fetch = None /\ ~behind /\ ~Stray => \A c \in Cards : WillShow(c, view[c])
    /\ Reading /\ ~fetch.overtaken => \A c \in Cards : WillShow(c, fetch.items[c])

SyncType ==
    /\ bus \in Seq(Events) /\ view \in Views /\ fetch \in {None, Asked} \cup Lists
    /\ behind \in BOOLEAN /\ gap \in BOOLEAN
    /\ call = [r \in Mine |-> call[r]]

\* One request on the card of a request that acts on one.
LEMMA OneTouches ==
  ASSUME CardsTyped, SerialInv, NEW r \in Requests, req[r].op \in CardOps, req[r].step # "insert"
  PROVE  /\ req[r].card \in Cards /\ Touches(req[r].card) = {r}
         /\ Owed(req[r].card) = IF req[r].step = "enqueue" THEN {} ELSE {req[r].op}
<1>1. req[r].card \in Cards
  BY DEF CardsTyped, Inserting, Updating, Removing, Emitting
<1>2. r \in Touches(req[r].card)
  BY DEF Touches, InProgress
<1>3. Touches(req[r].card) = {r}
  BY <1>1, <1>2 DEF SerialInv
<1> QED
  BY <1>1, <1>3 DEF Owed

LEMMA NoneTouches ==
  ASSUME NEW c, Touches(c) = {}
  PROVE  Owed(c) = {}
BY DEF Owed

\* What is owed on a card, and what is stored under it then.
LEMMA OwedFacts ==
  ASSUME CardsTyped, SerialInv, \A r \in Requests : Alive(r), NEW c \in Cards
  PROVE  /\ Owed(c) \in {{}, {"create"}, {"update"}, {"delete"}}
         /\ Owed(c) \in {{"create"}, {"update"}} => Exists(c)
         /\ Owed(c) # {} => card[c] # Unborn
<1>1. CASE Touches(c) = {}
  BY <1>1, NoneTouches
<1>2. CASE Touches(c) # {}
  <2>1. PICK r \in Requests : r \in Touches(c)
    BY <1>2 DEF Touches, InProgress
  <2>2. req[r].op \in CardOps /\ req[r].card = c /\ req[r].step # "insert"
    BY <2>1, ContentConstants DEF Touches, InProgress, CardsTyped, Inserting, Updating, Removing, Emitting
  <2>3. Owed(c) = IF req[r].step = "enqueue" THEN {} ELSE {req[r].op}
    BY <2>2, OneTouches
  <2>4. Alive(r)
    OBVIOUS
  <2>5. req[r].op \in {"create", "update"} => Exists(c)
    BY <2>2, <2>4 DEF Alive
  <2>6. card[c] # Unborn
    BY <1>2 DEF SerialInv
  <2> QED
    BY <2>2, <2>3, <2>5, <2>6 DEF CardOps
<1> QED
  BY <1>1, <1>2

\* A step of request r that concerns card c, if any, leaves the others as they are.
LEMMA OthersStay ==
  ASSUME CardsTyped, SerialInv, \A s \in Requests : Alive(s),
         NEW r \in Requests, NEW m, NEW c,
         req' = [req EXCEPT ![r] = m],
         \A d \in Cards \ {c} : card'[d] = card[d],
         req[r].op \in CardOps /\ req[r].step # "insert" => req[r].card = c,
         m.op \in CardOps => m.card = IF m.step = "insert" THEN Keep ELSE c,
         c \in Cards => Touches(c) \subseteq {r},
         Alive(r)'
  PROVE  /\ \A s \in Requests : Alive(s)'
         /\ \A d \in Cards \ {c} : Owed(d)' = Owed(d)
<1>1. \A s \in Requests : req'[s] = IF s = r THEN m ELSE req[s]
  BY DEF CardsTyped
<1>2. ASSUME NEW s \in Requests \ {r} PROVE Alive(s)'
  <2>1. Alive(s)
    OBVIOUS
  <2>2. CASE req[s].op \notin CardOps \/ req[s].step = "insert"
    <3>1. req[s].op \in CardOps => req[s] \in Inserting
      BY <2>2 DEF CardsTyped, Updating, Removing, Emitting
    <3>2. req[s].op = "delete" => FALSE
      BY <3>1 DEF Inserting, CardOps
    <3> QED
      BY <1>1, <2>2, <3>2 DEF Alive, CardOps
  <2>3. CASE req[s].op \in CardOps /\ req[s].step # "insert"
    <3>1. req[s].card \in Cards /\ s \in Touches(req[s].card)
      BY <2>3, OneTouches
    <3>2. req[s].card # c
      BY <3>1
    <3>3. card'[req[s].card] = card[req[s].card]
      BY <3>1, <3>2
    <3> QED
      BY <1>1, <2>1, <3>3 DEF Alive, Exists
  <2> QED
    BY <2>2, <2>3
<1>3. ASSUME NEW d \in Cards \ {c} PROVE Owed(d)' = Owed(d)
  <2>1. r \notin Touches(d)
    BY ContentConstants DEF Touches, InProgress, CardsTyped, Inserting, Updating, Removing, Emitting
  <2>2. r \notin Touches(d)'
    BY <1>1, ContentConstants DEF Touches, InProgress
  <2>3. \A s \in Requests \ {r} : s \in Touches(d)' <=> s \in Touches(d)
    BY <1>1 DEF Touches, InProgress
  <2>4. Touches(d)' = Touches(d) /\ Touches(d) \subseteq Requests \ {r}
    BY <2>1, <2>2, <2>3 DEF Touches, InProgress
  <2> QED
    BY <1>1, <2>4 DEF Owed
<1> QED
  BY <1>2, <1>3

Same(c) == card'[c] = card[c] /\ Owed(c)' = Owed(c)
Begins(r, c) ==
    /\ Exists(c) /\ Owed(c) = {} /\ card'[c] = card[c] /\ Owed(c)' \in {{"update"}, {"delete"}}
    /\ req[r] = Idle /\ req'[r].op \in {"update", "delete"} /\ req'[r].card = c
Edits(c) == Exists(c) /\ Exists(c)' /\ Owed(c) = {"update"} /\ Owed(c)' = {"update"}
Births(c) == card[c] = Unborn /\ Owed(c) = {} /\ Exists(c)' /\ Owed(c)' = {"create"}
Dies(c) == Exists(c) /\ card'[c] = Deleted /\ Owed(c) = {"delete"} /\ Owed(c)' = {"delete"}
Moves(r, c) == Same(c) \/ Begins(r, c) \/ Edits(c) \/ Births(c) \/ Dies(c)
Served(r) == (\A s \in Requests : Alive(s)') /\ \A c \in Cards : Moves(r, c)

\* What follows a request's step, from what it does to its own card.
LEMMA CardServed ==
  ASSUME CardsTyped, CardsTyped', SerialInv, SerialInv', \A s \in Requests : Alive(s),
         NEW r \in Requests, NEW m, NEW c \in Cards,
         req' = [req EXCEPT ![r] = m],
         \A d \in Cards \ {c} : card'[d] = card[d],
         req[r].op \in CardOps /\ req[r].step # "insert" => req[r].card = c,
         m.op \in CardOps => m.card = c /\ m.step # "insert",
         Touches(c) \subseteq {r},
         Alive(r)', Moves(r, c)
  PROVE  Served(r)
<1>1. (\A s \in Requests : Alive(s)') /\ \A d \in Cards \ {c} : Owed(d)' = Owed(d)
  BY OthersStay
<1> QED
  BY <1>1 DEF Served, Moves, Same

\* What is owed on the card of a request, before and after its step.
LEMMA OwedThen ==
  ASSUME CardsTyped', SerialInv', NEW r \in Requests, NEW c, req'[r].card = c,
         req'[r].op \in CardOps, req'[r].step # "insert"
  PROVE  Owed(c)' = IF req'[r].step = "enqueue" THEN {} ELSE {req'[r].op}
<1>1. c \in Cards
  BY DEF CardsTyped, Inserting, Updating, Removing, Emitting
<1>2. r \in Touches(c)'
  BY DEF Touches, InProgress
<1>3. Touches(c)' = {r}
  BY <1>1, <1>2 DEF SerialInv
<1> QED
  BY <1>3 DEF Owed

ServerInv == CardsTyped /\ SerialInv /\ \A r \in Requests : Alive(r)

\* No step of a request that concerns no card yet changes any.
LEMMA NobodyServed ==
  ASSUME ServerInv, NEW r \in Requests, NEW m, req' = [req EXCEPT ![r] = m], UNCHANGED card,
         req[r].op \notin CardOps, m.op \notin CardOps \/ m \in Inserting
  PROVE  Served(r)
<1>1. req'[r] = m /\ Keep \notin Cards
  BY ContentConstants DEF ServerInv, CardsTyped
<1>2. m \in Inserting => m.op = "create" /\ m.step = "insert" /\ m.card = Keep
  BY DEF Inserting
<1>3. Alive(r)'
  BY <1>1, <1>2 DEF Alive, CardOps
<1>4. (\A s \in Requests : Alive(s)') /\ \A d \in Cards \ {Keep} : Owed(d)' = Owed(d)
  BY <1>1, <1>2, <1>3, OthersStay DEF ServerInv
<1> QED
  BY <1>1, <1>4 DEF Served, Moves, Same

LEMMA CreateServed ==
  ASSUME ServerInv, CardsTyped', SerialInv', NEW r \in Requests, CreateItem(r)
  PROVE  Served(r)
<1>1. ASSUME NEW item \in Contents, BeginCreate(r, item), UNCHANGED card PROVE Served(r)
  <2> DEFINE m == [op |-> "create", step |-> "insert", card |-> Keep, item |-> item]
  <2>1. m \in Inserting /\ req[r].op \notin CardOps /\ req' = [req EXCEPT ![r] = m]
    BY <1>1 DEF BeginCreate, Begin, Idle, CardOps, Inserting
  <2> HIDE DEF m
  <2> QED
    BY <1>1, <2>1, NobodyServed
<1>2. ASSUME NEW c \in Cards, At(r, "create", "insert"), card[c] = Unborn,
             card' = [card EXCEPT ![c] = req[r].item], ToPublish(r, c, req[r].item, "created")
      PROVE  Served(r)
  <2> DEFINE m == [op |-> req[r].op, step |-> "publish", card |-> c, item |-> req[r].item,
                   event |-> "created"]
  <2>1. req[r].op = "create" /\ req[r].step = "insert" /\ req[r].item \in Contents
    BY <1>2 DEF At, ServerInv, CardsTyped, Inserting, Updating, Removing, Emitting, CardOps
  <2>2. req' = [req EXCEPT ![r] = m] /\ req'[r] = m
    BY <1>2 DEF ToPublish, Continue, ServerInv, CardsTyped
  <2>3. /\ m.op = "create" /\ m.step = "publish" /\ m.card = c /\ m.item = req[r].item
        /\ m.event = "created"
    BY <2>1
  <2> HIDE DEF m
  <2>4. card'[c] = req[r].item /\ \A d \in Cards \ {c} : card'[d] = card[d]
    BY <1>2 DEF ServerInv, CardsTyped
  <2>5. Exists(c)'
    BY <2>1, <2>4, ContentConstants DEF Exists
  <2>6. Alive(r)'
    BY <2>2, <2>3, <2>4, <2>5 DEF Alive
  <2>7. Touches(c) = {} /\ Owed(c) = {}
    BY <1>2, NoneTouches DEF ServerInv, SerialInv
  <2>8. Owed(c)' = {"create"}
    BY <2>2, <2>3, OwedThen DEF CardOps
  <2>9. Moves(r, c)
    BY <1>2, <2>5, <2>7, <2>8 DEF Moves, Births
  <2> QED
    BY <2>1, <2>2, <2>3, <2>4, <2>6, <2>7, <2>9, CardServed DEF ServerInv
<1> QED
  BY <1>1, <1>2 DEF CreateItem

\* The card of a request under way, its own step leading to m on the same card.
LEMMA OwnCardServed ==
  ASSUME ServerInv, CardsTyped', SerialInv', NEW r \in Requests, NEW m, NEW c \in Cards,
         req[r].op \in CardOps, req[r].step # "insert", req[r].card = c,
         req' = [req EXCEPT ![r] = m],
         \A d \in Cards \ {c} : card'[d] = card[d],
         m.op \in CardOps => m.card = c /\ m.step # "insert",
         Alive(r)', Moves(r, c)
  PROVE  Served(r)
<1>1. Touches(c) \subseteq {r}
  BY OneTouches DEF ServerInv
<1> QED
  BY <1>1, CardServed DEF ServerInv

LEMMA BeginServed ==
  ASSUME ServerInv, CardsTyped', SerialInv', CardWritesSerial,
         NEW r \in Requests, NEW c \in Cards, NEW m, BeginOn(r, c, m), UNCHANGED card,
         m.op \in {"update", "delete"}, m.card = c,
         m.step = IF m.op = "update" THEN "reread" ELSE "remove"
  PROVE  Served(r)
<1>1. /\ Exists(c) /\ Touches(c) = {} /\ req[r] = Idle
      /\ req' = [req EXCEPT ![r] = m] /\ req'[r] = m
  BY DEF BeginOn, Begin, ServerInv, CardsTyped
<1>2. Owed(c) = {}
  BY <1>1, NoneTouches
<1>3. Owed(c)' = {m.op}
  BY <1>1, OwedThen DEF CardOps
<1>4. Moves(r, c)
  BY <1>1, <1>2, <1>3 DEF Moves, Begins
<1>5. Exists(c)'
  BY <1>1 DEF Exists
<1>6. Alive(r)'
  BY <1>1, <1>5 DEF Alive
<1>7. req[r].op \notin CardOps
  BY <1>1 DEF Idle, CardOps
<1> QED
  BY <1>1, <1>4, <1>6, <1>7, CardServed DEF ServerInv

LEMMA ReadServed ==
  ASSUME ServerInv, CardsTyped', SerialInv', CardWritesSerial, NEW r \in Requests,
         ReadForUpdate(r) \/ ReadUpdated(r), UNCHANGED card
  PROVE  Served(r)
<1>1. ASSUME NEW c \in Cards, NEW p \in Patches, BeginUpdate(r, c, p) PROVE Served(r)
  <2> DEFINE m == [op |-> "update", step |-> "reread", card |-> c, before |-> card[c].lane, patch |-> p]
  <2>1. BeginOn(r, c, m) /\ m.op = "update" /\ m.card = c /\ m.step = "reread"
    BY <1>1 DEF BeginUpdate
  <2> HIDE DEF m
  <2> QED
    BY <2>1, BeginServed
<1>2. ASSUME At(r, "update", "reread"), ReadForUpdate(r) PROVE Served(r)
  <2>1. req[r].op = "update" /\ req[r].step = "reread"
    BY <1>2 DEF At
  <2>2. req[r] \in Updating
    BY <2>1 DEF ServerInv, CardsTyped, Inserting, Removing, Emitting, CardOps
  <2>3. PICK c \in Cards : c = req[r].card
    BY <2>2 DEF Updating
  <2>4. Exists(c) /\ Owed(c) = {"update"}
    BY <2>1, <2>3, OneTouches DEF ServerInv, Alive, CardOps
  <2> DEFINE m == [req[r] EXCEPT !.step = "set", !.patch.lane = IF @ = card[c].lane THEN Keep ELSE @]
  <2>5. req' = [req EXCEPT ![r] = m] /\ req'[r] = m
    BY <1>2, <2>1, <2>3, <2>4 DEF ReadForUpdate, BeginUpdate, BeginOn, Begin, Idle, Continue,
                                  ServerInv, CardsTyped
  <2>6. m.op = "update" /\ m.step = "set" /\ m.card = c
    BY <2>2, <2>3 DEF Updating
  <2> HIDE DEF m
  <2>7. Alive(r)'
    BY <2>4, <2>5, <2>6 DEF Alive, Exists
  <2>8. Owed(c)' = {"update"}
    BY <2>5, <2>6, OwedThen DEF CardOps
  <2>9. Moves(r, c)
    BY <2>4, <2>8 DEF Moves, Same
  <2> QED
    BY <2>1, <2>3, <2>5, <2>6, <2>7, <2>9, OwnCardServed DEF CardOps
<1>3. ASSUME ReadUpdated(r) PROVE Served(r)
  <2>1. req[r].op = "update" /\ req[r].step = "after"
    BY <1>3 DEF At, ReadUpdated
  <2>2. req[r] \in Updating
    BY <2>1 DEF ServerInv, CardsTyped, Inserting, Removing, Emitting, CardOps
  <2>3. PICK c \in Cards : c = req[r].card
    BY <2>2 DEF Updating
  <2>4. Exists(c) /\ Owed(c) = {"update"}
    BY <2>1, <2>3, OneTouches DEF ServerInv, Alive, CardOps
  <2> DEFINE kind == IF card[c].lane # req[r].before THEN "moved" ELSE "updated"
             m == [op |-> req[r].op, step |-> "publish", card |-> c, item |-> card[c], event |-> kind]
  <2>5. req' = [req EXCEPT ![r] = m] /\ req'[r] = m
    BY <1>3, <2>3, <2>4 DEF ReadUpdated, ToPublish, Continue, ServerInv, CardsTyped
  <2>6. /\ m.op = "update" /\ m.step = "publish" /\ m.card = c /\ m.item = card[c]
        /\ m.event \in {"updated", "moved"}
    BY <2>1
  <2> HIDE DEF m
  <2>7. Alive(r)'
    BY <2>4, <2>5, <2>6 DEF Alive, Exists
  <2>8. Owed(c)' = {"update"}
    BY <2>5, <2>6, OwedThen DEF CardOps
  <2>9. Moves(r, c)
    BY <2>4, <2>8 DEF Moves, Same
  <2> QED
    BY <2>1, <2>3, <2>5, <2>6, <2>7, <2>9, OwnCardServed DEF CardOps
<1> QED
  BY <1>1, <1>2, <1>3 DEF ReadForUpdate

LEMMA SetServed ==
  ASSUME ServerInv, CardsTyped', SerialInv', NEW r \in Requests, SetItem(r)
  PROVE  Served(r)
<1>1. req[r].op = "update" /\ req[r].step = "set"
  BY DEF At, SetItem
<1>2. req[r] \in Updating
  BY <1>1 DEF ServerInv, CardsTyped, Inserting, Removing, Emitting, CardOps
<1>3. PICK c \in Cards : c = req[r].card
  BY <1>2 DEF Updating
<1>4. Exists(c) /\ Owed(c) = {"update"}
  BY <1>1, <1>3, OneTouches DEF ServerInv, Alive, CardOps
<1> DEFINE m == [req[r] EXCEPT !.step = "after"]
<1>5. req' = [req EXCEPT ![r] = m] /\ req'[r] = m
  BY DEF SetItem, Continue, ServerInv, CardsTyped
<1>6. m.op = "update" /\ m.step = "after" /\ m.card = c
  BY <1>2, <1>3 DEF Updating
<1> HIDE DEF m
<1>7. card'[c] = Patched(card[c], req[r].patch) /\ \A d \in Cards \ {c} : card'[d] = card[d]
  BY <1>3, <1>4 DEF SetItem, ServerInv, CardsTyped
<1>8. Exists(c)'
  <2>1. card[c] \in Contents /\ req[r].patch \in AnyPatch
    BY <1>2, <1>4 DEF ServerInv, CardsTyped, Stored, Exists, Updating
  <2>2. card'[c] \in Contents
    BY <1>7, <2>1, PatchedStays
  <2> QED
    BY <2>2, ContentConstants DEF Exists
<1>9. Alive(r)'
  BY <1>5, <1>6, <1>8 DEF Alive
<1>10. Owed(c)' = {"update"}
  BY <1>5, <1>6, OwedThen DEF CardOps
<1>11. Moves(r, c)
  BY <1>4, <1>8, <1>10 DEF Moves, Edits
<1> QED
  BY <1>1, <1>3, <1>5, <1>6, <1>7, <1>9, <1>11, OwnCardServed DEF CardOps

LEMMA DeleteServed ==
  ASSUME ServerInv, CardsTyped', SerialInv', CardWritesSerial, NEW r \in Requests, DeleteItem(r)
  PROVE  Served(r)
<1>1. ASSUME NEW c \in Cards, UNCHANGED card,
             BeginOn(r, c, [op |-> "delete", step |-> "remove", card |-> c, item |-> card[c]])
      PROVE  Served(r)
  <2> DEFINE m == [op |-> "delete", step |-> "remove", card |-> c, item |-> card[c]]
  <2>1. BeginOn(r, c, m) /\ m.op = "delete" /\ m.card = c /\ m.step = "remove"
    BY <1>1
  <2> HIDE DEF m
  <2> QED
    BY <1>1, <2>1, BeginServed
<1>2. ASSUME At(r, "delete", "remove"), card' = [card EXCEPT ![req[r].card] = Deleted],
             ToPublish(r, req[r].card, req[r].item, "deleted")
      PROVE  Served(r)
  <2>1. req[r].op = "delete" /\ req[r].step = "remove"
    BY <1>2 DEF At
  <2>2. PICK c \in Cards : c = req[r].card
    BY <2>1, OneTouches DEF ServerInv, CardOps
  <2>3. Exists(c) /\ Owed(c) = {"delete"}
    BY <2>1, <2>2, OneTouches DEF ServerInv, Alive, CardOps
  <2> DEFINE m == [op |-> req[r].op, step |-> "publish", card |-> c, item |-> req[r].item,
                   event |-> "deleted"]
  <2>4. req' = [req EXCEPT ![r] = m] /\ req'[r] = m
    BY <1>2, <2>2 DEF ToPublish, Continue, ServerInv, CardsTyped
  <2>5. m.op = "delete" /\ m.step = "publish" /\ m.card = c /\ m.event = "deleted"
    BY <2>1
  <2> HIDE DEF m
  <2>6. card'[c] = Deleted /\ \A d \in Cards \ {c} : card'[d] = card[d]
    BY <1>2, <2>2 DEF ServerInv, CardsTyped
  <2>7. Alive(r)'
    BY <2>4, <2>5, <2>6 DEF Alive
  <2>8. Owed(c)' = {"delete"}
    BY <2>4, <2>5, OwedThen DEF CardOps
  <2>9. Moves(r, c)
    BY <2>3, <2>6, <2>8 DEF Moves, Dies
  <2> QED
    BY <2>1, <2>2, <2>4, <2>5, <2>6, <2>7, <2>9, OwnCardServed DEF CardOps
<1> QED
  BY <1>1, <1>2 DEF DeleteItem

LEMMA LaneServed ==
  ASSUME ServerInv, NEW r \in Requests, LaneStep(r)
  PROVE  Served(r)
<1>1. PICK m : req' = [req EXCEPT ![r] = m] /\ m.op \notin CardOps
  BY LaneStepLeavesCards
<1>2. UNCHANGED card /\ req[r].op \notin CardOps
  BY LaneStepLeavesCards
<1> QED
  BY <1>1, <1>2, NobodyServed

\* Every step of a request, but for those that publish or enqueue.
LEMMA StepServed ==
  ASSUME ServerInv, CardsTyped', SerialInv', CardWritesSerial, NEW r \in Requests,
         WriteCards(r) \/ ReadCards(r) \/ LaneStep(r)
  PROVE  Served(r)
BY CreateServed, SetServed, DeleteServed, ReadServed, LaneServed DEF WriteCards, ReadCards

\* A publication: what was owed is paid, and its event tells what the card is.
LEMMA PublishServed ==
  ASSUME ServerInv, CardsTyped', SerialInv', NEW r \in Requests, NEW ok, Publish(r, ok)
  PROVE  /\ \A s \in Requests : Alive(s)'
         /\ UNCHANGED card
         /\ \E c \in Cards, op \in CardOps :
              /\ c = req[r].card /\ op = req[r].op /\ Owed(c) = {op} /\ Owed(c)' = {}
              /\ \A d \in Cards \ {c} : Owed(d)' = Owed(d)
<1>1. req[r].op \in CardOps /\ req[r].step = "publish"
  BY DEF Publish
<1>2. req[r] \in Emitting
  BY <1>1 DEF ServerInv, CardsTyped, Inserting, Updating, Removing
<1>3. PICK c \in Cards : c = req[r].card
  BY <1>2 DEF Emitting
<1>4. PICK op \in CardOps : op = req[r].op
  BY <1>1
<1>5. Owed(c) = {op} /\ Touches(c) = {r}
  BY <1>1, <1>3, <1>4, OneTouches DEF ServerInv
<1>6. UNCHANGED card
  BY DEF Publish
<1>7. Alive(r)
  BY DEF ServerInv
<1>8. CASE req[r].event \in {"created", "updated"} /\ req[r].item.assigned
  <2> DEFINE m == [req[r] EXCEPT !.step = "enqueue"]
  <2>1. req' = [req EXCEPT ![r] = m] /\ req'[r] = m
    BY <1>8 DEF Publish, Continue, ServerInv, CardsTyped
  <2>2. /\ m.op = op /\ m.step = "enqueue" /\ m.card = c
        /\ m.item = req[r].item /\ m.event = req[r].event
    BY <1>2, <1>3, <1>4 DEF Emitting
  <2> HIDE DEF m
  <2>3. Alive(r)'
    BY <1>1, <1>3, <1>4, <1>6, <1>7, <1>8, <2>1, <2>2 DEF Alive, Exists
  <2>4. Owed(c)' = {}
    BY <2>1, <2>2, OwedThen
  <2>5. (\A s \in Requests : Alive(s)') /\ \A d \in Cards \ {c} : Owed(d)' = Owed(d)
    BY <1>1, <1>3, <1>5, <1>6, <2>1, <2>2, <2>3, OthersStay DEF ServerInv
  <2> QED
    BY <1>3, <1>4, <1>5, <1>6, <2>4, <2>5
<1>9. CASE ~(req[r].event \in {"created", "updated"} /\ req[r].item.assigned)
  <2>1. req' = [req EXCEPT ![r] = Idle] /\ req'[r] = Idle
    BY <1>9 DEF Publish, End, Continue, ServerInv, CardsTyped
  <2>2. Idle.op \notin CardOps
    BY DEF Idle, CardOps
  <2>3. Alive(r)'
    BY <2>1, <2>2 DEF Alive, CardOps
  <2>4. (\A s \in Requests : Alive(s)') /\ \A d \in Cards \ {c} : Owed(d)' = Owed(d)
    BY <1>1, <1>3, <1>5, <1>6, <2>1, <2>2, <2>3, OthersStay DEF ServerInv
  <2>5. Touches(c)' = {}
    <3>1. \A s \in Requests \ {r} : req'[s] = req[s] /\ s \notin Touches(c)
      BY <1>5, <2>1 DEF ServerInv, CardsTyped
    <3> QED
      BY <2>1, <2>2, <3>1 DEF Touches, InProgress
  <2>6. Owed(c)' = {}
    BY <2>5 DEF Owed
  <2> QED
    BY <1>3, <1>4, <1>5, <1>6, <2>4, <2>6
<1> QED
  BY <1>8, <1>9

\* The mention job changes nothing of what is owed.
LEMMA EnqueueServed ==
  ASSUME ServerInv, CardsTyped', SerialInv', NEW r \in Requests, EnqueueMention(r)
  PROVE  /\ \A s \in Requests : Alive(s)'
         /\ UNCHANGED card
         /\ \A d \in Cards : Owed(d)' = Owed(d)
         /\ req[r].card \in Cards /\ Owed(req[r].card) = {}
<1>1. req[r].op \in CardOps /\ req[r].step = "enqueue" /\ UNCHANGED card
  BY DEF EnqueueMention
<1>2. PICK c \in Cards : c = req[r].card
  BY <1>1, OneTouches DEF ServerInv
<1>3. Owed(c) = {} /\ Touches(c) = {r}
  BY <1>1, <1>2, OneTouches DEF ServerInv
<1>4. req' = [req EXCEPT ![r] = Idle] /\ req'[r] = Idle
  BY DEF EnqueueMention, End, Continue, ServerInv, CardsTyped
<1>5. Idle.op \notin CardOps
  BY DEF Idle, CardOps
<1>6. Alive(r)'
  BY <1>4, <1>5 DEF Alive, CardOps
<1>7. (\A s \in Requests : Alive(s)') /\ \A d \in Cards \ {c} : Owed(d)' = Owed(d)
  BY <1>1, <1>2, <1>3, <1>4, <1>5, <1>6, OthersStay DEF ServerInv
<1>8. Owed(c)' = {}
  <2>1. \A s \in Requests \ {r} : req'[s] = req[s] /\ s \notin Touches(c)
    BY <1>3, <1>4 DEF ServerInv, CardsTyped
  <2>2. Touches(c)' = {}
    BY <1>4, <1>5, <2>1 DEF Touches, InProgress
  <2> QED
    BY <2>2 DEF Owed
<1> QED
  BY <1>1, <1>2, <1>3, <1>7, <1>8

\* After a crash nothing is owed any more.
LEMMA CrashServed ==
  ASSUME Crash
  PROVE  /\ \A s \in Requests : Alive(s)'
         /\ UNCHANGED card
         /\ \A d \in Cards : Owed(d)' = {}
         /\ InProgress(CardOps) = {} => \A d \in Cards : Owed(d) = {}
<1>1. UNCHANGED card /\ req' = [r \in Requests |-> Idle] /\ Idle.op \notin CardOps
  BY DEF Crash, Idle, CardOps
<1>2. \A d \in Cards : Touches(d)' = {}
  BY <1>1 DEF Touches, InProgress
<1>3. \A s \in Requests : Alive(s)'
  BY <1>1 DEF Alive, CardOps
<1> QED
  BY <1>1, <1>2, <1>3 DEF Owed, Touches

-----------------------------------------------------------------------------
(* The events on their way, and what each step makes of what will be shown.   *)

LEMMA BusFields ==
  ASSUME bus \in Seq(Events)
  PROVE  /\ Len(bus) \in Nat
         /\ \A i \in 1..Len(bus) : bus[i] \in Events
<1> QED
  BY ElementOfSeq

LEMMA EventFields ==
  ASSUME NEW e \in Events
  PROVE  /\ e.event \in {"created", "updated", "moved", "deleted"} /\ e.card \in Cards
         /\ e.item \in Contents /\ e.item # Unborn /\ e.item # Deleted
BY ContentConstants DEF Events

\* Of the events about a card one is the last.
LEMMA SomeLast ==
  ASSUME bus \in Seq(Events), NEW c, OnBus(c) # {}
  PROVE  \E i \in OnBus(c) : LastOn(c, i)
<1> DEFINE m == Max(OnBus(c) \cup {-1})
<1>1. OnBus(c) \in SUBSET Nat /\ Len(bus) \in Nat /\ \A o \in OnBus(c) : o <= Len(bus)
  BY BusFields DEF OnBus
<1>2. m \in OnBus(c) \cup {-1} /\ \A o \in OnBus(c) : o <= m
  BY <1>1, MaxIsHighest
<1> HIDE DEF m
<1>3. m \in OnBus(c)
  <2>1. PICK o \in OnBus(c) : TRUE
    OBVIOUS
  <2>2. o \in Nat /\ o <= m
    BY <1>1, <1>2
  <2> QED
    BY <1>2, <2>2
<1> QED
  BY <1>2, <1>3 DEF LastOn

LEMMA ListedFacts ==
  ASSUME ServerInv, NEW c \in Cards
  PROVE  /\ Listed[c] = IF Exists(c) THEN card[c] ELSE Unborn
         /\ Exists(c) => card[c] \in Contents /\ Listed[c] # Unborn
BY ContentConstants DEF Listed, Exists, ServerInv, CardsTyped, Stored

\* A step of the server that publishes nothing.
LEMMA MoveKeepsBus ==
  ASSUME ServerInv, ServerInv', bus \in Seq(Events), NEW r, NEW c \in Cards, Moves(r, c), BusInv(c),
         UNCHANGED <<bus, gap>>
  PROVE  BusInv(c)'
<1>1. OnBus(c)' = OnBus(c)
  BY DEF OnBus
<1>2. CASE Same(c)
  <2>1. Listed[c]' = Listed[c]
    BY <1>2 DEF Same, Listed, Exists
  <2> QED
    BY <1>1, <1>2, <2>1 DEF Same, BusInv, LastOn
<1>3. CASE Begins(r, c)
  BY <1>1, <1>3 DEF Begins, Exists, BusInv, LastOn
<1>4. CASE Edits(c)
  BY <1>1, <1>4 DEF Edits, Exists, BusInv, LastOn
<1>5. CASE Births(c)
  BY <1>1, <1>5 DEF Births, Exists, BusInv, LastOn
<1>6. CASE Dies(c)
  <2>1. \A i \in OnBus(c) : bus[i].event # "deleted"
    BY <1>6 DEF Dies, BusInv
  <2>2. card'[c] # Unborn
    BY <1>6, ContentConstants DEF Dies
  <2> QED
    BY <1>1, <1>6, <2>1, <2>2 DEF Dies, BusInv, LastOn
<1> QED
  BY <1>2, <1>3, <1>4, <1>5, <1>6 DEF Moves

LEMMA MoveKeepsShown ==
  ASSUME ServerInv, ServerInv', bus \in Seq(Events), NEW r, NEW c \in Cards, Moves(r, c), BusInv(c),
         UNCHANGED <<bus, gap>>, NEW v, WillShow(c, v)
  PROVE  WillShow(c, v)'
<1>1. OnBus(c)' = OnBus(c)
  BY DEF OnBus
<1>2. CASE Same(c)
  <2>1. Listed[c]' = Listed[c]
    BY <1>2 DEF Same, Listed, Exists
  <2>2. \A kinds : DueLast(c, kinds)' <=> DueLast(c, kinds)
    BY <1>1, <1>2 DEF Same, DueLast, LastOn
  <2> QED
    BY <1>1, <1>2, <2>1, <2>2 DEF Same, WillShow
<1>3. CASE Begins(r, c)
  <2>1. v # Unborn \/ \E i \in OnBus(c) : bus[i].event = "created"
    <3>1. CASE OnBus(c) = {}
      BY <1>3, <3>1, ListedFacts DEF Begins, WillShow
    <3>2. CASE OnBus(c) # {}
      <4>1. PICK i \in OnBus(c) : LastOn(c, i)
        BY <3>2, SomeLast
      <4>2. bus[i].event \in {"created", "updated", "moved", "deleted"}
        BY BusFields, EventFields DEF OnBus
      <4>3. bus[i].event # "deleted"
        BY <1>3 DEF Begins, Exists, BusInv
      <4>4. bus[i].event # "created" => DueLast(c, {"updated", "moved"})
        BY <1>3, <4>1, <4>2, <4>3 DEF Begins, DueLast
      <4> QED
        BY <4>4 DEF WillShow
    <3> QED
      BY <3>1, <3>2
  <2>2. \A kinds : ~DueLast(c, kinds)'
    BY <1>3 DEF Begins, DueLast
  <2> QED
    BY <1>1, <1>3, <2>1, <2>2 DEF Begins, WillShow
<1>4. CASE Edits(c)
  BY <1>1, <1>4 DEF Edits, WillShow, DueLast
<1>5. CASE Births(c)
  <2>1. v = Unborn
    BY <1>5, ListedFacts DEF Births, BusInv, WillShow, Exists
  <2> QED
    BY <1>5, <2>1 DEF Births, WillShow, DueLast
<1>6. CASE Dies(c)
  BY <1>6 DEF Dies, WillShow, DueLast
<1> QED
  BY <1>2, <1>3, <1>4, <1>5, <1>6 DEF Moves

\* One more event.
LEMMA BusLonger ==
  ASSUME bus \in Seq(Events), NEW e \in Events, bus' = Append(bus, e)
  PROVE  /\ bus' \in Seq(Events) /\ Len(bus') = Len(bus) + 1 /\ bus'[Len(bus) + 1] = e
         /\ \A i \in 1..Len(bus) : bus'[i] = bus[i]
         /\ OnBus(e.card)' = OnBus(e.card) \cup {Len(bus) + 1}
         /\ \A c : c # e.card => OnBus(c)' = OnBus(c)
<1>1. /\ bus' \in Seq(Events) /\ Len(bus') = Len(bus) + 1 /\ bus'[Len(bus) + 1] = e
      /\ \A i \in 1..Len(bus) : bus'[i] = bus[i]
  BY AppendProperties
<1>2. Len(bus) \in Nat
  BY BusFields
<1>3. ASSUME NEW c PROVE OnBus(c)' = OnBus(c) \cup IF c = e.card THEN {Len(bus) + 1} ELSE {}
  <2>1. 1..Len(bus') = (1..Len(bus)) \cup {Len(bus) + 1}
    BY <1>1, <1>2
  <2>2. ASSUME NEW i PROVE i \in OnBus(c)' <=> i \in OnBus(c) \cup IF c = e.card THEN {Len(bus) + 1} ELSE {}
    <3>1. CASE i \in 1..Len(bus)
      BY <1>1, <1>2, <2>1, <3>1 DEF OnBus
    <3>2. CASE i = Len(bus) + 1
      BY <1>1, <1>2, <2>1, <3>2 DEF OnBus
    <3>3. CASE i \notin 1..Len(bus) /\ i # Len(bus) + 1
      BY <2>1, <3>3 DEF OnBus
    <3> QED
      BY <3>1, <3>2, <3>3
  <2> QED
    BY <2>2
<1>4. e.card = e.card => OnBus(e.card)' = OnBus(e.card) \cup {Len(bus) + 1}
  <2> DEFINE c == e.card
  <2> HIDE DEF c
  <2>1. OnBus(c)' = OnBus(c) \cup IF c = e.card THEN {Len(bus) + 1} ELSE {}
    BY <1>3
  <2> QED
    BY <2>1 DEF c
<1> QED
  BY <1>1, <1>3, <1>4

\* The event of a publication goes last.
LEMMA SentKeepsBus ==
  ASSUME ServerInv, ServerInv', bus \in Seq(Events), NEW e \in Events, bus' = Append(bus, e),
         UNCHANGED <<card, gap>>, NEW op \in CardOps, Owed(e.card) = {op}, Owed(e.card)' = {},
         Brings(e) = Listed[e.card],
         e.event = "created" => op = "create",
         e.event = "deleted" => card[e.card] = Deleted,
         BusInv(e.card)
  PROVE  BusInv(e.card)'
<1> DEFINE c == e.card
           n == Len(bus)
<1>1. c \in Cards /\ n \in Nat /\ bus' \in Seq(Events) /\ Len(bus') = n + 1
  BY EventFields, BusFields, BusLonger
<1>2. bus'[n + 1] = e /\ \A i \in 1..n : bus'[i] = bus[i]
  BY BusLonger
<1>3. OnBus(c)' = OnBus(c) \cup {n + 1} /\ OnBus(c) \subseteq 1..n
  BY BusLonger DEF OnBus
<1>4. Owed(c) = {op} /\ Owed(c)' = {} /\ Brings(e) = Listed[c] /\ Listed[c]' = Listed[c]
  BY DEF Listed, Exists
<1>5. BusInv(c)
  OBVIOUS
<1> HIDE DEF c, n
<1>6. card[c] # Unborn /\ card'[c] = card[c]
  BY <1>1, <1>4, OwedFacts DEF ServerInv
<1>7. \A i \in OnBus(c) : bus[i].event # "deleted" /\ bus'[i] = bus[i] /\ i < n + 1
  BY <1>1, <1>2, <1>3, <1>4, <1>5 DEF BusInv
<1>8. e.event = "created" => OnBus(c) = {}
  BY <1>4, <1>5 DEF BusInv
<1>9. \A i \in OnBus(c)' : bus'[i].event = "deleted" => card'[c] = Deleted /\ Owed(c)' = {}
  BY <1>2, <1>3, <1>4, <1>6, <1>7 DEF c
<1>10. ASSUME NEW i \in OnBus(c)', NEW j \in OnBus(c)', i < j
       PROVE  bus'[i].event # "deleted" /\ bus'[j].event # "created"
  <2>1. i \in OnBus(c)
    BY <1>1, <1>3, <1>7, <1>10
  <2>2. CASE j \in OnBus(c)
    BY <1>5, <1>7, <1>10, <2>1, <2>2 DEF BusInv
  <2>3. CASE j = n + 1
    BY <1>2, <1>7, <1>8, <2>1, <2>3
  <2> QED
    BY <1>3, <2>2, <2>3
<1>11. ASSUME NEW i \in OnBus(c)', \A j \in OnBus(c)' : j <= i PROVE i = n + 1
  BY <1>1, <1>3, <1>7, <1>11
<1>12. \A i \in OnBus(c)' : LastOn(c, i)' => Brings(bus[i])' = Listed[c]'
  <2> SUFFICES ASSUME NEW i \in OnBus(c)', LastOn(c, i)' PROVE Brings(bus[i])' = Listed[c]'
    OBVIOUS
  <2>1. i = n + 1
    BY <1>11 DEF LastOn
  <2>2. Brings(bus[i])' = Brings(e)
    BY <1>2, <2>1 DEF Brings
  <2> QED
    BY <1>4, <2>2
<1>13. BusInv(c)'
  BY <1>4, <1>6, <1>9, <1>10, <1>12 DEF BusInv
<1> QED
  BY <1>13 DEF c

LEMMA SentKeepsShown ==
  ASSUME bus \in Seq(Events), NEW e \in Events, bus' = Append(bus, e),
         UNCHANGED card, NEW op \in CardOps, Owed(e.card) = {op}, Owed(e.card)' = {},
         e.event = "created" => op = "create",
         e.event \in {"updated", "moved"} => op = "update",
         NEW v, WillShow(e.card, v)
  PROVE  WillShow(e.card, v)'
<1> DEFINE c == e.card
           n == Len(bus)
<1>1. n \in Nat /\ OnBus(c)' = OnBus(c) \cup {n + 1} /\ OnBus(c) \subseteq 1..n
  BY BusFields, BusLonger DEF OnBus
<1>2. bus'[n + 1] = e /\ \A i \in 1..n : bus'[i] = bus[i]
  BY BusLonger
<1>3. Owed(c) = {op} /\ Owed(c)' = {} /\ Listed[c]' = Listed[c] /\ WillShow(c, v)
  BY DEF Listed, Exists
<1> HIDE DEF c, n
<1>4. ASSUME NEW kinds, DueLast(c, kinds)' PROVE e.event \in kinds
  <2>1. PICK i \in OnBus(c)' : (\A j \in OnBus(c)' : j <= i) /\ bus'[i].event \in kinds
    BY <1>4 DEF DueLast, LastOn
  <2>2. i \in Nat /\ n + 1 \in OnBus(c)' /\ (i = n + 1 \/ i <= n)
    BY <1>1
  <2>3. n + 1 <= i
    BY <2>1, <2>2
  <2>4. i = n + 1
    BY <1>1, <2>2, <2>3
  <2> QED
    BY <1>2, <2>1, <2>4
<1>5. DueLast(c, {"updated", "moved"})' =>
        v # Unborn \/ \E i \in OnBus(c)' : bus'[i].event = "created"
  BY <1>1, <1>2, <1>3, <1>4 DEF WillShow
<1>6. DueLast(c, {"created"})' => v \in {Unborn, Listed[c]}
  BY <1>3, <1>4 DEF WillShow
<1>7. OnBus(c)' # {}
  BY <1>1
<1>8. WillShow(c, v)'
  BY <1>3, <1>5, <1>6, <1>7 DEF WillShow
<1> QED
  BY <1>8 DEF c

\* The other cards do not notice.
LEMMA SentKeepsOthers ==
  ASSUME bus \in Seq(Events), NEW e \in Events, bus' = Append(bus, e), UNCHANGED <<card, gap>>,
         NEW d \in Cards \ {e.card}, Owed(d)' = Owed(d), BusInv(d)
  PROVE  BusInv(d)' /\ \A v : WillShow(d, v) => WillShow(d, v)'
<1>1. OnBus(d)' = OnBus(d) /\ \A i \in OnBus(d) : bus'[i] = bus[i]
  BY BusLonger DEF OnBus
<1>2. Listed[d]' = Listed[d]
  BY DEF Listed, Exists
<1>3. \A i : LastOn(d, i)' <=> LastOn(d, i)
  BY <1>1 DEF LastOn
<1>4. \A kinds : DueLast(d, kinds)' <=> DueLast(d, kinds)
  BY <1>1, <1>3 DEF DueLast
<1>5. BusInv(d)'
  BY <1>1, <1>2, <1>3 DEF BusInv, Brings
<1>6. \A v : WillShow(d, v) => WillShow(d, v)'
  BY <1>1, <1>2, <1>4 DEF WillShow
<1> QED
  BY <1>5, <1>6

\* What is lost leaves the events before it, and is remembered unless there are none.
LEMMA LostKeepsBus ==
  ASSUME bus \in Seq(Events), UNCHANGED <<card, bus>>, gap' = (bus # <<>>), NEW c \in Cards,
         Owed(c)' \subseteq Owed(c), BusInv(c)
  PROVE  BusInv(c)'
<1>1. OnBus(c)' = OnBus(c)
  BY DEF OnBus
<1>2. ASSUME ~gap' PROVE OnBus(c) = {}
  <2>1. bus = <<>>
    BY <1>2
  <2>2. Len(bus) = 0
    BY <2>1
  <2> QED
    BY <2>2 DEF OnBus
<1> QED
  BY <1>1, <1>2 DEF BusInv

LEMMA EmptyKeepsBus ==
  ASSUME bus' = <<>>, NEW c
  PROVE  BusInv(c)'
<1>1. OnBus(c)' = {}
  BY DEF OnBus
<1> QED
  BY <1>1 DEF BusInv

-----------------------------------------------------------------------------
(* The first event is received.                                              *)

\* What the screen shows of a card it has as v, once it applied event e about it.
Taken(v, e) == IF e.event = "deleted" THEN Unborn
               ELSE IF (e.event = "created") = (v = Unborn) THEN e.item ELSE v

LEMMA TakenFacts ==
  ASSUME NEW v, NEW e \in Events
  PROVE  /\ e.event = "deleted" => Taken(v, e) = Unborn
         /\ e.event = "created" => Taken(v, e) = IF v = Unborn THEN e.item ELSE v
         /\ e.event \in {"updated", "moved"} => Taken(v, e) = IF v = Unborn THEN v ELSE e.item
<1>1. e.event \in {"updated", "moved"} => e.event # "created" /\ e.event # "deleted"
  OBVIOUS
<1>2. e.event = "created" => e.event # "deleted"
  OBVIOUS
<1> QED
  BY <1>1, <1>2 DEF Taken

LEMMA BusShorter ==
  ASSUME bus \in Seq(Events), bus # <<>>, bus' = Tail(bus)
  PROVE  /\ bus' \in Seq(Events) /\ Len(bus') = Len(bus) - 1 /\ Len(bus) \in Nat \ {0}
         /\ Head(bus) = bus[1] /\ bus[1] \in Events
         /\ \A i \in 1..Len(bus') : bus'[i] = bus[i + 1]
         /\ \A c, i : i \in OnBus(c)' => i \in Nat /\ i >= 1 /\ i + 1 \in OnBus(c)
                                        /\ bus'[i] = bus[i + 1]
         /\ \A c, i : i \in OnBus(c) => i = 1 \/ (i \in Nat /\ i > 1 /\ i - 1 \in OnBus(c)')
<1>1. /\ bus' \in Seq(Events) /\ Len(bus') = Len(bus) - 1 /\ Head(bus) = bus[1] /\ Head(bus) \in Events
      /\ \A i \in 1..Len(bus') : bus'[i] = bus[i + 1]
  BY HeadTailProperties
<1>2. Len(bus) \in Nat \ {0}
  BY EmptySeq, LenProperties
<1>3. ASSUME NEW c, NEW i \in OnBus(c)'
      PROVE  i \in Nat /\ i >= 1 /\ i + 1 \in OnBus(c) /\ bus'[i] = bus[i + 1]
  <2>1. i \in 1..Len(bus') /\ bus'[i].card = c
    BY DEF OnBus
  <2>2. bus'[i] = bus[i + 1]
    BY <1>1, <2>1
  <2>3. i \in Nat /\ i >= 1 /\ i + 1 \in 1..Len(bus)
    BY <1>1, <1>2, <2>1
  <2> QED
    BY <2>1, <2>2, <2>3 DEF OnBus
<1>4. ASSUME NEW c, NEW i \in OnBus(c), i # 1 PROVE i \in Nat /\ i > 1 /\ i - 1 \in OnBus(c)'
  <2>1. i \in 1..Len(bus) /\ bus[i].card = c
    BY DEF OnBus
  <2>2. i \in Nat /\ i > 1 /\ i - 1 \in 1..Len(bus') /\ (i - 1) + 1 = i
    BY <1>1, <1>2, <1>4, <2>1
  <2>3. bus'[i - 1] = bus[i]
    BY <1>1, <2>2
  <2> QED
    BY <2>1, <2>2, <2>3 DEF OnBus
<1> QED
  BY <1>1, <1>2, <1>3, <1>4

LEMMA ReceivedKeepsBus ==
  ASSUME bus \in Seq(Events), bus # <<>>, bus' = Tail(bus), gap' = (gap /\ Tail(bus) # <<>>),
         UNCHANGED card, NEW c \in Cards, Owed(c)' = Owed(c), BusInv(c)
  PROVE  BusInv(c)'
<1>1. Listed[c]' = Listed[c]
  BY DEF Listed, Exists
<1>2. \A i \in OnBus(c)' : i \in Nat /\ i >= 1 /\ i + 1 \in OnBus(c) /\ bus'[i] = bus[i + 1]
  BY BusShorter
<1>3. \A i \in OnBus(c) : i = 1 \/ (i \in Nat /\ i > 1 /\ i - 1 \in OnBus(c)')
  BY BusShorter
<1>4. card[c] = Unborn \/ "create" \in Owed(c) => OnBus(c)' = {}
  BY <1>2 DEF BusInv
<1>5. \A i \in OnBus(c)' : bus'[i].event = "deleted" => card[c] = Deleted /\ Owed(c) = {}
  BY <1>2 DEF BusInv
<1>6. \A i, j \in OnBus(c)' : i < j => bus'[i].event # "deleted" /\ bus'[j].event # "created"
  <2> SUFFICES ASSUME NEW i \in OnBus(c)', NEW j \in OnBus(c)', i < j
               PROVE  bus'[i].event # "deleted" /\ bus'[j].event # "created"
    OBVIOUS
  <2>1. i + 1 \in OnBus(c) /\ j + 1 \in OnBus(c) /\ i + 1 < j + 1
    BY <1>2
  <2>2. bus[i + 1].event # "deleted" /\ bus[j + 1].event # "created"
    BY <2>1 DEF BusInv
  <2> QED
    BY <1>2, <2>2
<1>7. ASSUME ~gap', Owed(c) = {}, NEW i \in OnBus(c)', LastOn(c, i)'
      PROVE  Brings(bus[i])' = Listed[c]
  <2>1. ~gap
    <3>1. OnBus(c)' # {}
      OBVIOUS
    <3>2. bus' # <<>>
      <4> SUFFICES ASSUME bus' = <<>> PROVE FALSE
        OBVIOUS
      <4>1. Len(bus') = 0
        BY EmptySeq
      <4> QED
        BY <3>1, <4>1 DEF OnBus
    <3> QED
      BY <1>7, <3>2
  <2>2. i \in Nat /\ \A j \in OnBus(c)' : j <= i
    BY <1>2, <1>7 DEF LastOn
  <2>3. ASSUME NEW j \in OnBus(c) PROVE j <= i + 1
    <3>1. CASE j = 1
      BY <2>2, <3>1
    <3>2. CASE j # 1
      <4>1. j \in Nat /\ j - 1 \in OnBus(c)'
        BY <1>3, <3>2
      <4>2. j - 1 <= i
        BY <2>2, <4>1
      <4> QED
        BY <2>2, <4>1, <4>2
    <3> QED
      BY <3>1, <3>2
  <2>4. LastOn(c, i + 1)
    BY <1>2, <2>3 DEF LastOn
  <2>5. Brings(bus[i + 1]) = Listed[c]
    BY <1>7, <2>1, <2>4, <1>2 DEF BusInv
  <2>6. Brings(bus'[i]) = Listed[c]
    BY <1>2, <2>5
  <2> QED
    BY <2>6 DEF Brings
<1> QED
  BY <1>1, <1>4, <1>5, <1>6, <1>7 DEF BusInv

LEMMA ReceivedKeepsShown ==
  ASSUME ServerInv, bus \in Seq(Events), bus # <<>>, bus' = Tail(bus),
         UNCHANGED card, NEW c \in Cards, Owed(c)' = Owed(c), BusInv(c), ~gap,
         NEW v, WillShow(c, v), NEW w, w = IF bus[1].card = c THEN Taken(v, bus[1]) ELSE v
  PROVE  WillShow(c, w)'
<1> DEFINE e == bus[1]
<1>1. Listed[c]' = Listed[c] /\ e \in Events
  BY BusShorter DEF Listed, Exists
<1>2. \A i \in OnBus(c)' : i \in Nat /\ i >= 1 /\ i + 1 \in OnBus(c) /\ bus'[i] = bus[i + 1]
  BY BusShorter
<1>3. \A i \in OnBus(c) : i = 1 \/ (i \in Nat /\ i > 1 /\ i - 1 \in OnBus(c)')
  BY BusShorter
<1>4. e.card = c <=> 1 \in OnBus(c)
  BY BusShorter DEF OnBus
<1>5. /\ e.event \in {"created", "updated", "moved", "deleted"}
      /\ e.item \in Contents /\ e.item # Unborn
  BY <1>1, EventFields
<1>6. /\ e.event = "deleted" => Taken(v, e) = Unborn
      /\ e.event = "created" => Taken(v, e) = IF v = Unborn THEN e.item ELSE v
      /\ e.event \in {"updated", "moved"} => Taken(v, e) = IF v = Unborn THEN v ELSE e.item
  BY <1>1, TakenFacts
<1>7. w = IF e.card = c THEN Taken(v, e) ELSE v
  OBVIOUS
<1>8. e = bus[1]
  OBVIOUS
<1> HIDE DEF e
<1>9. ASSUME NEW kinds, DueLast(c, kinds)'
      PROVE  /\ DueLast(c, kinds)
             /\ e.card = c => e.event # "deleted" /\ kinds # {"created"}
  <2>1. PICK i \in OnBus(c)' : LastOn(c, i)' /\ bus'[i].event \in kinds
    BY <1>9 DEF DueLast
  <2>2. i \in Nat /\ i >= 1 /\ i + 1 \in OnBus(c) /\ bus[i + 1].event \in kinds
    BY <1>2, <2>1
  <2>3. ASSUME NEW j \in OnBus(c) PROVE j <= i + 1
    <3>1. CASE j = 1
      BY <2>2, <3>1
    <3>2. CASE j # 1
      <4>1. j \in Nat /\ j - 1 \in OnBus(c)'
        BY <1>3, <3>2
      <4>2. j - 1 <= i
        BY <2>1, <4>1 DEF LastOn
      <4> QED
        BY <2>2, <4>1, <4>2
    <3> QED
      BY <3>1, <3>2
  <2>4. DueLast(c, kinds)
    BY <1>9, <2>2, <2>3 DEF DueLast, LastOn
  <2>5. e.card = c => e.event # "deleted" /\ bus[i + 1].event # "created"
    <3> SUFFICES ASSUME 1 \in OnBus(c) PROVE bus[1].event # "deleted" /\ bus[i + 1].event # "created"
      BY <1>4, <1>8
    <3>1. 1 < i + 1
      BY <2>2
    <3> QED
      BY <2>2, <3>1 DEF BusInv
  <2> QED
    BY <2>2, <2>4, <2>5
<1>10. ASSUME Owed(c) = {}, OnBus(c)' = {} PROVE w = Listed[c]
  <2>1. OnBus(c) \subseteq {1}
    BY <1>3, <1>10
  <2>2. CASE e.card # c
    BY <1>4, <1>7, <1>10, <2>1, <2>2 DEF WillShow
  <2>3. CASE e.card = c
    <3>1. OnBus(c) = {1} /\ LastOn(c, 1)
      BY <1>4, <2>1, <2>3 DEF LastOn
    <3>2. Brings(e) = Listed[c]
      BY <1>8, <1>10, <3>1 DEF BusInv
    <3>3. e.event \in {"updated", "moved"} => v # Unborn
      <4> SUFFICES ASSUME e.event \in {"updated", "moved"} PROVE v # Unborn
        OBVIOUS
      <4>1. DueLast(c, {"updated", "moved"})
        BY <1>8, <1>10, <3>1 DEF DueLast
      <4> QED
        BY <1>8, <3>1, <4>1 DEF WillShow
    <3>4. e.event = "created" => v \in {Unborn, Listed[c]}
      <4> SUFFICES ASSUME e.event = "created" PROVE v \in {Unborn, Listed[c]}
        OBVIOUS
      <4>1. DueLast(c, {"created"})
        BY <1>8, <1>10, <3>1 DEF DueLast
      <4> QED
        BY <4>1 DEF WillShow
    <3> QED
      BY <1>5, <1>6, <1>7, <2>3, <3>2, <3>3, <3>4 DEF Brings
  <2> QED
    BY <2>2, <2>3
<1>11. ASSUME "update" \in Owed(c) \/ DueLast(c, {"updated", "moved"})'
       PROVE  w # Unborn \/ \E i \in OnBus(c)' : bus'[i].event = "created"
  <2>1. v # Unborn \/ \E i \in OnBus(c) : bus[i].event = "created"
    BY <1>9, <1>11 DEF WillShow
  <2>2. e.card = c => e.event # "deleted"
    <3>1. CASE "update" \in Owed(c)
      BY <1>4, <1>8, <3>1 DEF BusInv
    <3>2. CASE DueLast(c, {"updated", "moved"})'
      BY <1>9, <3>2
    <3> QED
      BY <1>11, <3>1, <3>2
  <2>3. v # Unborn => w # Unborn
    BY <1>5, <1>6, <1>7, <2>2
  <2>4. ASSUME NEW i \in OnBus(c), bus[i].event = "created"
        PROVE  w # Unborn \/ \E j \in OnBus(c)' : bus'[j].event = "created"
    <3>1. CASE i = 1
      BY <1>4, <1>5, <1>6, <1>7, <1>8, <2>4, <3>1
    <3>2. CASE i # 1
      <4>1. i \in Nat /\ i - 1 \in OnBus(c)'
        BY <1>3, <3>2
      <4>3. bus'[i - 1] = bus[(i - 1) + 1]
        BY <1>2, <4>1
      <4>2. bus'[i - 1] = bus[i]
        BY <4>1, <4>3, (i - 1) + 1 = i
      <4> QED
        BY <2>4, <4>1, <4>2
    <3> QED
      BY <3>1, <3>2
  <2> QED
    BY <2>1, <2>3, <2>4
<1>12. ASSUME "create" \in Owed(c) \/ DueLast(c, {"created"})'
       PROVE  w \in {Unborn, Listed[c]}
  <2>1. e.card # c
    <3>1. CASE "create" \in Owed(c)
      BY <1>4, <3>1 DEF BusInv
    <3>2. CASE DueLast(c, {"created"})'
      BY <1>9, <3>2
    <3> QED
      BY <1>12, <3>1, <3>2
  <2>2. v \in {Unborn, Listed[c]}
    BY <1>9, <1>12 DEF WillShow
  <2> QED
    BY <1>7, <2>1, <2>2
<1> QED
  BY <1>1, <1>10, <1>11, <1>12 DEF WillShow

\* The list as the server has it now will be right.
LEMMA ListWillShow ==
  ASSUME ServerInv, bus \in Seq(Events), NEW c \in Cards, BusInv(c), ~gap
  PROVE  WillShow(c, Listed[c])
<1>1. "update" \in Owed(c) => Listed[c] # Unborn
  BY OwedFacts, ListedFacts DEF ServerInv
<1>2. ASSUME DueLast(c, {"updated", "moved"}) PROVE Listed[c] # Unborn
  <2>1. PICK i \in OnBus(c) : LastOn(c, i) /\ bus[i].event \in {"updated", "moved"} /\ Owed(c) = {}
    BY <1>2 DEF DueLast
  <2>2. Brings(bus[i]) = Listed[c]
    BY <2>1 DEF BusInv
  <2>3. bus[i].item # Unborn
    BY BusFields, EventFields DEF OnBus
  <2>4. bus[i].event # "deleted"
    BY <2>1
  <2> QED
    BY <2>2, <2>3, <2>4 DEF Brings
<1> QED
  BY <1>1, <1>2 DEF WillShow

-----------------------------------------------------------------------------
(* One step of the system.                                                   *)

HistoryExists ==
    /\ \A c \in strays : c \in Cards /\ Exists(c)
    /\ \A c \in mentioned : c \in Cards /\ Exists(c) /\ card[c].assigned

SyncInv ==
    /\ SyncType /\ ServerInv /\ HistoryExists
    /\ \A c \in Cards : BusInv(c)
    /\ \A r \in Mine : Current(r)
    /\ ScreenInv

\* Beginning a creation writes nothing yet, and leaves the history as it is.
LEMMA IdleWrites ==
  ASSUME HistoryExists, NEW r, req[r] = Idle, CreateItem(r), UNCHANGED <<board, card, history, faults>>
  PROVE  WriteCards(r)
<1>1. strays' = {c \in Cards : card'[c] \notin {Unborn, Deleted} /\ c \in strays}
  BY DEF HistoryExists, Exists, history
<1>2. Placing(r) = {}
  BY DEF Placing, At, Idle
<1>3. mentioned' = {c \in mentioned : card'[c] \notin {Unborn, Deleted} /\ card'[c].assigned}
  BY DEF HistoryExists, Exists, history
<1> QED
  BY <1>1, <1>2, <1>3 DEF WriteCards

\* The screen's requests begin as any other, and the rest does not touch the server.
LEMMA ServerStep ==
  ASSUME HistoryExists, SyncNext
  PROVE  Next \/ UNCHANGED <<board, card, req, history>>
<1>1. ASSUME NEW r \in Requests, Serve(r) \/ \E ok \in BOOLEAN : Announce(r, ok) PROVE Next
  BY <1>1 DEF Serve, Announce, Next
<1>2. ASSUME NEW r \in Mine, NEW who, NEW c \in Cards, NEW p \in Patches, Ask(r, who, c, p)
      PROVE  Next \/ UNCHANGED <<board, card, req, history>>
  <2>1. CASE Exists(c)
    <3>1. BeginUpdate(r, c, p)
      BY <1>2, <2>1 DEF Ask
    <3>2. ReadForUpdate(r)
      BY <3>1 DEF ReadForUpdate
    <3> QED
      BY <1>2, <3>2, SyncConstants DEF Ask, ReadCards, history, Next
  <2>2. CASE ~Exists(c)
    BY <1>2, <2>2 DEF Ask
  <2> QED
    BY <2>1, <2>2
<1>3. ASSUME NEW r \in Mine, NEW c \in Cards, NEW l \in Lanes, DragCard(r, c, l)
      PROVE  Next \/ UNCHANGED <<board, card, req, history>>
  <2>1. [lane |-> l, assigned |-> Keep] \in Patches
    BY DEF Patches
  <2> QED
    BY <1>2, <1>3, <2>1 DEF DragCard
<1>4. ASSUME NEW r \in Mine, NEW c \in Cards, NEW a \in BOOLEAN, EditCard(r, c, a)
      PROVE  Next \/ UNCHANGED <<board, card, req, history>>
  <2>1. [lane |-> Keep, assigned |-> a] \in Patches
    BY DEF Patches
  <2> QED
    BY <1>2, <1>4, <2>1 DEF EditCard
<1>5. ASSUME NEW r \in Mine, NEW l \in Lanes, AddCard(r, l) PROVE Next
  <2>1. [lane |-> l, assigned |-> FALSE] \in Contents
    BY DEF Contents
  <2>2. CreateItem(r)
    BY <1>5, <2>1 DEF AddCard, CreateItem
  <2>3. WriteCards(r)
    BY <1>5, <2>2, IdleWrites DEF AddCard
  <2> QED
    BY <2>3, SyncConstants DEF Next
<1>6. ASSUME NEW r \in Mine, Respond(r) \/ Fail(r) PROVE UNCHANGED <<board, card, req, history>>
  BY <1>6 DEF Respond, Fail, vars
<1>7. Receive \/ Disconnect \/ Reconnect \/ Reopen \/ Load \/ LoadFails => UNCHANGED <<board, card, req, history>>
  BY DEF Receive, Disconnect, Reconnect, Reopen, Load, LoadFails, vars
<1>8. CrashServer => Next
  BY DEF CrashServer, Next
<1> QED
  BY <1>1, <1>3, <1>4, <1>5, <1>6, <1>7, <1>8 DEF SyncNext

LEMMA ServerStays ==
  ASSUME CardsTyped, SerialInv, UNCHANGED <<card, req>>
  PROVE  CardsTyped' /\ SerialInv'
BY DEF CardsTyped, SerialInv, Touches, InProgress

LEMMA HistoryStays ==
  ASSUME CardsTyped, HistoryExists, [Next]_vars
  PROVE  HistoryExists'
<1>1. ASSUME NEW r \in Requests, WriteCards(r) PROVE HistoryExists'
  BY <1>1 DEF WriteCards, HistoryExists, Exists
<1>2. ASSUME UNCHANGED <<card, strays>>,
             \A c \in mentioned' \ mentioned : c \in Cards /\ Exists(c) /\ card[c].assigned
      PROVE  HistoryExists'
  BY <1>2 DEF HistoryExists, Exists
<1>3. ASSUME NEW r \in Requests, LaneStep(r) \/ \E ok \in BOOLEAN : Publish(r, ok) PROVE HistoryExists'
  <2>1. UNCHANGED <<card, history>>
    BY <1>3 DEF LaneStep, AddColumn, ReorderColumns, RenameColumn, DeleteColumn, Publish
  <2> QED
    BY <1>2, <2>1 DEF history
<1>4. ASSUME NEW r \in Requests, ReadCards(r) PROVE HistoryExists'
  <2>1. CASE UNCHANGED mentioned
    BY <1>2, <1>4, <2>1 DEF ReadCards
  <2>2. CASE ReadUpdated(r)
    <3>1. req[r].card \in Cards
      BY <2>2 DEF ReadUpdated, At, CardsTyped, CardOps, Inserting, Updating, Removing, Emitting
    <3> QED
      BY <1>2, <1>4, <2>2, <3>1 DEF ReadCards, ReadUpdated
  <2> QED
    BY <1>4, <2>1, <2>2 DEF ReadCards
<1>5. ASSUME NEW r \in Requests, EnqueueMention(r) PROVE HistoryExists'
  <2>1. req[r].card \in Cards
    BY <1>5 DEF EnqueueMention, CardsTyped, CardOps, Inserting, Updating, Removing, Emitting
  <2> QED
    BY <1>2, <1>5, <2>1 DEF EnqueueMention
<1>6. Crash => HistoryExists'
  BY <1>2 DEF Crash
<1>7. UNCHANGED vars => HistoryExists'
  BY <1>2 DEF vars, history
<1> QED
  BY <1>1, <1>3, <1>4, <1>5, <1>6, <1>7 DEF Next

LEMMA ServerSteps ==
  ASSUME CardWritesSerial, CardsTyped, SerialInv, HistoryExists, SyncNext
  PROVE  CardsTyped' /\ SerialInv' /\ HistoryExists'
<1>1. CASE UNCHANGED <<board, card, req, history>>
  <2>1. HistoryExists'
    BY <1>1 DEF HistoryExists, Exists, history
  <2> QED
    BY <1>1, <2>1, ServerStays
<1>2. CASE Next
  <2>1. CardsTyped'
    BY <1>2, StepCards
  <2> QED
    BY <1>2, <2>1, StepSerial, HistoryStays
<1> QED
  BY <1>1, <1>2, ServerStep

\* A list on its way after something overtook it.
LEMMA Overtaken ==
  ASSUME SyncType, Overtake
  PROVE  /\ fetch' \in {None, Asked} \cup Lists
         /\ fetch' = None <=> fetch = None
         /\ Reading' => fetch'.overtaken
<1>1. CASE ~Reading
  BY <1>1 DEF SyncType, Overtake, Reading
<1>2. CASE Reading
  <2>1. fetch \in Lists
    BY <1>2 DEF SyncType, Reading
  <2>2. fetch' \in Lists /\ fetch'.overtaken
    BY <1>2, <2>1 DEF Overtake, Lists
  <2> QED
    BY <1>2, <2>2, SyncConstants DEF Reading
<1> QED
  BY <1>1, <1>2

\* What is shown stays right when every card's does and no drag is forgotten.
LEMMA ShownStays ==
  ASSUME ScreenInv, \A c \in Cards : \A v : WillShow(c, v) => WillShow(c, v)',
         UNCHANGED <<view, fetch, behind>>, gap' => gap, Stray => Stray'
  PROVE  ScreenInv'
<1>1. (fetch = None /\ ~behind)' \/ (Reading /\ ~fetch.overtaken)' => ~gap'
  BY DEF ScreenInv, Reading
<1>2. ASSUME fetch' = None, ~behind', ~Stray', NEW c \in Cards PROVE WillShow(c, view[c])'
  <2>1. WillShow(c, view[c])
    BY <1>2 DEF ScreenInv
  <2>2. PICK v : v = view[c]
    OBVIOUS
  <2>3. WillShow(c, v)'
    BY <2>1, <2>2
  <2> QED
    BY <2>2, <2>3
<1>3. ASSUME Reading', ~fetch'.overtaken, NEW c \in Cards PROVE WillShow(c, fetch.items[c])'
  <2>1. WillShow(c, fetch.items[c])
    BY <1>3 DEF ScreenInv, Reading
  <2>2. PICK v : v = fetch.items[c]
    OBVIOUS
  <2>3. WillShow(c, v)'
    BY <2>1, <2>2
  <2> QED
    BY <2>2, <2>3
<1> QED
  BY <1>1, <1>2, <1>3 DEF ScreenInv

\* A request's step changes what that request keeps, and no other.
LEMMA OthersAlone ==
  ASSUME CardsTyped, NEW r \in Requests, WriteCards(r) \/ ReadCards(r) \/ LaneStep(r),
         NEW m \in Requests \ {r}
  PROVE  req'[m] = req[m]
<1>1. ASSUME NEW x, req' = [req EXCEPT ![r] = x] PROVE req'[m] = req[m]
  BY <1>1 DEF CardsTyped
<1>2. LaneStep(r) => req'[m] = req[m]
  BY <1>1, LaneStepLeavesCards
<1>3. CreateItem(r) => req'[m] = req[m]
  BY <1>1 DEF CreateItem, BeginCreate, Begin, ToPublish, Continue
<1>4. SetItem(r) => req'[m] = req[m]
  BY <1>1 DEF SetItem, Continue
<1>5. DeleteItem(r) => req'[m] = req[m]
  BY <1>1 DEF DeleteItem, BeginOn, Begin, ToPublish, Continue
<1>6. ReadForUpdate(r) => req'[m] = req[m]
  BY <1>1 DEF ReadForUpdate, BeginUpdate, BeginOn, Begin, End, Continue
<1>7. ReadUpdated(r) => req'[m] = req[m]
  BY <1>1 DEF ReadUpdated, ToPublish, End, Continue
<1> QED
  BY <1>2, <1>3, <1>4, <1>5, <1>6, <1>7 DEF WriteCards, ReadCards

\* What a request's step does to the cards, and leaves of what is to come.
LEMMA ServedKeeps ==
  ASSUME SyncInv, ServerInv', CardWritesSerial, NEW s \in Requests, Served(s), Admitted(s),
         UNCHANGED <<bus, gap>>
  PROVE  /\ \A c \in Cards : BusInv(c)'
         /\ \A c \in Cards : \A v : WillShow(c, v) => WillShow(c, v)'
         /\ \A r \in Mine : call'[r] = call[r] => Current(r)'
<1>1. bus \in Seq(Events)
  BY DEF SyncInv, SyncType
<1>2. \A c \in Cards : Moves(s, c)
  BY DEF Served
<1>3. ASSUME NEW c \in Cards PROVE BusInv(c)'
  BY <1>1, <1>2, MoveKeepsBus DEF SyncInv
<1>4. ASSUME NEW c \in Cards, NEW v, WillShow(c, v) PROVE WillShow(c, v)'
  BY <1>1, <1>2, <1>4, MoveKeepsShown DEF SyncInv
<1>5. ASSUME NEW r \in Mine, Answered(r)
      PROVE  \E c \in Cards : /\ c = call[r].card /\ call[r] \in Events /\ Owed(c)' = {}
                             /\ card'[c] # Unborn /\ Brings(call[r]) = Listed'[c]
  <2>1. call[r] \in Events /\ Owed(call[r].card) = {} /\ card[call[r].card] # Unborn
        /\ Brings(call[r]) = Listed[call[r].card]
    BY <1>5 DEF SyncInv, Current
  <2>2. PICK c \in Cards : c = call[r].card
    BY <2>1, EventFields
  <2>3. ~Begins(s, c)
    <3> SUFFICES ASSUME Begins(s, c) PROVE FALSE
      OBVIOUS
    <3>1. call[r].card # req'[s].card
      BY <1>5 DEF Begins, Admitted
    <3> QED
      BY <2>2, <3>1 DEF Begins
  <2>4. Same(c)
    BY <1>2, <2>1, <2>2, <2>3 DEF Moves, Edits, Births, Dies
  <2>5. Owed(c)' = {} /\ card'[c] # Unborn /\ Listed'[c] = Listed[c]
    BY <2>1, <2>2, <2>4 DEF Same, Listed, Exists
  <2> QED
    BY <2>1, <2>2, <2>5
<1>6. ASSUME NEW r \in Mine, call'[r] = call[r] PROVE Current(r)'
  <2> SUFFICES ASSUME Answered(r)'
               PROVE  /\ call'[r] \in Events /\ Owed(call[r].card)' = {} /\ card'[call'[r].card] # Unborn
                      /\ Brings(call'[r]) = Listed'[call'[r].card]
    BY DEF Current, Brings
  <2>1. Answered(r)
    BY <1>6 DEF Answered, Waiting
  <2>2. PICK c \in Cards : /\ c = call[r].card /\ call[r] \in Events /\ Owed(c)' = {}
                           /\ card'[c] # Unborn /\ Brings(call[r]) = Listed'[c]
    BY <1>5, <2>1
  <2>3. c = call'[r].card
    BY <1>6, <2>2
  <2> QED
    BY <1>6, <2>2, <2>3
<1> QED
  BY <1>3, <1>4, <1>6

LEMMA ServeKeeps ==
  ASSUME SyncInv, CardsTyped', SerialInv', HistoryExists', CardWritesSerial,
         NEW r \in Requests, Serve(r)
  PROVE  SyncInv'
<1>1. Served(r)
  BY StepServed DEF Serve, SyncInv
<1>2. ServerInv'
  BY <1>1 DEF ServerInv, Served
<1>3. UNCHANGED <<bus, socket, view, fetch, call, behind, gap>> /\ Admitted(r)
  BY DEF Serve, screen
<1>4. Stray => Stray'
  <2> SUFFICES ASSUME NEW m \in Mine, call[m] = Drag, req[m] = Idle PROVE Stray'
    BY DEF Stray
  <2>1. m # r
    BY DEF Serve
  <2>2. req'[m] = Idle
    BY <1>1, <2>1, SyncConstants, OthersAlone DEF Serve, SyncInv, ServerInv
  <2> QED
    BY <1>3, <2>2 DEF Stray
<1>5. SyncType'
  BY <1>3 DEF SyncInv, SyncType
<1>6. /\ \A c \in Cards : BusInv(c)'
      /\ \A c \in Cards : \A v : WillShow(c, v) => WillShow(c, v)'
      /\ \A m \in Mine : Current(m)'
  BY <1>1, <1>2, <1>3, ServedKeeps
<1>7. ScreenInv'
  BY <1>3, <1>4, <1>6, ShownStays DEF SyncInv
<1> QED
  BY <1>2, <1>5, <1>6, <1>7 DEF SyncInv

\* What is to come of a card stays as it is while nothing is done about it.
LEMMA StillShown ==
  ASSUME SyncInv, UNCHANGED <<card, bus>>, NEW c \in Cards, Owed(c)' = Owed(c)
  PROVE  /\ gap' = gap => BusInv(c)'
         /\ \A v : WillShow(c, v) => WillShow(c, v)'
<1>1. OnBus(c)' = OnBus(c) /\ Listed' = Listed
  BY DEF OnBus, Listed, Exists
<1>2. ASSUME NEW i PROVE LastOn(c, i)' <=> LastOn(c, i)
  BY <1>1 DEF LastOn
<1>3. ASSUME NEW kinds PROVE DueLast(c, kinds)' <=> DueLast(c, kinds)
  BY <1>1, <1>2 DEF DueLast
<1>4. ASSUME gap' = gap PROVE BusInv(c)'
  <2>1. BusInv(c)
    BY DEF SyncInv
  <2> QED
    BY <1>1, <1>2, <1>4, <2>1 DEF BusInv, Brings
<1>5. ASSUME NEW v, WillShow(c, v) PROVE WillShow(c, v)'
  BY <1>1, <1>3, <1>5 DEF WillShow
<1> QED
  BY <1>4, <1>5

\* A response stays current while nothing is done about its card.
LEMMA CurrentStays ==
  ASSUME SyncInv, UNCHANGED card, \A c \in Cards : Owed(c) = {} => Owed(c)' = {},
         NEW r \in Mine, call'[r] = call[r]
  PROVE  Current(r)'
<1> SUFFICES ASSUME Answered(r)'
             PROVE  /\ call'[r] \in Events /\ Owed(call[r].card)' = {} /\ card'[call'[r].card] # Unborn
                    /\ Brings(call'[r]) = Listed'[call'[r].card]
  BY DEF Current, Brings
<1>1. Answered(r) /\ Current(r)
  BY DEF Answered, Waiting, SyncInv
<1>2. call[r] \in Events
  BY <1>1 DEF Current
<1>3. PICK c \in Cards : c = call[r].card
  BY <1>2, EventFields
<1>4. Owed(c) = {} /\ card[c] # Unborn /\ Brings(call[r]) = Listed[c]
  BY <1>1, <1>3 DEF Current
<1>5. Owed(c)' = {} /\ Listed' = Listed
  BY <1>4 DEF Listed, Exists
<1>6. c = call'[r].card
  BY <1>3
<1> QED
  BY <1>2, <1>4, <1>5, <1>6

\* While the server does nothing, all that is to come stays as it is.
LEMMA StillKeeps ==
  ASSUME SyncInv, UNCHANGED <<card, req>>
  PROVE  /\ \A s \in Requests : Alive(s)'
         /\ \A c : Owed(c)' = Owed(c)
         /\ \A r \in Mine : call'[r] = call[r] => Current(r)'
         /\ bus' = bus /\ gap' = gap => \A c \in Cards : BusInv(c)'
         /\ bus' = bus => \A c \in Cards : \A v : WillShow(c, v) => WillShow(c, v)'
<1>1. \A s \in Requests : Alive(s)'
  BY DEF SyncInv, ServerInv, Alive, Exists
<1>2. \A c : Owed(c)' = Owed(c)
  BY DEF Owed, Touches, InProgress
<1>3. ASSUME NEW r \in Mine, call'[r] = call[r] PROVE Current(r)'
  BY <1>2, <1>3, CurrentStays
<1>4. ASSUME bus' = bus, NEW c \in Cards
      PROVE  /\ gap' = gap => BusInv(c)'
             /\ \A v : WillShow(c, v) => WillShow(c, v)'
  <2>1. Owed(c)' = Owed(c)
    BY <1>2
  <2> QED
    BY <1>4, <2>1, StillShown
<1> QED
  BY <1>1, <1>2, <1>3, <1>4

\* A call that begins is not one that has a response, nor was it a stray drag.
LEMMA CallBegins ==
  ASSUME SyncInv, NEW r \in Mine, NEW who \in {Drag, Dialog}, call[r] = None,
         call' = [call EXCEPT ![r] = who],
         \A m \in Mine \ {r} : req'[m] = req[m],
         \A m \in Mine : call'[m] = call[m] => Current(m)'
  PROVE  /\ \A m \in Mine : Current(m)'
         /\ Stray => Stray'
         /\ call' = [m \in Mine |-> call'[m]]
<1>1. /\ call'[r] = who /\ \A m \in Mine \ {r} : call'[m] = call[m]
      /\ call' = [m \in Mine |-> call'[m]]
  BY DEF SyncInv, SyncType
<1>2. Current(r)'
  BY <1>1 DEF Current, Answered, Waiting
<1>3. Stray => Stray'
  BY <1>1, SyncConstants DEF Stray
<1> QED
  BY <1>1, <1>2, <1>3

LEMMA AskKeeps ==
  ASSUME SyncInv, CardsTyped', SerialInv', HistoryExists', CardWritesSerial,
         NEW r \in Mine, NEW who \in {Drag, Dialog}, NEW c \in Cards, NEW p \in Patches,
         Ask(r, who, c, p)
  PROVE  /\ ServerInv'
         /\ \A d \in Cards : BusInv(d)'
         /\ \A d \in Cards : \A v : WillShow(d, v) => WillShow(d, v)'
         /\ \A m \in Mine : Current(m)'
         /\ Stray => Stray'
         /\ call' = [m \in Mine |-> call'[m]]
         /\ who = Drag => Stray' \/ Owed(c)' = {"update"}
<1>1. /\ call[r] = None /\ req[r] = Idle /\ call' = [call EXCEPT ![r] = who]
      /\ UNCHANGED <<board, card, history, faults, bus, socket, fetch, behind, gap>>
  BY DEF Ask
<1>2. r \in Requests
  BY SyncConstants
<1>3. CASE Exists(c)
  <2>1. BeginUpdate(r, c, p) /\ Admitted(r)
    BY <1>3 DEF Ask
  <2>2. ReadCards(r)
    BY <1>1, <2>1 DEF ReadCards, ReadForUpdate, history
  <2>3. Served(r)
    BY <1>2, <2>2, StepServed DEF SyncInv
  <2>4. ServerInv'
    BY <2>3 DEF ServerInv, Served
  <2>5. /\ \A d \in Cards : BusInv(d)'
        /\ \A d \in Cards : \A v : WillShow(d, v) => WillShow(d, v)'
        /\ \A m \in Mine : call'[m] = call[m] => Current(m)'
    BY <1>1, <1>2, <2>1, <2>3, <2>4, ServedKeeps
  <2>6. \A m \in Mine \ {r} : req'[m] = req[m]
    BY <1>2, <2>2, OthersAlone, SyncConstants DEF SyncInv, ServerInv
  <2>7. req'[r].op = "update" /\ req'[r].step = "reread" /\ req'[r].card = c
    BY <1>2, <2>1 DEF BeginUpdate, BeginOn, Begin, SyncInv, ServerInv, CardsTyped
  <2>8. Owed(c)' = {"update"}
    BY <1>2, <2>7, OwedThen DEF CardOps
  <2> QED
    BY <1>1, <2>4, <2>5, <2>6, <2>8, CallBegins
<1>4. CASE ~Exists(c)
  <2>1. UNCHANGED <<card, req, bus, gap>>
    BY <1>1, <1>4 DEF Ask
  <2>2. /\ \A s \in Requests : Alive(s)'
        /\ \A d \in Cards : BusInv(d)'
        /\ \A d \in Cards : \A v : WillShow(d, v) => WillShow(d, v)'
        /\ \A m \in Mine : call'[m] = call[m] => Current(m)'
    BY <2>1, StillKeeps
  <2>3. /\ \A m \in Mine : Current(m)'
        /\ Stray => Stray'
        /\ call' = [m \in Mine |-> call'[m]]
    BY <1>1, <2>1, <2>2, CallBegins
  <2>4. who = Drag => Stray'
    BY <1>1, <2>1 DEF Stray, SyncInv, SyncType
  <2> QED
    BY <2>2, <2>3, <2>4 DEF ServerInv
<1> QED
  BY <1>3, <1>4

\* A card the screen shows, while its update is under way.
LEMMA UpdateShows ==
  ASSUME NEW c, Owed(c)' = {"update"}, NEW v, v # Unborn
  PROVE  WillShow(c, v)'
BY DEF WillShow, DueLast

LEMMA DragKeeps ==
  ASSUME SyncInv, CardsTyped', SerialInv', HistoryExists', CardWritesSerial,
         NEW r \in Mine, NEW c \in Cards, NEW l \in Lanes, DragCard(r, c, l)
  PROVE  SyncInv'
<1>1. [lane |-> l, assigned |-> Keep] \in Patches
  BY DEF Patches
<1>2. /\ ServerInv'
      /\ \A d \in Cards : BusInv(d)'
      /\ \A d \in Cards : \A v : WillShow(d, v) => WillShow(d, v)'
      /\ \A m \in Mine : Current(m)'
      /\ Stray => Stray'
      /\ call' = [m \in Mine |-> call'[m]]
      /\ Stray' \/ Owed(c)' = {"update"}
  BY <1>1, AskKeeps DEF DragCard
<1>3. /\ view[c] # Unborn /\ view' = [view EXCEPT ![c].lane = l]
      /\ UNCHANGED <<bus, fetch, behind, gap>>
  BY DEF DragCard, Ask
<1>4. view \in Views
  BY DEF SyncInv, SyncType
<1>5. view[c] \in Contents
  BY <1>3, <1>4 DEF Views
<1>6. [view[c] EXCEPT !.lane = l] \in Contents
  BY <1>5 DEF Contents
<1>7. view' \in Views /\ view'[c] \in Contents /\ \A d \in Cards \ {c} : view'[d] = view[d]
  BY <1>3, <1>4, <1>6 DEF Views
<1>8. view'[c] # Unborn
  BY <1>7, ContentConstants
<1>9. SyncType'
  BY <1>2, <1>3, <1>7 DEF SyncInv, SyncType
<1>10. ASSUME fetch' = None, ~behind', ~Stray', NEW d \in Cards PROVE WillShow(d, view[d])'
  <2>1. WillShow(d, view[d])
    BY <1>2, <1>3, <1>10 DEF SyncInv, ScreenInv
  <2>2. PICK v : v = view'[d]
    OBVIOUS
  <2>3. CASE d # c
    <3>1. WillShow(d, v)'
      BY <1>2, <1>7, <2>1, <2>2, <2>3
    <3> QED
      BY <2>2, <3>1
  <2>4. CASE d = c
    <3>1. WillShow(c, v)'
      BY <1>2, <1>8, <1>10, <2>2, <2>4, UpdateShows
    <3> QED
      BY <2>2, <2>4, <3>1
  <2> QED
    BY <2>3, <2>4
<1>11. ASSUME Reading', ~fetch'.overtaken, NEW d \in Cards PROVE WillShow(d, fetch.items[d])'
  <2>1. WillShow(d, fetch.items[d])
    BY <1>3, <1>11 DEF SyncInv, ScreenInv, Reading
  <2>2. PICK v : v = fetch.items[d]
    OBVIOUS
  <2>3. WillShow(d, v)'
    BY <1>2, <2>1, <2>2
  <2> QED
    BY <1>3, <2>2, <2>3
<1>12. (fetch = None /\ ~behind)' \/ (Reading /\ ~fetch.overtaken)' => ~gap'
  BY <1>3 DEF SyncInv, ScreenInv, Reading
<1>13. ScreenInv'
  BY <1>10, <1>11, <1>12 DEF ScreenInv
<1> QED
  BY <1>2, <1>9, <1>13 DEF SyncInv

LEMMA EditKeeps ==
  ASSUME SyncInv, CardsTyped', SerialInv', HistoryExists', CardWritesSerial,
         NEW r \in Mine, NEW c \in Cards, NEW a \in BOOLEAN, EditCard(r, c, a)
  PROVE  SyncInv'
<1>1. [lane |-> Keep, assigned |-> a] \in Patches
  BY DEF Patches
<1>2. /\ ServerInv'
      /\ \A d \in Cards : BusInv(d)'
      /\ \A d \in Cards : \A v : WillShow(d, v) => WillShow(d, v)'
      /\ \A m \in Mine : Current(m)'
      /\ Stray => Stray'
      /\ call' = [m \in Mine |-> call'[m]]
  BY <1>1, AskKeeps DEF EditCard
<1>3. UNCHANGED <<bus, view, fetch, behind, gap>>
  BY DEF EditCard, Ask
<1>4. SyncType'
  BY <1>2, <1>3 DEF SyncInv, SyncType
<1>5. ScreenInv'
  BY <1>2, <1>3, ShownStays DEF SyncInv
<1> QED
  BY <1>2, <1>4, <1>5 DEF SyncInv

LEMMA AddKeeps ==
  ASSUME SyncInv, CardsTyped', SerialInv', HistoryExists', CardWritesSerial,
         NEW r \in Mine, NEW l \in Lanes, AddCard(r, l)
  PROVE  SyncInv'
<1>1. /\ call[r] = None /\ req[r] = Idle /\ call' = [call EXCEPT ![r] = Dialog]
      /\ UNCHANGED <<board, card, history, faults, bus, socket, view, fetch, behind, gap>>
  BY DEF AddCard
<1>2. r \in Requests
  BY SyncConstants
<1>3. CreateItem(r)
  <2>1. [lane |-> l, assigned |-> FALSE] \in Contents
    BY DEF Contents
  <2> QED
    BY <1>1, <2>1 DEF AddCard, CreateItem
<1>4. WriteCards(r)
  BY <1>1, <1>3, IdleWrites DEF SyncInv
<1>5. Served(r)
  BY <1>2, <1>4, StepServed DEF SyncInv
<1>6. ServerInv'
  BY <1>5 DEF ServerInv, Served
<1>7. req'[r].op = "create"
  BY <1>2 DEF AddCard, BeginCreate, Begin, SyncInv, ServerInv, CardsTyped
<1>8. Admitted(r)
  BY <1>7 DEF Admitted
<1>9. /\ \A d \in Cards : BusInv(d)'
      /\ \A d \in Cards : \A v : WillShow(d, v) => WillShow(d, v)'
      /\ \A m \in Mine : call'[m] = call[m] => Current(m)'
  BY <1>1, <1>2, <1>5, <1>6, <1>8, ServedKeeps
<1>10. \A m \in Mine \ {r} : req'[m] = req[m]
  BY <1>2, <1>4, OthersAlone, SyncConstants DEF SyncInv, ServerInv
<1>11. /\ \A m \in Mine : Current(m)'
       /\ Stray => Stray'
       /\ call' = [m \in Mine |-> call'[m]]
  BY <1>1, <1>9, <1>10, CallBegins
<1>12. SyncType'
  BY <1>1, <1>11 DEF SyncInv, SyncType
<1>13. ScreenInv'
  BY <1>1, <1>9, <1>11, ShownStays DEF SyncInv
<1> QED
  BY <1>6, <1>9, <1>11, <1>12, <1>13 DEF SyncInv

\* An event or a response, applied to what the screen shows.
LEMMA Applied ==
  ASSUME view \in Views, NEW e \in Events, view' = Apply(view, e)
  PROVE  /\ view' \in Views
         /\ view'[e.card] = Taken(view[e.card], e)
         /\ \A d \in Cards \ {e.card} : view'[d] = view[d]
<1>1. e.card \in Cards /\ e.item \in Contents
  BY EventFields
<1>2. view' = [view EXCEPT ![e.card] = Taken(view[e.card], e)]
  BY DEF Apply, Taken
<1>3. view[e.card] \in Contents \cup {Unborn}
  BY <1>1 DEF Views
<1>4. Taken(view[e.card], e) \in Contents \cup {Unborn}
  BY <1>1, <1>3 DEF Taken
<1> QED
  BY <1>1, <1>2, <1>4 DEF Views

LEMMA RespondKeeps ==
  ASSUME SyncInv, CardsTyped', SerialInv', HistoryExists', NEW r \in Mine, Respond(r)
  PROVE  SyncInv'
<1>1. /\ Answered(r) /\ call' = [call EXCEPT ![r] = None]
      /\ UNCHANGED <<card, req, bus, fetch, behind, gap>>
  BY DEF Respond, vars
<1> DEFINE e == IF call[r].event = "moved" THEN [call[r] EXCEPT !.event = "updated"] ELSE call[r]
<1>2. view' = Apply(view, e)
  BY DEF Respond
<1>3. call[r] \in Events /\ Brings(call[r]) = Listed[call[r].card]
  BY <1>1 DEF SyncInv, Current
<1>4. e \in Events /\ e.card = call[r].card /\ Brings(e) = Brings(call[r])
  BY <1>3 DEF Events, Brings
<1> HIDE DEF e
<1>5. PICK c \in Cards : c = e.card
  BY <1>4, EventFields
<1>6. /\ view \in Views /\ view' \in Views /\ view'[c] = Taken(view[c], e)
      /\ \A d \in Cards \ {c} : view'[d] = view[d]
  BY <1>2, <1>4, <1>5, Applied DEF SyncInv, SyncType
<1>7. view'[c] \in {view[c], Listed[c]}
  BY <1>3, <1>4, <1>5, <1>6 DEF Taken, Brings
<1>8. /\ \A s \in Requests : Alive(s)'
      /\ \A d \in Cards : BusInv(d)'
      /\ \A d \in Cards : \A v : WillShow(d, v) => WillShow(d, v)'
      /\ \A m \in Mine : call'[m] = call[m] => Current(m)'
  BY <1>1, StillKeeps
<1>9. /\ call' = [m \in Mine |-> call'[m]] /\ call'[r] = None
      /\ \A m \in Mine \ {r} : call'[m] = call[m]
  BY <1>1 DEF SyncInv, SyncType
<1>10. Current(r)'
  BY <1>9 DEF Current, Answered
<1>11. Stray => Stray'
  <2>1. call[r] # Drag
    BY <1>1 DEF Answered, Waiting
  <2> QED
    BY <1>1, <1>9, <2>1 DEF Stray
<1>12. SyncType'
  BY <1>1, <1>6, <1>9 DEF SyncInv, SyncType
<1>13. ASSUME fetch' = None, ~behind', ~Stray', NEW d \in Cards PROVE WillShow(d, view[d])'
  <2>1. ~gap /\ WillShow(d, view[d])
    BY <1>1, <1>11, <1>13 DEF SyncInv, ScreenInv
  <2>2. WillShow(d, Listed[d])
    BY <2>1, ListWillShow DEF SyncInv, SyncType
  <2>3. PICK v : v = view'[d]
    OBVIOUS
  <2>4. v = view[d] \/ v = Listed[d]
    BY <1>6, <1>7, <2>3
  <2>5. WillShow(d, v)
    BY <2>1, <2>2, <2>4
  <2>6. WillShow(d, v)'
    BY <1>8, <2>5
  <2> QED
    BY <2>3, <2>6
<1>14. ASSUME Reading', ~fetch'.overtaken, NEW d \in Cards PROVE WillShow(d, fetch.items[d])'
  <2>1. WillShow(d, fetch.items[d])
    BY <1>1, <1>14 DEF SyncInv, ScreenInv, Reading
  <2>2. PICK v : v = fetch.items[d]
    OBVIOUS
  <2>3. WillShow(d, v)'
    BY <1>8, <2>1, <2>2
  <2> QED
    BY <1>1, <2>2, <2>3
<1>15. (fetch = None /\ ~behind)' \/ (Reading /\ ~fetch.overtaken)' => ~gap'
  BY <1>1 DEF SyncInv, ScreenInv, Reading
<1>16. ScreenInv'
  BY <1>13, <1>14, <1>15 DEF ScreenInv
<1> QED
  BY <1>8, <1>9, <1>10, <1>12, <1>16 DEF SyncInv, ServerInv

LEMMA FailKeeps ==
  ASSUME SyncInv, CardsTyped', SerialInv', HistoryExists', NEW r \in Mine, Fail(r)
  PROVE  SyncInv'
<1>1. /\ Waiting(r) /\ call' = [call EXCEPT ![r] = None]
      /\ UNCHANGED <<card, req, bus, view, behind, gap>>
      /\ IF call[r] = Drag THEN fetch' = Asked ELSE UNCHANGED fetch
  BY DEF Fail, vars
<1>2. /\ \A s \in Requests : Alive(s)'
      /\ \A d \in Cards : BusInv(d)'
      /\ \A d \in Cards : \A v : WillShow(d, v) => WillShow(d, v)'
      /\ \A m \in Mine : call'[m] = call[m] => Current(m)'
  BY <1>1, StillKeeps
<1>3. /\ call' = [m \in Mine |-> call'[m]] /\ call'[r] = None
      /\ \A m \in Mine \ {r} : call'[m] = call[m]
  BY <1>1 DEF SyncInv, SyncType
<1>4. Current(r)'
  BY <1>3 DEF Current, Answered
<1>5. SyncType'
  BY <1>1, <1>3 DEF SyncInv, SyncType
<1>6. CASE call[r] = Drag
  <2>1. fetch' = Asked /\ Asked # None
    BY <1>1, <1>6, SyncConstants
  <2>2. ScreenInv'
    BY <2>1 DEF ScreenInv, Reading
  <2> QED
    BY <1>2, <1>3, <1>4, <1>5, <2>2 DEF SyncInv, ServerInv
<1>7. CASE call[r] # Drag
  <2>1. Stray => Stray'
    BY <1>1, <1>3, <1>7 DEF Stray
  <2>2. ScreenInv'
    BY <1>1, <1>2, <1>7, <2>1, ShownStays DEF SyncInv
  <2> QED
    BY <1>2, <1>3, <1>4, <1>5, <2>2 DEF SyncInv, ServerInv
<1> QED
  BY <1>6, <1>7

\* After an event was lost, or came before the list that is on its way.
LEMMA LostIsKnown ==
  ASSUME SyncType, Overtake, behind' = TRUE
  PROVE  ScreenInv'
<1>1. fetch' = None <=> fetch = None
  BY Overtaken
<1>2. Reading' => fetch'.overtaken
  BY Overtaken
<1> QED
  BY <1>2 DEF ScreenInv

LEMMA ReceiveKeeps ==
  ASSUME SyncInv, CardsTyped', SerialInv', HistoryExists', Receive
  PROVE  SyncInv'
<1>1. /\ bus # <<>> /\ view' = Apply(view, Head(bus)) /\ bus' = Tail(bus)
      /\ gap' = (gap /\ Tail(bus) # <<>>) /\ Overtake
      /\ UNCHANGED <<card, req, call, behind>>
  BY DEF Receive, vars
<1>2. bus \in Seq(Events) /\ view \in Views
  BY DEF SyncInv, SyncType
<1>3. bus' \in Seq(Events) /\ Head(bus) = bus[1] /\ bus[1] \in Events
  BY <1>1, <1>2, BusShorter
<1>4. /\ view' \in Views /\ view'[bus[1].card] = Taken(view[bus[1].card], bus[1])
      /\ \A d \in Cards \ {bus[1].card} : view'[d] = view[d]
  BY <1>1, <1>2, <1>3, Applied
<1>5. /\ \A s \in Requests : Alive(s)'
      /\ \A c : Owed(c)' = Owed(c)
      /\ \A m \in Mine : call'[m] = call[m] => Current(m)'
  BY <1>1, StillKeeps
<1>6. /\ fetch' \in {None, Asked} \cup Lists
      /\ fetch' = None <=> fetch = None
      /\ Reading' => fetch'.overtaken
  BY <1>1, Overtaken DEF SyncInv
<1>7. ASSUME NEW c \in Cards PROVE BusInv(c)'
  <2>1. Owed(c)' = Owed(c)
    BY <1>5
  <2> QED
    BY <1>1, <1>2, <2>1, ReceivedKeepsBus DEF SyncInv
<1>8. gap' \in BOOLEAN /\ behind' \in BOOLEAN
  BY <1>1 DEF SyncInv, SyncType
<1>9. SyncType'
  BY <1>1, <1>3, <1>4, <1>6, <1>8 DEF SyncInv, SyncType
<1>10. Stray' <=> Stray
  BY <1>1 DEF Stray
<1>11. ASSUME fetch' = None, ~behind', ~Stray', NEW c \in Cards PROVE WillShow(c, view[c])'
  <2>1. ~gap /\ WillShow(c, view[c])
    BY <1>1, <1>6, <1>10, <1>11 DEF SyncInv, ScreenInv
  <2>2. PICK v : v = view[c]
    OBVIOUS
  <2>3. PICK w : w = view'[c]
    OBVIOUS
  <2>4. w = IF bus[1].card = c THEN Taken(v, bus[1]) ELSE v
    BY <1>4, <2>2, <2>3
  <2>5. WillShow(c, v) /\ Owed(c)' = Owed(c) /\ BusInv(c) /\ ServerInv
    BY <1>5, <2>1, <2>2 DEF SyncInv
  <2>6. WillShow(c, w)'
    BY <1>1, <1>2, <2>1, <2>4, <2>5, ReceivedKeepsShown
  <2> QED
    BY <2>3, <2>6
<1>12. (fetch = None /\ ~behind)' \/ (Reading /\ ~fetch.overtaken)' => ~gap'
  BY <1>1, <1>6 DEF SyncInv, ScreenInv
<1>13. ScreenInv'
  BY <1>6, <1>11, <1>12 DEF ScreenInv
<1> QED
  BY <1>1, <1>5, <1>7, <1>9, <1>13 DEF SyncInv, ServerInv

LEMMA DisconnectKeeps ==
  ASSUME SyncInv, CardsTyped', SerialInv', HistoryExists', Disconnect
  PROVE  SyncInv'
<1>1. /\ bus' = <<>> /\ gap' = FALSE
      /\ IF bus = <<>> THEN UNCHANGED <<fetch, behind>> ELSE behind' = TRUE /\ Overtake
      /\ UNCHANGED <<card, req, view, call>>
  BY DEF Disconnect
<1>2. /\ \A s \in Requests : Alive(s)'
      /\ \A m \in Mine : call'[m] = call[m] => Current(m)'
      /\ bus' = bus => \A c \in Cards : \A v : WillShow(c, v) => WillShow(c, v)'
  BY <1>1, StillKeeps
<1>3. \A c \in Cards : BusInv(c)'
  BY <1>1, EmptyKeepsBus
<1>4. bus' \in Seq(Events)
  BY <1>1, EmptySeq
<1>5. CASE bus = <<>>
  <2>1. bus' = bus /\ UNCHANGED <<view, fetch, behind, call>> /\ ~gap'
    BY <1>1, <1>5
  <2>2. Stray => Stray'
    BY <1>1 DEF Stray
  <2>3. SyncType'
    BY <1>1, <1>4, <2>1 DEF SyncInv, SyncType
  <2>4. ScreenInv'
    BY <1>2, <2>1, <2>2, ShownStays DEF SyncInv
  <2> QED
    BY <1>1, <1>2, <1>3, <2>3, <2>4 DEF SyncInv, ServerInv
<1>6. CASE bus # <<>>
  <2>1. behind' = TRUE /\ Overtake
    BY <1>1, <1>6
  <2>2. ScreenInv' /\ fetch' \in {None, Asked} \cup Lists
    BY <2>1, LostIsKnown, Overtaken DEF SyncInv
  <2>3. SyncType'
    BY <1>1, <1>4, <2>1, <2>2 DEF SyncInv, SyncType
  <2> QED
    BY <1>1, <1>2, <1>3, <2>2, <2>3 DEF SyncInv, ServerInv
<1> QED
  BY <1>5, <1>6

LEMMA ConnectKeeps ==
  ASSUME SyncInv, CardsTyped', SerialInv', HistoryExists', Reconnect \/ Reopen \/ LoadFails
  PROVE  SyncInv'
<1>1. UNCHANGED <<card, req, bus, view, call, gap>>
  BY DEF Reconnect, Reopen, LoadFails, vars
<1>2. /\ \A s \in Requests : Alive(s)'
      /\ \A c \in Cards : BusInv(c)'
      /\ \A c \in Cards : \A v : WillShow(c, v) => WillShow(c, v)'
      /\ \A m \in Mine : Current(m)'
  BY <1>1, StillKeeps
<1>3. CASE Reconnect
  <2>1. UNCHANGED <<fetch, behind>> /\ (Stray => Stray')
    BY <1>1, <1>3 DEF Reconnect, Stray
  <2>2. SyncType'
    BY <1>1, <2>1 DEF SyncInv, SyncType
  <2>3. ScreenInv'
    BY <1>1, <1>2, <2>1, ShownStays DEF SyncInv
  <2> QED
    BY <1>2, <2>2, <2>3 DEF SyncInv, ServerInv
<1>4. CASE Reopen
  <2>1. fetch' = Asked /\ Asked # None /\ UNCHANGED behind
    BY <1>4, SyncConstants DEF Reopen
  <2>2. ScreenInv'
    BY <2>1 DEF ScreenInv, Reading
  <2>3. SyncType'
    BY <1>1, <2>1 DEF SyncInv, SyncType
  <2> QED
    BY <1>2, <2>2, <2>3 DEF SyncInv, ServerInv
<1>5. CASE LoadFails
  <2>1. fetch' = None /\ behind' = TRUE
    BY <1>5 DEF LoadFails
  <2>2. ScreenInv'
    BY <2>1 DEF ScreenInv, Reading
  <2>3. SyncType'
    BY <1>1, <2>1 DEF SyncInv, SyncType
  <2> QED
    BY <1>2, <2>2, <2>3 DEF SyncInv, ServerInv
<1> QED
  BY <1>3, <1>4, <1>5

LEMMA LoadKeeps ==
  ASSUME SyncInv, CardsTyped', SerialInv', HistoryExists', Load
  PROVE  SyncInv'
<1>1. UNCHANGED <<card, req, bus, call, gap>>
  BY DEF Load, vars
<1>2. /\ \A s \in Requests : Alive(s)'
      /\ \A c \in Cards : BusInv(c)'
      /\ \A c \in Cards : \A v : WillShow(c, v) => WillShow(c, v)'
      /\ \A m \in Mine : Current(m)'
  BY <1>1, StillKeeps
<1>3. CASE fetch' = [items |-> Listed, overtaken |-> gap] /\ UNCHANGED <<view, behind>>
  <2>1. Listed \in Views /\ gap \in BOOLEAN
    <3>1. \A c \in Cards : Listed[c] \in Contents \cup {Unborn}
      BY ListedFacts DEF SyncInv
    <3> QED
      BY <3>1 DEF Listed, Views, SyncInv, SyncType
  <2>2. fetch' \in Lists
    BY <1>3, <2>1 DEF Lists
  <2>3. fetch' # None
    BY <2>2, SyncConstants
  <2>4. ASSUME ~fetch'.overtaken, NEW c \in Cards PROVE WillShow(c, fetch.items[c])'
    <3>1. ~gap
      BY <1>3, <2>4
    <3>2. WillShow(c, Listed[c])
      BY <3>1, ListWillShow DEF SyncInv, SyncType
    <3>3. PICK v : v = Listed[c]
      OBVIOUS
    <3>4. WillShow(c, v)'
      BY <1>2, <3>2, <3>3
    <3>5. v = fetch'.items[c]
      BY <1>3, <3>3
    <3> QED
      BY <3>4, <3>5
  <2>5. ScreenInv'
    BY <1>1, <1>3, <2>3, <2>4 DEF ScreenInv
  <2>6. SyncType'
    BY <1>1, <1>3, <2>2 DEF SyncInv, SyncType
  <2> QED
    BY <1>2, <2>5, <2>6 DEF SyncInv, ServerInv
<1>4. CASE Reading /\ view' = fetch.items /\ behind' = fetch.overtaken /\ fetch' = None
  <2>1. fetch \in Lists
    BY <1>4 DEF SyncInv, SyncType, Reading
  <2>2. view' \in Views /\ behind' \in BOOLEAN
    BY <1>4, <2>1 DEF Lists
  <2>3. ASSUME ~behind' PROVE ~gap'
    BY <1>1, <1>4, <2>3 DEF SyncInv, ScreenInv
  <2>4. ASSUME ~behind', NEW c \in Cards PROVE WillShow(c, view[c])'
    <3>1. WillShow(c, fetch.items[c])
      BY <1>4, <2>4 DEF SyncInv, ScreenInv
    <3>2. PICK v : v = fetch.items[c]
      OBVIOUS
    <3>3. WillShow(c, v)'
      BY <1>2, <3>1, <3>2
    <3>4. v = view'[c]
      BY <1>4, <3>2
    <3> QED
      BY <3>3, <3>4
  <2>5. ~Reading'
    BY <1>4 DEF Reading
  <2>6. ScreenInv'
    BY <2>3, <2>4, <2>5 DEF ScreenInv
  <2>7. SyncType'
    BY <1>1, <1>4, <2>2 DEF SyncInv, SyncType
  <2> QED
    BY <1>2, <2>6, <2>7 DEF SyncInv, ServerInv
<1> QED
  BY <1>3, <1>4 DEF Load

LEMMA CrashKeeps ==
  ASSUME SyncInv, CardsTyped', SerialInv', HistoryExists', CrashServer
  PROVE  SyncInv'
<1>1. /\ Crash /\ UNCHANGED <<card, bus, view, call>>
      /\ req' = [r \in Requests |-> Idle]
      /\ IF InProgress(CardOps) = {} THEN UNCHANGED <<fetch, behind, gap>> ELSE Lose
  BY DEF CrashServer, Crash
<1>2. /\ \A s \in Requests : Alive(s)'
      /\ \A d \in Cards : Owed(d)' = {}
      /\ InProgress(CardOps) = {} => \A d \in Cards : Owed(d) = {}
  BY <1>1, CrashServed
<1>3. \A m \in Mine : Current(m)'
  BY <1>1, <1>2, CurrentStays
<1>4. Stray => Stray'
  BY <1>1, SyncConstants DEF Stray
<1>5. CASE InProgress(CardOps) = {}
  <2>1. UNCHANGED <<fetch, behind, gap>>
    BY <1>1, <1>5
  <2>2. ASSUME NEW c \in Cards
        PROVE  BusInv(c)' /\ \A v : WillShow(c, v) => WillShow(c, v)'
    <3>1. Owed(c)' = Owed(c)
      BY <1>2, <1>5
    <3> QED
      BY <1>1, <2>1, <3>1, StillShown
  <2>3. SyncType'
    BY <1>1, <2>1 DEF SyncInv, SyncType
  <2>4. ScreenInv'
    BY <1>1, <1>4, <2>1, <2>2, ShownStays DEF SyncInv
  <2> QED
    BY <1>2, <1>3, <2>2, <2>3, <2>4 DEF SyncInv, ServerInv
<1>6. CASE InProgress(CardOps) # {}
  <2>1. behind' = TRUE /\ gap' = (bus # <<>>) /\ Overtake
    BY <1>1, <1>6 DEF Lose
  <2>2. ScreenInv' /\ fetch' \in {None, Asked} \cup Lists
    BY <2>1, LostIsKnown, Overtaken DEF SyncInv
  <2>3. SyncType'
    BY <1>1, <2>1, <2>2 DEF SyncInv, SyncType
  <2>4. ASSUME NEW c \in Cards PROVE BusInv(c)'
    <3>1. Owed(c)' \subseteq Owed(c)
      BY <1>2
    <3> QED
      BY <1>1, <2>1, <3>1, LostKeepsBus DEF SyncInv, SyncType
  <2> QED
    BY <1>2, <1>3, <2>2, <2>3, <2>4 DEF SyncInv, ServerInv
<1> QED
  BY <1>5, <1>6

\* What request r, about to publish or enqueue, tells the screen.
Told(r) == [event |-> req[r].event, card |-> req[r].card, item |-> req[r].item]

LEMMA ToldFacts ==
  ASSUME ServerInv, NEW r \in Requests, req[r].op \in CardOps, req[r].step \in {"publish", "enqueue"}
  PROVE  /\ Told(r) \in Events
         /\ Told(r).card = req[r].card /\ Told(r).event = req[r].event
         /\ card[Told(r).card] # Unborn
         /\ Brings(Told(r)) = Listed[Told(r).card]
         /\ Told(r).event = "created" => req[r].op = "create"
         /\ Told(r).event \in {"updated", "moved"} => req[r].op = "update"
         /\ Told(r).event = "deleted" => card[Told(r).card] = Deleted
<1>1. req[r] \in Emitting
  BY DEF ServerInv, CardsTyped, Inserting, Updating, Removing
<1>2. Told(r) \in Events /\ Told(r).card = req[r].card /\ Told(r).event = req[r].event
      /\ Told(r).item = req[r].item
  BY <1>1 DEF Emitting, EventKinds, Events, Told
<1>3. PICK c \in Cards : c = req[r].card
  BY <1>1 DEF Emitting
<1>4. Alive(r)
  BY DEF ServerInv
<1>5. CASE req[r].op \in {"create", "update"}
  <2>1. /\ Exists(c) /\ card[c] = req[r].item
        /\ req[r].event \in IF req[r].op = "create" THEN {"created"} ELSE {"updated", "moved"}
    BY <1>3, <1>4, <1>5 DEF Alive
  <2>2. Listed[c] = req[r].item /\ card[c] # Unborn
    BY <1>3, <2>1 DEF Listed, Exists
  <2>3. req[r].event # "deleted"
    BY <2>1
  <2> QED
    BY <1>2, <1>3, <1>5, <2>1, <2>2, <2>3 DEF Brings
<1>6. CASE req[r].op = "delete"
  <2>1. card[c] = Deleted /\ req[r].event = "deleted"
    BY <1>3, <1>4, <1>6 DEF Alive
  <2>2. Listed[c] = Unborn /\ card[c] # Unborn
    BY <1>3, <2>1, ContentConstants DEF Listed, Exists
  <2> QED
    BY <1>2, <1>3, <2>1, <2>2 DEF Brings
<1> QED
  BY <1>5, <1>6 DEF CardOps

\* What was owed on some cards is paid, and the response follows.
LEMMA AnsweredKeeps ==
  ASSUME SyncInv, NEW r \in Requests, req[r].op \in CardOps, req[r].step \in {"publish", "enqueue"},
         UNCHANGED card, \A d \in Cards : Owed(d) = {} => Owed(d)' = {},
         NEW c \in Cards, c = req[r].card, Owed(c)' = {},
         \A m \in Requests \ {r} : req'[m] = req[m],
         call' = IF r \in Mine /\ req'[r] = Idle
                 THEN [call EXCEPT ![r] = IF @ = Drag THEN None ELSE Told(r)] ELSE call
  PROVE  /\ \A m \in Mine : Current(m)'
         /\ Stray => Stray'
         /\ call' = [m \in Mine |-> call'[m]]
<1>1. /\ call' = [m \in Mine |-> call'[m]]
      /\ \A m \in Mine \ {r} : call'[m] = call[m]
      /\ r \in Mine => call'[r] \in {call[r], None, Told(r)}
  BY DEF SyncInv, SyncType
<1>2. ASSUME NEW m \in Mine, call'[m] = call[m] PROVE Current(m)'
  BY <1>2, CurrentStays
<1>3. ASSUME r \in Mine, call'[r] = Told(r) PROVE Current(r)'
  <2>1. /\ Told(r) \in Events /\ Told(r).card = req[r].card
        /\ card[Told(r).card] # Unborn /\ Brings(Told(r)) = Listed[Told(r).card]
    BY ToldFacts DEF SyncInv
  <2>2. c = Told(r).card
    BY <2>1
  <2>3. Listed' = Listed
    BY DEF Listed, Exists
  <2>5. /\ call'[r] \in Events /\ call'[r].card = c /\ card'[c] # Unborn
        /\ Brings(call'[r]) = Listed'[c]
    BY <1>3, <2>1, <2>2, <2>3
  <2> SUFFICES /\ call'[r] \in Events /\ Owed(call[r].card)' = {} /\ card'[call'[r].card] # Unborn
                  /\ Brings(call'[r]) = Listed'[call'[r].card]
    BY DEF Current, Brings
  <2> QED
    BY <2>5
<1>4. ASSUME r \in Mine, call'[r] = None PROVE Current(r)'
  BY <1>4 DEF Current, Answered
<1>5. Stray => Stray'
  <2> SUFFICES ASSUME NEW m \in Mine, call[m] = Drag, req[m] = Idle PROVE Stray'
    BY DEF Stray
  <2>1. m # r
    BY DEF Idle, CardOps
  <2>2. call'[m] = Drag /\ req'[m] = Idle
    BY <1>1, <2>1, SyncConstants
  <2> QED
    BY <2>2 DEF Stray
<1> QED
  BY <1>1, <1>2, <1>3, <1>4, <1>5

LEMMA AnnounceKeeps ==
  ASSUME SyncInv, CardsTyped', SerialInv', HistoryExists',
         NEW r \in Requests, NEW ok \in BOOLEAN, Announce(r, ok)
  PROVE  SyncInv'
<1>1. UNCHANGED <<card, view>> /\ req[r].op \in CardOps
  BY DEF Announce, Publish, EnqueueMention
<1>2. call' = IF r \in Mine /\ req'[r] = Idle
              THEN [call EXCEPT ![r] = IF @ = Drag THEN None ELSE Told(r)] ELSE call
  BY DEF Announce, Told
<1>3. \A m \in Requests \ {r} : req'[m] = req[m]
  <2>1. ASSUME NEW x, req' = [req EXCEPT ![r] = x] PROVE \A m \in Requests \ {r} : req'[m] = req[m]
    BY <2>1 DEF SyncInv, ServerInv, CardsTyped
  <2> QED
    BY <2>1 DEF Announce, Publish, EnqueueMention, Continue, End
<1>4. CASE EnqueueMention(r)
  <2>1. req[r].step = "enqueue"
    BY <1>4 DEF EnqueueMention
  <2>2. UNCHANGED <<bus, fetch, behind, gap>>
    BY <2>1 DEF Announce
  <2>3. /\ \A s \in Requests : Alive(s)'
        /\ \A d \in Cards : Owed(d)' = Owed(d)
        /\ req[r].card \in Cards /\ Owed(req[r].card) = {}
    BY <1>4, EnqueueServed DEF SyncInv
  <2>4. PICK c \in Cards : c = req[r].card
    BY <2>3
  <2>5. Owed(c)' = {}
    BY <2>3, <2>4
  <2>6. /\ \A m \in Mine : Current(m)'
        /\ Stray => Stray'
        /\ call' = [m \in Mine |-> call'[m]]
    BY <1>1, <1>2, <1>3, <2>1, <2>3, <2>4, <2>5, AnsweredKeeps
  <2>7. ASSUME NEW d \in Cards PROVE BusInv(d)' /\ \A v : WillShow(d, v) => WillShow(d, v)'
    <3>1. Owed(d)' = Owed(d)
      BY <2>3
    <3> QED
      BY <1>1, <2>2, <3>1, StillShown
  <2>8. SyncType'
    BY <1>1, <2>2, <2>6 DEF SyncInv, SyncType
  <2>9. ScreenInv'
    BY <1>1, <2>2, <2>6, <2>7, ShownStays DEF SyncInv
  <2> QED
    BY <2>3, <2>6, <2>7, <2>8, <2>9 DEF SyncInv, ServerInv
<1>5. CASE Publish(r, ok)
  <2>1. req[r].step = "publish"
    BY <1>5 DEF Publish
  <2>2. /\ \A s \in Requests : Alive(s)'
        /\ \E c \in Cards, op \in CardOps :
              /\ c = req[r].card /\ op = req[r].op /\ Owed(c) = {op} /\ Owed(c)' = {}
              /\ \A d \in Cards \ {c} : Owed(d)' = Owed(d)
    BY <1>5, PublishServed DEF SyncInv
  <2>3. PICK c \in Cards, op \in CardOps :
              /\ c = req[r].card /\ op = req[r].op /\ Owed(c) = {op} /\ Owed(c)' = {}
              /\ \A d \in Cards \ {c} : Owed(d)' = Owed(d)
    BY <2>2
  <2>4. ASSUME NEW d \in Cards PROVE Owed(d)' \subseteq Owed(d) /\ (Owed(d) = {} => Owed(d)' = {})
    BY <2>3
  <2>5. /\ \A m \in Mine : Current(m)'
        /\ Stray => Stray'
        /\ call' = [m \in Mine |-> call'[m]]
    BY <1>1, <1>2, <1>3, <2>1, <2>3, <2>4, AnsweredKeeps
  <2>6. CASE ok /\ socket = "up"
    <3>1. PICK e \in Events : e = Told(r)
      BY <1>1, <2>1, ToldFacts DEF SyncInv
    <3>2. bus' = Append(bus, e) /\ UNCHANGED <<fetch, behind, gap>>
      BY <2>1, <2>6, <3>1 DEF Announce, Told
    <3>3. /\ e.card = c /\ Brings(e) = Listed[c]
          /\ e.event = "created" => op = "create"
          /\ e.event \in {"updated", "moved"} => op = "update"
          /\ e.event = "deleted" => card[c] = Deleted
      BY <1>1, <2>1, <2>3, <3>1, ToldFacts DEF SyncInv
    <3>4. bus \in Seq(Events) /\ bus' \in Seq(Events)
      BY <3>2, BusLonger DEF SyncInv, SyncType
    <3>5. ServerInv /\ ServerInv' /\ BusInv(c)
      BY <2>2 DEF SyncInv, ServerInv
    <3>6. BusInv(c)'
      BY <1>1, <2>3, <3>2, <3>3, <3>4, <3>5, SentKeepsBus
    <3>7. \A v : WillShow(c, v) => WillShow(c, v)'
      BY <1>1, <2>3, <3>2, <3>3, <3>4, SentKeepsShown
    <3>8. ASSUME NEW d \in Cards \ {c} PROVE BusInv(d)' /\ \A v : WillShow(d, v) => WillShow(d, v)'
      <4>1. BusInv(d) /\ Owed(d)' = Owed(d)
        BY <2>3 DEF SyncInv
      <4> QED
        BY <1>1, <3>2, <3>3, <3>4, <4>1, SentKeepsOthers
    <3>9. SyncType'
      BY <1>1, <2>5, <3>2, <3>4 DEF SyncInv, SyncType
    <3>10. ScreenInv'
      BY <1>1, <2>5, <3>2, <3>7, <3>8, ShownStays DEF SyncInv
    <3> QED
      BY <2>5, <3>5, <3>6, <3>8, <3>9, <3>10 DEF SyncInv
  <2>7. CASE ~(ok /\ socket = "up")
    <3>1. Lose /\ UNCHANGED bus
      BY <2>1, <2>7 DEF Announce
    <3>2. behind' = TRUE /\ gap' = (bus # <<>>) /\ Overtake
      BY <3>1 DEF Lose
    <3>3. ScreenInv' /\ fetch' \in {None, Asked} \cup Lists
      BY <3>2, LostIsKnown, Overtaken DEF SyncInv
    <3>4. SyncType'
      BY <1>1, <2>5, <3>1, <3>2, <3>3 DEF SyncInv, SyncType
    <3>5. ASSUME NEW d \in Cards PROVE BusInv(d)'
      <4>1. Owed(d)' \subseteq Owed(d)
        BY <2>4
      <4> QED
        BY <1>1, <3>1, <3>2, <4>1, LostKeepsBus DEF SyncInv, SyncType
    <3> QED
      BY <2>2, <2>5, <3>3, <3>4, <3>5 DEF SyncInv, ServerInv
  <2> QED
    BY <2>6, <2>7
<1> QED
  BY <1>4, <1>5 DEF Announce

-----------------------------------------------------------------------------
LEMMA InitSync == SyncInit => SyncInv
<1> SUFFICES ASSUME SyncInit PROVE SyncInv
  OBVIOUS
<1>1. CardsTyped /\ SerialInv /\ HistoryExists
  BY InitCards, InitSerial DEF SyncInit, Init, HistoryExists
<1>2. \A r \in Requests : Alive(r)
  BY DEF SyncInit, Init, Idle, Alive, CardOps
<1>3. SyncType
  BY EmptySeq DEF SyncInit, SyncType, Views
<1>4. \A c : OnBus(c) = {}
  BY EmptySeq DEF SyncInit, OnBus
<1>5. \A c \in Cards : BusInv(c)
  BY <1>4 DEF BusInv
<1>6. \A r \in Mine : Current(r)
  BY DEF SyncInit, Current, Answered
<1>7. ScreenInv
  BY SyncConstants DEF SyncInit, ScreenInv, Reading
<1> QED
  BY <1>1, <1>2, <1>3, <1>5, <1>6, <1>7 DEF SyncInv, ServerInv

LEMMA StepSync == CardWritesSerial /\ SyncInv /\ [SyncNext]_allVars => SyncInv'
<1> SUFFICES ASSUME CardWritesSerial, SyncInv, [SyncNext]_allVars PROVE SyncInv'
  OBVIOUS
<1>1. CASE SyncNext
  <2>1. CardsTyped' /\ SerialInv' /\ HistoryExists'
    BY <1>1, ServerSteps DEF SyncInv, ServerInv
  <2> QED
    BY <1>1, <2>1, ServeKeeps, AnnounceKeeps, DragKeeps, EditKeeps, AddKeeps, RespondKeeps, FailKeeps,
       ReceiveKeeps, DisconnectKeeps, ConnectKeeps, LoadKeeps, CrashKeeps DEF SyncNext
<1>2. CASE UNCHANGED allVars
  <2>1. UNCHANGED <<card, req, strays, mentioned, bus, view, fetch, call, behind, gap>>
    BY <1>2 DEF allVars, vars, history, screen
  <2>2. CardsTyped' /\ SerialInv' /\ HistoryExists'
    BY <2>1, ServerStays DEF SyncInv, ServerInv, HistoryExists, Exists
  <2>3. /\ \A s \in Requests : Alive(s)'
        /\ \A c \in Cards : BusInv(c)'
        /\ \A c \in Cards : \A v : WillShow(c, v) => WillShow(c, v)'
        /\ \A m \in Mine : Current(m)'
    BY <2>1, StillKeeps
  <2>4. SyncType'
    BY <2>1 DEF SyncInv, SyncType
  <2>5. Stray => Stray'
    BY <2>1 DEF Stray
  <2>6. ScreenInv'
    BY <2>1, <2>3, <2>5, ShownStays DEF SyncInv
  <2> QED
    BY <2>2, <2>3, <2>4, <2>6 DEF SyncInv, ServerInv
<1> QED
  BY <1>1, <1>2

LEMMA SyncInvShows == SyncInv => InStep
<1> SUFFICES ASSUME SyncInv, NEW c \in Cards, Quiet(c) PROVE view[c] = Listed[c]
  BY DEF InStep
<1>1. Owed(c) = {} /\ OnBus(c) = {}
  BY NoneTouches DEF Quiet, OnBus
<1>2. ~Stray
  BY SyncConstants DEF Quiet, Stray
<1>3. WillShow(c, view[c])
  BY <1>2 DEF Quiet, SyncInv, ScreenInv
<1> QED
  BY <1>1, <1>3 DEF WillShow

(* main.py:7 "That one-writer rule is what keeps real-time sync consistent".   *)
(* With one request on a card at a time, a board screen (board/[id].tsx) whose *)
(* socket (useBoardSocket.ts) missed no event since the list it shows was read *)
(* shows every card as the database has it, once nothing about the card is     *)
(* under way: whatever the order in which the list, the events, and the        *)
(* responses to its own drags and edits came.                                  *)
THEOREM ScreenStaysInStep == CardWritesSerial => (SyncSpec => []InStep)
<1> SUFFICES ASSUME CardWritesSerial PROVE SyncSpec => []InStep
  OBVIOUS
<1>1. SyncInv /\ [SyncNext]_allVars => SyncInv'
  BY StepSync
<1> QED
  BY <1>1, InitSync, SyncInvShows, PTL DEF SyncSpec

-----------------------------------------------------------------------------
(* The screen is a client like the others: it leaves the server's promises as *)
(* they are without it, for any overlap of requests.                          *)

LEMMA AttachedStep ==
  HistoryExists /\ [SyncNext]_allVars => [Next]_vars \/ UNCHANGED <<board, card, req, history>>
BY ServerStep DEF allVars, vars

LEMMA AttachedCards ==
  ASSUME CardsTyped, HistoryExists, [SyncNext]_allVars
  PROVE  CardsTyped' /\ HistoryExists'
<1>1. CASE UNCHANGED <<board, card, req, history>>
  BY <1>1 DEF CardsTyped, HistoryExists, Exists, history
<1>2. CASE [Next]_vars
  BY <1>2, StepCards, HistoryStays
<1> QED
  BY <1>1, <1>2, AttachedStep

LEMMA AttachedCardsHold == SyncSpec => [](CardsTyped /\ HistoryExists)
<1>1. SyncInit => CardsTyped /\ HistoryExists
  BY InitCards DEF SyncInit, Init, HistoryExists
<1>2. CardsTyped /\ HistoryExists /\ [SyncNext]_allVars => CardsTyped' /\ HistoryExists'
  BY AttachedCards
<1> QED
  BY <1>1, <1>2, PTL DEF SyncSpec

LEMMA StillLanes ==
  ASSUME LaneInv, UNCHANGED <<board, card, req, history>>
  PROVE  LaneInv'
BY DEF board, LaneInv, LanesTyped, LanesWellFormed, EditsTyped, InProgress, ReadIsCurrent

LEMMA StillPlaces ==
  ASSUME PlaceInv, UNCHANGED <<board, card, req, history>>
  PROVE  PlaceInv'
BY DEF board, history, PlaceInv, OpenLanes, Doomed, Exists, At, InProgress

(* main.py and repository.py with a screen attached, for any overlap: a deleted *)
(* card stays deleted, and a card changes only by the patches of the updates.  *)
THEOREM AttachedCardsAreKept == SyncSpec => DeletedStaysDeleted /\ FieldsChangeByPatch
<1>1. CardsTyped /\ HistoryExists /\ [SyncNext]_allVars
        => /\ [\A c \in Cards : card[c] = Deleted => card'[c] = Deleted]_vars
           /\ [\A c \in Cards : Exists(c) /\ card'[c] \notin {Unborn, Deleted} /\ card'[c] # card[c] =>
                 \E r \in Touches(c) :
                   At(r, "update", "set") /\ card'[c] = Patched(card[c], req[r].patch)]_vars
  <2> SUFFICES ASSUME CardsTyped, HistoryExists, [SyncNext]_allVars, NEW c \in Cards, card'[c] # card[c]
               PROVE  /\ card[c] # Deleted
                      /\ Exists(c) /\ card'[c] \notin {Unborn, Deleted} =>
                           \E r \in Touches(c) :
                             At(r, "update", "set") /\ card'[c] = Patched(card[c], req[r].patch)
    OBVIOUS
  <2>1. [Next]_vars /\ card' # card
    BY AttachedStep
  <2>2. PICK r \in Requests : WriteCards(r)
    BY <2>1, OnlyWritesChange
  <2>3. card[c] # Deleted
    BY <2>2, CardWrite, ContentConstants DEF Exists
  <2> QED
    BY <2>2, <2>3, CardWrite, ContentConstants DEF Exists
<1> QED
  BY <1>1, AttachedCardsHold, PTL DEF SyncSpec, DeletedStaysDeleted, FieldsChangeByPatch

(* main.py _emit with the screen's own drags, edits and creations among the      *)
(* requests: the mention of a card's assignee is enqueued, or still will be, or *)
(* was lost to a failure or to being told as another request's move.          *)
THEOREM ScreenKeepsMentions == SyncSpec => []AssignedIsMentioned
<1>1. CardsTyped /\ CardsTyped' /\ HistoryExists /\ AssignedIsMentioned /\ [SyncNext]_allVars
        => AssignedIsMentioned'
  <2> SUFFICES ASSUME CardsTyped, CardsTyped', HistoryExists, AssignedIsMentioned, [SyncNext]_allVars
               PROVE  AssignedIsMentioned'
    OBVIOUS
  <2>1. CASE [Next]_vars
    BY <2>1, StepTracked DEF AssignedIsMentioned, Tracked
  <2>2. CASE UNCHANGED <<board, card, req, history>>
    BY <2>2 DEF AssignedIsMentioned, history, Exists, Touches, InProgress, Owes, At
  <2> QED
    BY <2>1, <2>2, AttachedStep
<1>2. SyncInit => AssignedIsMentioned
  BY InitTracked DEF SyncInit
<1> QED
  BY <1>1, <1>2, AttachedCardsHold, PTL DEF SyncSpec

(* repository.py:147, 170 and 171 with a screen attached: while lane edits come  *)
(* one at a time, the lanes stay well formed, and a card loses its lane only if *)
(* it was put there after delete_column had counted the lane's cards.          *)
THEOREM AttachedLanesAreKept ==
  ASSUME LaneEditsSerial
  PROVE  /\ SyncSpec => []LanesWellFormed
         /\ SyncSpec => []OnlyStraysAreOrphaned
<1>1. SyncSpec => []LaneInv
  <2>1. CardsTyped /\ HistoryExists /\ LaneInv /\ [SyncNext]_allVars => LaneInv'
    BY AttachedStep, StepLanes, StillLanes
  <2>2. SyncInit => LaneInv
    BY InitLanes DEF SyncInit
  <2> QED
    BY <2>1, <2>2, AttachedCardsHold, PTL DEF SyncSpec
<1>2. CardsTyped /\ HistoryExists /\ LaneInv /\ PlaceInv /\ [SyncNext]_allVars => PlaceInv'
  BY AttachedStep, StepPlaces, StillPlaces
<1>3. SyncInit => PlaceInv
  BY InitPlaces DEF SyncInit
<1>4. LaneInv => LanesWellFormed
  BY DEF LaneInv
<1> QED
  BY <1>1, <1>2, <1>3, <1>4, PlacesShow, AttachedCardsHold, PTL DEF SyncSpec
=============================================================================
