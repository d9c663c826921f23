------------------------------ MODULE KanbanDrag ------------------------------
(***************************************************************************)
(* Dragging cards and lanes on the board screen (DraggableBoard.tsx and the  *)
(* lane handlers of board/[id].tsx): the frames recorded as lanes are laid   *)
(* out, the hit test of a drop against them, the optimistic change, and the  *)
(* request that follows.  One card stands for all; another user edits lanes  *)
(* at the server, which announces lane edits to nobody.                      *)
(***************************************************************************)
EXTENDS LaneLayout, FiniteSets

CONSTANTS
    Lanes,    \* lane ids; the server never reuses one
    FirstLanes, \* bound: the rows of lanes a board may start with
    Screens,  \* window widths
    Origins,  \* where the row of lanes may start: the rail pushes it
    Offsets,  \* how far it may be scrolled
    NoLane,   \* no lane there
    Pending,  \* the server has not handled the request
    Refused,  \* ... refused it
    MaxActs   \* bound: requests made on the board, by anyone

\* Lists that name a lane once.
Orders == {order \in Seq(Lanes) : IsInjective(order)}

ASSUME KanbanConstants ==
    /\ NoLane \notin Lanes /\ MaxActs \in Nat
    /\ \A order \in FirstLanes : order \in Seq(Lanes) /\ IsInjective(order)
    /\ Screens \subseteq Nat /\ Offsets \subseteq Int /\ 0 \in Offsets
    /\ Origins \subseteq Nat /\ Origins # {}

VARIABLES
    screenW,  \* window width
    lanes,    \* board.columns of this client, sorted by their order
    cardAt,   \* column_id of the card in this client's items
    srvLanes, \* the board at the server
    srvCard,  \* the card at the server
    frames,   \* laneFrames, in the order the lanes were first laid out
    view,     \* where the row is and how far it is scrolled
    known,    \* scrollOriginX and scrollOffsetX
    sent,     \* this client's requests
    acts      \* requests so far

kanban == <<screenW, lanes, cardAt, srvLanes, srvCard, frames, view, known, sent, acts>>

At(origin, offset) == [origin |-> origin, offset |-> offset]
Frame(k) ==
    LET f == DrawnFrame(screenW, Len(lanes), k) IN [lane |-> lanes[k], x |-> f.x, w |-> f.w]

KanbanInit ==
    /\ screenW \in Screens
    /\ srvLanes \in FirstLanes
    /\ srvCard = srvLanes[1]
    /\ lanes = srvLanes /\ cardAt = srvCard
    /\ frames = [k \in 1..Len(lanes) |-> Frame(k)]
    /\ view = At(CHOOSE o \in Origins : \A p \in Origins : o <= p, 0) /\ known = view
    /\ sent = {} /\ acts = 0

-----------------------------------------------------------------------------
(* Layout and scrolling *)

Drawn == {lanes[k] : k \in 1..Len(lanes)}

\* The onLayout event of the k-th lane of a render, some time after it: the lane's
\* frame is overwritten or added.  A lane that left the board leaves its frame behind.
Recorded(k) ==
    IF \E i \in 1..Len(frames) : frames[i].lane = lanes[k]
    THEN [i \in 1..Len(frames) |-> IF frames[i].lane = lanes[k] THEN Frame(k) ELSE frames[i]]
    ELSE Append(frames, Frame(k))

LaidOut(k) ==
    /\ frames # Recorded(k) /\ frames' = Recorded(k)
    /\ UNCHANGED <<screenW, lanes, cardAt, srvLanes, srvCard, view, known, sent, acts>>

Scroll ==  \* wider screens fit their lanes in
    /\ IsPhone(screenW)
    /\ \E offset \in Offsets \ {view.offset} : view' = [view EXCEPT !.offset = offset]
    /\ UNCHANGED <<screenW, lanes, cardAt, srvLanes, srvCard, frames, known, sent, acts>>

RailMoves ==  \* on a phone the rail floats
    /\ ~IsPhone(screenW)
    /\ \E origin \in Origins \ {view.origin} : view' = [view EXCEPT !.origin = origin]
    /\ UNCHANGED <<screenW, lanes, cardAt, srvLanes, srvCard, frames, known, sent, acts>>

\* onScroll (throttled) and measureInWindow (asynchronous) catch up.
Measured ==
    /\ known # view /\ known' = view
    /\ UNCHANGED <<screenW, lanes, cardAt, srvLanes, srvCard, frames, view, sent, acts>>

-----------------------------------------------------------------------------
(* The hit test *)

Pointed(pageX, exclude) ==
    LET contentX == pageX - known.origin + known.offset IN
    {i \in 1..Len(frames) : /\ frames[i].lane # exclude
                            /\ contentX >= frames[i].x /\ contentX <= frames[i].x + frames[i].w}

ResolveUnscrolled(pageX, exclude) ==  \* mutant: the scroll offset is forgotten
    LET hit == {i \in 1..Len(frames) :
                  /\ frames[i].lane # exclude
                  /\ pageX - known.origin >= frames[i].x
                  /\ pageX - known.origin <= frames[i].x + frames[i].w} IN
    IF hit = {} THEN NoLane ELSE frames[CHOOSE i \in hit : \A j \in hit : i <= j].lane

\* The first recorded frame under the pointer.
ResolveColumn(pageX, exclude) ==
    LET hit == Pointed(pageX, exclude) IN
    IF hit = {} THEN NoLane ELSE frames[CHOOSE i \in hit : \A j \in hit : i <= j].lane

\* Page coordinates of a point of the k-th lane the user sees.
PointsOf(k) ==
    LET f == Frame(k) IN {x + view.origin - view.offset : x \in {f.x, f.x + f.w \div 2, f.x + f.w}}

-----------------------------------------------------------------------------
(* Requests *)

Request(n, kind, of) == [n |-> n, kind |-> kind, of |-> of, answer |-> Pending]

Send(kind, of) ==
    /\ acts < MaxActs /\ acts' = acts + 1
    /\ sent' = sent \cup {Request(acts + 1, kind, of)}

Shown == cardAt \in Drawn

\* A lifted card is dropped: commitMove, then moveCard shows it there at once.
DropCard(x) ==
    /\ Shown
    /\ LET target == ResolveColumn(x, NoLane) IN
       /\ Send("move", target)
       /\ target \notin {NoLane, cardAt}
       /\ cardAt' = target
    /\ UNCHANGED <<screenW, lanes, srvLanes, srvCard, frames, view, known>>

\* Lanes are listed once, so that filtering one out takes one place away.
Without(order, l) ==
    IF \E i \in 1..Len(order) : order[i] = l
    THEN RemoveAt(order, CHOOSE i \in 1..Len(order) : order[i] = l) ELSE order

Swapped(order, dragged, target) ==  \* mutant: the two lanes change places
    [i \in 1..Len(order) |-> CASE order[i] = dragged -> target
                               [] order[i] = target -> dragged
                               [] OTHER -> order[i]]

\* splice out, splice in: the dragged lane takes the index its target had.
Spliced(order, dragged, target) ==
    InsertAt(Without(order, dragged), CHOOSE i \in 1..Len(order) : order[i] = target, dragged)

\* A dragged lane is dropped on another: nothing on a lane that is not there.
DropLane(k, x) ==
    /\ acts < MaxActs  \* Send's bound, before the hit test: it spares TLC the test
    /\ LET target == ResolveColumn(x, lanes[k]) IN
       /\ \E i \in 1..Len(lanes) : lanes[i] = target
       /\ lanes' = Spliced(lanes, lanes[k], target)
    /\ Send("reorder", lanes')
    /\ UNCHANGED <<screenW, cardAt, srvLanes, srvCard, frames, view, known>>

Unsent(kind) == \A r \in sent : r.kind # kind  \* busy

AddLane ==
    /\ Unsent("add")
    /\ Send("add", NoLane)
    /\ UNCHANGED <<screenW, lanes, cardAt, srvLanes, srvCard, frames, view, known>>

DeleteLane(k) ==
    /\ Unsent("delete")
    /\ Send("delete", lanes[k])
    /\ UNCHANGED <<screenW, lanes, cardAt, srvLanes, srvCard, frames, view, known>>

Reply(r, a) == sent' = (sent \ {r}) \cup {[r EXCEPT !.answer = a]}
Fresh == Lanes \ {srvLanes[i] : i \in 1..Len(srvLanes)}
Has(l) == \E i \in 1..Len(srvLanes) : srvLanes[i] = l

\* workspace-service.  A card's column_id is written unchecked; a list of lanes
\* must name the board's; an occupied lane, or the last, is not deleted.
Handle(r) ==
    /\ r \in sent /\ r.answer = Pending
    /\ CASE r.kind = "move" -> srvCard' = r.of /\ UNCHANGED srvLanes /\ Reply(r, "done")
         [] r.kind = "load" -> UNCHANGED <<srvLanes, srvCard>> /\ Reply(r, [of |-> srvLanes, card |-> srvCard])
         [] r.kind = "reorder" /\ ToSet(r.of) = ToSet(srvLanes) ->
              srvLanes' = r.of /\ UNCHANGED srvCard /\ Reply(r, r.of)
         [] r.kind = "add" /\ Fresh # {} ->
              \E l \in Fresh : /\ srvLanes' = Append(srvLanes, l) /\ UNCHANGED srvCard
                               /\ Reply(r, Append(srvLanes, l))
         [] r.kind = "delete" /\ Has(r.of) /\ Len(srvLanes) > 1 /\ srvCard # r.of ->
              /\ srvLanes' = Without(srvLanes, r.of) /\ UNCHANGED srvCard
              /\ Reply(r, Without(srvLanes, r.of))
         [] OTHER -> UNCHANGED <<srvLanes, srvCard>> /\ Reply(r, Refused)
    /\ UNCHANGED <<screenW, lanes, cardAt, frames, view, known, acts>>

\* What the screen makes of an answer: the board of a lane edit, both lists of a
\* load; a move's own answer is not used.
Landed(r) ==
    /\ r \in sent /\ r.answer \notin {Pending, Refused}
    /\ CASE r.kind = "move" -> UNCHANGED <<lanes, cardAt>>
         [] r.kind = "load" -> lanes' = r.answer.of /\ cardAt' = r.answer.card
         [] r.kind = "reorder" -> lanes' = r.answer /\ UNCHANGED <<cardAt>>
         [] r.kind = "add" -> lanes' = r.answer /\ UNCHANGED cardAt
         [] r.kind = "delete" ->
              /\ lanes' = r.answer
              /\ cardAt' = IF cardAt = r.of THEN NoLane ELSE cardAt
    /\ sent' = sent \ {r}
    /\ UNCHANGED <<screenW, srvLanes, srvCard, frames, view, known, acts>>

\* A refused or lost request: a failed move or reorder loads the board again, a
\* failed sheet says so and stays, a failed load leaves everything as it is.
Failed(r) ==
    /\ r \in sent
    /\ sent' = (sent \ {r}) \cup
               IF r.kind \in {"move", "reorder"}
               THEN {Request(r.n, "load", NoLane)} ELSE {}
    /\ UNCHANGED <<screenW, lanes, cardAt, srvLanes, srvCard, frames, view, known, acts>>

\* Another user adds or deletes a lane.
LaneEditedElsewhere ==
    /\ acts < MaxActs /\ acts' = acts + 1
    /\ \/ \E l \in Fresh : srvLanes' = Append(srvLanes, l)
       \/ \E l \in ToSet(srvLanes) \ {srvCard} : Len(srvLanes) > 1 /\ srvLanes' = Without(srvLanes, l)
    /\ UNCHANGED <<screenW, lanes, cardAt, srvCard, frames, view, known, sent>>

KanbanNext ==
    \/ Scroll \/ RailMoves \/ Measured \/ AddLane \/ LaneEditedElsewhere
    \/ \E k \in 1..Len(lanes) :
         \/ LaidOut(k) \/ DeleteLane(k)
         \/ \E x \in PointsOf(k) : DropCard(x)
         \/ \E i \in 1..Len(lanes) : \E x \in PointsOf(i) : DropLane(k, x)
    \/ \E r \in sent : Handle(r) \/ Landed(r) \/ Failed(r)

KanbanSpec == KanbanInit /\ [][KanbanNext]_kanban

-----------------------------------------------------------------------------
(* Properties *)

\* Every lane on screen has been measured where it is, and the scroll events are in.
Settled == known = view /\ \A k \in 1..Len(lanes) : frames = Recorded(k)

NoGhosts == \A i \in 1..Len(frames) : frames[i].lane \in Drawn

\* A drop inside a lane the user sees lands in that lane, however far the row is
\* scrolled, wherever the rail pushed it and in whatever order lanes were measured.
DropLandsUnderPointer ==
    Settled /\ NoGhosts =>
        \A k \in 1..Len(lanes) : \A x \in PointsOf(k) : ResolveColumn(x, NoLane) = lanes[k]

\* Dropping a lane moves that lane alone: none is lost or repeated in the list
\* sent, and the others keep their order.
ReorderKeepsLanes ==
    [][\A r \in sent' \ sent : r.kind = "reorder" /\ r.n > acts =>
         /\ IsInjective(r.of) /\ ToSet(r.of) = ToSet(lanes)
         /\ \E l \in ToSet(lanes) : Without(r.of, l) = Without(lanes, l)]_kanban
=============================================================================
