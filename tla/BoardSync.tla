------------------------------ MODULE BoardSync ------------------------------
(***************************************************************************)
(* A board screen kept in step with the board: workspace-service             *)
(* (BoardContent), the events it publishes, carried in order by Redis, the   *)
(* hub and one socket, and the screen that applies them                      *)
(* (frontend/app/(app)/board/[id].tsx on useBoardSocket.ts).  The screen     *)
(* loads the cards once, then follows the events; it also creates, edits and *)
(* drags cards by itself, showing a drag before the server has made it.      *)
(*                                                                         *)
(* One screen is enough: screens meet only on the server, where any other    *)
(* request may be another screen's.                                          *)
(***************************************************************************)
EXTENDS BoardContent

CONSTANTS
    Mine,    \* the requests the screen makes
    MaxBus,  \* bound: events on their way to the screen
    None, Asked, Drag, Dialog  \* states of a load and of a call

Events == [event : {"created", "updated", "moved", "deleted"}, card : Cards, item : Contents]
Views == [Cards -> Contents \cup {Unborn}]
Lists == [items : Views, overtaken : BOOLEAN]

ASSUME SyncConstants ==
    /\ Mine \subseteq Requests
    /\ MaxBus \in Nat
    /\ Drag # Dialog /\ None \notin {Asked, Drag, Dialog}
    /\ {None, Drag, Dialog} \cap Events = {} /\ {None, Asked} \cap Lists = {}

VARIABLES
    bus,     \* events published and not yet received, in order
    socket,  \* "up" or "down"
    view,    \* the screen's items, Unborn where it shows no such card
    fetch,   \* load: None, Asked, or the list that was read
    call,    \* per request of the screen: None, who waits for it, or its response
    behind,  \* history: the list shown lacks an event, or is not the server's
    gap      \* history: what is in bus is older than an event that was lost

screen == <<bus, socket, view, fetch, call, behind, gap>>
allVars == <<vars, screen>>

\* The screen has just opened: it asks for the cards and opens a socket.
SyncInit ==
    /\ Init
    /\ bus = <<>> /\ socket = "down"
    /\ view = [c \in Cards |-> Unborn]
    /\ fetch = Asked
    /\ call = [r \in Mine |-> None]
    /\ behind = TRUE /\ gap = FALSE

Waiting(r) == call[r] \in {Drag, Dialog}
Answered(r) == call[r] # None /\ ~Waiting(r)
Reading == fetch \notin {None, Asked}

\* A list that is on its way is older than an event that comes before it.
Overtake == fetch' = IF Reading THEN [fetch EXCEPT !.overtaken = TRUE] ELSE fetch

\* An event is lost, while those in bus still come.
Lose == behind' = TRUE /\ gap' = (bus # <<>>) /\ Overtake

\* With one request on a card at a time, a request ends with its response.
Admitted(r) ==
    CardWritesSerial /\ req[r] = Idle /\ req'[r].op \in {"update", "delete"} =>
        \A m \in Mine : Answered(m) => call[m].card # req'[r].card

\* Steps of the server that the screen does not see.
Serve(r) ==
    /\ WriteCards(r) \/ ReadCards(r) \/ LaneStep(r)
    /\ r \in Mine => req[r] # Idle  \* begun by the screen itself
    /\ Admitted(r)
    /\ UNCHANGED screen

-----------------------------------------------------------------------------
ApplyIgnoringDeletes(items, e) ==  \* mutant: card.deleted is not handled
    [items EXCEPT ![e.card] =
        IF (e.event = "created") = (@ = Unborn) THEN e.item ELSE @]

\* onEvent: created adds, deleted removes, updated and moved replace.
Apply(items, e) ==
    [items EXCEPT ![e.card] =
        IF e.event = "deleted" THEN Unborn
        ELSE IF (e.event = "created") = (@ = Unborn) THEN e.item ELSE @]

\* _emit, as far as the screen: the event reaches the socket that is up, and
\* the response to the screen's own request follows.  moveCard drops it.
Announce(r, ok) ==
    /\ Publish(r, ok) \/ (ok /\ EnqueueMention(r))
    /\ LET e == [event |-> req[r].event, card |-> req[r].card, item |-> req[r].item]
       IN  /\ call' = IF r \in Mine /\ req'[r] = Idle
                      THEN [call EXCEPT ![r] = IF @ = Drag THEN None ELSE e] ELSE call
           /\ CASE req[r].step = "enqueue" -> UNCHANGED <<bus, fetch, behind, gap>>
                [] req[r].step = "publish" /\ ok /\ socket = "up" ->
                     Len(bus) < MaxBus /\ bus' = Append(bus, e)
                     /\ UNCHANGED <<fetch, behind, gap>>
                [] OTHER -> Lose /\ UNCHANGED bus
    /\ UNCHANGED <<socket, view>>

Receive ==
    /\ bus # <<>>
    /\ view' = Apply(view, Head(bus))
    /\ bus' = Tail(bus)
    /\ gap' = (gap /\ Tail(bus) # <<>>)
    /\ Overtake
    /\ UNCHANGED <<vars, socket, call, behind>>

\* onclose, a fault too: what was on its way is lost.
Disconnect ==
    /\ socket = "up" /\ faults < MaxFaults
    /\ socket' = "down" /\ faults' = faults + 1
    /\ bus' = <<>> /\ gap' = FALSE
    /\ IF bus = <<>> THEN UNCHANGED <<fetch, behind>> ELSE behind' = TRUE /\ Overtake
    /\ UNCHANGED <<board, card, req, history, view, call>>

\* connect: nothing is loaded again.
Reconnect ==
    /\ socket = "down"
    /\ socket' = "up"
    /\ UNCHANGED <<vars, bus, view, fetch, call, behind, gap>>

\* The screen is opened again, or "Try again" pressed.
Reopen ==
    /\ fetch = None
    /\ fetch' = Asked
    /\ UNCHANGED <<vars, bus, socket, view, call, behind, gap>>

Listed == [c \in Cards |-> IF Exists(c) THEN card[c] ELSE Unborn]

\* load: the server reads the list, and the response replaces the items.  What
\* comes before a gap may undo what the list has.
Load ==
    \/ /\ fetch = Asked
       /\ fetch' = [items |-> Listed, overtaken |-> gap]
       /\ UNCHANGED <<vars, bus, socket, view, call, behind, gap>>
    \/ /\ Reading
       /\ view' = fetch.items
       /\ behind' = fetch.overtaken
       /\ fetch' = None
       /\ UNCHANGED <<vars, bus, socket, call, gap>>

LoadFails ==
    /\ fetch # None
    /\ fetch' = None
    /\ behind' = TRUE
    /\ UNCHANGED <<vars, bus, socket, view, call, gap>>

-----------------------------------------------------------------------------
\* The screen calls the server about card c it shows, which may be gone (404).
Ask(r, who, c, p) ==
    /\ r \in Mine /\ call[r] = None /\ req[r] = Idle
    /\ "update" \in Ops /\ view[c] # Unborn
    /\ call' = [call EXCEPT ![r] = who]
    /\ IF Exists(c) THEN BeginUpdate(r, c, p) /\ Admitted(r) ELSE UNCHANGED req
    /\ UNCHANGED <<board, card, history, faults, bus, socket, fetch, behind, gap>>

\* moveCard: the card is shown in its new lane at once.
DragCard(r, c, l) ==
    /\ Ask(r, Drag, c, [lane |-> l, assigned |-> Keep])
    /\ view[c].lane # l
    /\ view' = [view EXCEPT ![c].lane = l]

EditCard(r, c, a) ==
    /\ Ask(r, Dialog, c, [lane |-> Keep, assigned |-> a])
    /\ UNCHANGED view

\* The dialog creates a card without assignees.
AddCard(r, l) ==
    /\ r \in Mine /\ call[r] = None /\ req[r] = Idle
    /\ BeginCreate(r, [lane |-> l, assigned |-> FALSE])
    /\ call' = [call EXCEPT ![r] = Dialog]
    /\ UNCHANGED <<board, card, history, faults, bus, socket, view, fetch, behind, gap>>

\* onCreated and onUpdated.
Respond(r) ==
    /\ Answered(r)
    /\ view' = Apply(view, IF call[r].event = "moved" THEN [call[r] EXCEPT !.event = "updated"]
                           ELSE call[r])
    /\ call' = [call EXCEPT ![r] = None]
    /\ UNCHANGED <<vars, bus, socket, fetch, behind, gap>>

\* The call failed: a drag loads the board again, the dialog leaves its text.
Fail(r) ==
    /\ Waiting(r) /\ req[r] = Idle
    /\ call' = [call EXCEPT ![r] = None]
    /\ IF call[r] = Drag THEN fetch = None /\ fetch' = Asked ELSE UNCHANGED fetch
    /\ UNCHANGED <<vars, bus, socket, view, behind, gap>>

CrashServer ==
    /\ Crash
    /\ IF InProgress(CardOps) = {} THEN UNCHANGED <<fetch, behind, gap>> ELSE Lose
    /\ UNCHANGED <<bus, socket, view, call>>

SyncNext ==
    \/ \E r \in Requests : Serve(r) \/ \E ok \in BOOLEAN : Announce(r, ok)
    \/ \E r \in Mine :
         \/ \E c \in Cards, l \in Lanes : DragCard(r, c, l)
         \/ \E c \in Cards, a \in BOOLEAN : EditCard(r, c, a)
         \/ \E l \in Lanes : AddCard(r, l)
         \/ Respond(r) \/ Fail(r)
    \/ Receive \/ Disconnect \/ Reconnect \/ Reopen \/ Load \/ LoadFails
    \/ CrashServer

SyncSpec == SyncInit /\ [][SyncNext]_allVars

-----------------------------------------------------------------------------
\* Nothing about card c is under way.
Quiet(c) ==
    /\ Touches(c) = {}
    /\ \A r \in Mine : call[r] = None
    /\ \A i \in DOMAIN bus : bus[i].card # c
    /\ fetch = None /\ ~behind

(* main.py:8 "what keeps real-time sync consistent": a screen that missed no  *)
(* event since the list it shows was read has each card as the database has   *)
(* it, once nothing about that card is under way, whatever it showed before.  *)
InStep == \A c \in Cards : Quiet(c) => view[c] = Listed[c]
=============================================================================
