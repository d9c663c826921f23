# Formal models of Collaberry

Collaberry is a Kanban workspace with live collaboration: four Python services
behind Envoy, with MongoDB, Redis and RabbitMQ, and one React Native client. This
directory holds TLA+ models of the parts where concurrency, failure and time
decide whether the system is right, TLC runs that check them on small instances,
and TLAPS proofs of the main results for every value of the constants. Paths
below are relative to the repository.

- [The system](#the-system)
- [Modules](#modules)
- [Runs](#runs)
- [What disagrees with the documentation](#what-disagrees-with-the-documentation)
- [Fairness and assumptions](#fairness-and-assumptions)
- [Proofs](#proofs)
- [What is not modelled](#what-is-not-modelled)
- [Plan](#plan)
- [Running it](#running-it)

## The system

| Component | Where | State | Operations |
|---|---|---|---|
| Boards and cards | `services/workspace/app` | `boards` (lanes embedded), `items` in MongoDB | create, patch, delete a card; add, rename, reorder, delete a lane; `_emit` after each card write |
| Edit locks | `services/presence/app/store.py`, `main.py` | Redis key `lock:item:{id}` with a 30 s expiry | acquire, release, status, over REST or as socket frames; `lock_state` broadcast |
| Board rooms and presence | `services/presence/app/main.py`, `hub.py`, `store.py` | the hub's sockets per board and its pub/sub; keys `presence:{board}:{conn}` and the set `presence:index:{board}` | connect, ping, typing, leave; roster listing; fan-out of board events |
| Presence authorization | `services/presence/app/authz.py` | answers cached for 30 s | may this user see this board, this item |
| Durable jobs | `services/common/collaberry_common/queue.py` | RabbitMQ `jobs.notify` and `jobs.notify.dead` | publish, consume, ack, retry with backoff, dead-letter |
| Mention notifications | `services/notification/app` | `notifications`, `deadline_marks` in MongoDB | `process_mention`, the deadline sweep, list and mark read |
| Accounts and tokens | `services/auth/app`, `security.py` | `users`, key pair | register, login, profile, JWKS |
| Board socket client | `frontend/src/realtime/useBoardSocket.ts` | socket, roster, locks, typing | frames, ping, reconnect |
| Board screen | `frontend/app/(app)/board/[id].tsx` | the list of items shown | load, apply an event, drag, create, edit |
| Item editor and card dialog | `frontend/app/(app)/item/[id].tsx`, `CardDialog.tsx` | the item's copy, save timer, badge, lock held | load and lock, debounced save, type switch, delete, create, leave |
| Fields and bodies | `EstimationInput.tsx`, `DateField.tsx`, `DatePickerDialog.tsx`, `DocumentView.tsx`, `utils/estimation.ts` | text of the field; rows of the body | type, blur, pick a day; edit, tick, add and remove a row |
| Session | `frontend/src/context/AuthContext.tsx`, `ProfilePanel.tsx` | token and user, in memory and as two keys on the device | boot, sign in, sign up, save the profile, sign out |
| Server address | `frontend/src/api/client.ts`, `app/settings.tsx` | live addresses, saved override, the form | edit, probe, save, reset, load at boot |
| Inbox | `frontend/src/context/NotificationContext.tsx` | the rows shown | poll, mark one, mark all |
| Home screen | `frontend/app/(app)/index.tsx`, `MembersSheet.tsx` | workspaces, the active one, its boards, spinners | list, pick, refresh, create, invite |
| Kanban drag and lane layout | `DraggableBoard.tsx`, `utils/laneLayout.ts` | frames of the lanes, scroll, origin | lay out, scroll, drop a card or a lane |
| Floating panels | `components/ui/DraggableDialog.tsx` | offset from the centre | open, drag, resize the window |
| Shell | `app/(app)/_layout.tsx`, `NavRail.tsx`, `ScreenActions.tsx`, `BoardSearchBar.tsx` | screens pushed, overlay, panels, published search | push, go back, search, escape |
| Preferences | `ThemeContext.tsx`, `NavRail.tsx`, `density.tsx` | theme, rail, density, shown and stored | restore, choose |

How they meet:

- **REST.** The client calls workspace-, presence- and notification-service
  through Envoy. workspace-service is the only writer of board content, but each
  request is a coroutine that reads, decides and writes with awaits in between
  and without a transaction.
- **Events.** After a card write `_emit` publishes a `BoardEvent` on the Redis
  channel of the board. presence-service's hub reads the channel while it has a
  socket on that board and sends the event to each. Pub/sub drops what nobody
  hears.
- **Jobs.** When a card is created or updated and has an assignee other than the
  actor, `_emit` also publishes a mention job on RabbitMQ; notification-service
  writes one inbox row per mentioned user.
- **Locks.** The item screen takes the card's lock over REST once, when it opens, and
  gives it back when it is left. Nothing renews it meanwhile, so that Redis expires it
  after 30 s even under an editor that is still open.

What is hard here: requests interleave at every await; two Redis commands
decide one thing; keys expire between them; a consumer acknowledges before it
republishes; processes die and sockets drop between two steps; the screen
changes its list from five sources (events, its list request, responses, its
own optimistic drags, their failure) in whatever order they come; every screen
awaits answers that arrive after the user went on, and keeps part of its state on
a disk that is written meanwhile. What makes each component correct:

- *Edit locks*: whoever was told "granted" has the key until its time is up;
  nobody removes another user's lock; an abandoned lock frees itself.
- *Board rooms*: a live viewer's socket is registered and its channel
  subscribed; the roster lists live viewers and forgets the others, even after a
  crash.
- *Durable jobs and mentions*: a job is not lost, nor multiplied unless an
  acknowledgement of it goes astray; it is retried a bounded number of times, settles,
  and is acknowledged only when every mentioned user has a row.
- *Boards and cards*: the lanes of a board sort one way, none is lost and one is
  always left; a lane that is deleted takes no card with it that was counted; a late
  write neither resurrects a card nor undoes another field; an assignment mentions the
  assignee, unless something failed or the request was taken for another one's move.
- *Board screen*: once everything has arrived, it shows what the database has; a
  drop lands in the lane under the pointer.
- *Item editors*: what was typed is stored, waiting or on its way, or lost in one of
  the ways that `Autosave` lists: another field took the timer, the editor was left
  within the delay, a type switch went past it, its request failed, or an older request
  arrived after it. The first three show nothing, and the badge may say Saved. A screen
  that was answered "locked" writes nothing; a blur keeps the estimate; a type switch
  keeps the words of the last answer; the badge comes to rest.
- *Session and server address*: the token and the user shown are one account's,
  and a restart finds what the app was using.
- *Inbox, home, shell, panels, preferences*: lists and spinners settle, the rail
  holds the search of a mounted board or none, a part of each panel stays in the
  window, a choice stays.

`PROJECT.json` lists under `hazards` each place in the code where one of these
could go wrong in a way tests hardly reach, with the property that watches it.

## Modules

| Module | Models | Uses |
|---|---|---|
| `LeaseService` | abstract: what an edit lock promises, each request atomic | |
| `EditLock` | the lock split at its Redis commands | implements `LeaseService` |
| `EditLockProofs` | theorems about `EditLock` | |
| `JobLedger` | abstract: what the durable queue promises of a job | |
| `JobQueue` | publisher, broker, consumers and `process_mention` | implements `JobLedger` |
| `JobQueueProofs` | theorems about `JobQueue` | |
| `BoardRoom` | hub, presence keys and index, socket handlers of one board | |
| `BoardRoomProofs` | theorems about `BoardRoom` | |
| `BoardContent` | lanes, cards and requests of one board, `_emit` | |
| `BoardContentProofs` | theorems about `BoardContent` | |
| `BoardSync` | `BoardContent` with the event bus, the socket and a board screen | extends `BoardContent` |
| `BoardSyncProofs` | theorems about `BoardSync` | extends `BoardContentProofs` |
| `Autosave` | the debounced save both editors share | |
| `ItemEditor` | the item screen | extends `Autosave` |
| `CardDialog` | the board's card panel | extends `Autosave` |
| `Fields` | estimates and dates as typed, saved and shown | |
| `Bodies` | rows of checklists and documents | |
| `EditorProofs` | theorems about the four modules above and `MCEditor` | |
| `Session` | the signed-in session and its two keys | |
| `ServerSettings` | where requests go | |
| `Inbox` | the list of notifications | |
| `Home` | the home screen | |
| `LaneLayout` | widths and positions of lanes, as functions | |
| `KanbanDrag` | dragging on the board screen | extends `LaneLayout` |
| `Panels` | floating panels | |
| `Preferences` | what is kept of the user's choices | |
| `Shell` | screens, rail and search | |
| `ClientProofs` | theorems about the client's modules and `MCClient` | |
| `DataLemmas` | sequences and numbers: what the proofs need of removing, inserting, maxima and bounded sets | |
| `MCEditor` | composes the two editors, fields and bodies | |
| `MCClient` | composes the rest of the client | |
| `MCPresence` | the presence service, its lock and its room, one at a time | `EditLock`, `BoardRoom` |
| `MCJobQueue`, `MCBoardContent`, `MCBoardSync` | small instances for TLC | |

Operators marked `mutant` are not part of a specification. Each is a definition
changed the way a plausible bug would change it; put in that definition's
place, it makes TLC report the property it is listed with, which shows that the
property depends on the code being as it is.

### EditLock

`acquire_lock` is `SET NX EX` and, when that fails, `GET`, then `EXPIRE` for the
holder or `TTL` for somebody else; `release_lock` is `GET` then `DEL`. Each
command is an action (`SetNX`, `GetHolder`, `Refresh`, `Denied`, `ReleaseGet`,
`Delete`) and `lockPc` says which one a session's request comes to next. `holder` and
`ttl` are the Redis key. `Announce` is the `lock_state` broadcast with which the
socket handler ends, and which the REST routes do not make; `shown` is what
`useBoardSocket.ts` displays of it (nothing checked depends on it: no screen locks
over the socket, so no indicator is ever shown). `lease` counts down the time a session was
promised by its last "granted" answer: no variable of the code, but what the user
counts on. `Abandon` is a client that goes away or a service that dies under the
request. `LockTick` is time; the key and the leases run out with it.

### JobQueue

`ready` and `deadQueue` are the broker's queues, `deliveries` the `on_message`
callbacks under way, several per consumer up to the prefetch. `Deliver` starts
one, or dead-letters a body that does not parse; `Notify` is one `repo.add` of
`process_mention`; `Ack`, `HandlerFails` and `Republish` are the ends of the
callback. `HandlerFails` may strike after any of the writes. `Disconnect` makes
the broker take messages back while their callbacks run on (`held` is false from
then on); `Crash` ends the callbacks too. A message's attempts header is part of
the message. The broker may deliver in any order.

Nothing confirms an acknowledgement. The `Ack` of a callback that is not `held` any more
is in vain; its `HandlerFails` has two outcomes: the call raises and the callback ends
there, or nothing is noticed and it goes on to its backoff and republishes. `doubled` is
a history variable: the jobs that were retried after such an acknowledgement, and may
have two copies from then on.

### BoardRoom

The actions follow `board_socket`: `HubAdd` and `Subscribe` under the hub's
lock, `Join` (three Redis commands), `ListPresence` with its pruning of expired
members, `PushPresence` which drops dead sockets, then `Heartbeat` and `Dispatch`
until `Vanish`, and the `finally` clause `Leave`, `HubRemove`, `Unsubscribe`.
`RedisFails` is an exception out of a Redis call: the early calls come before the
`try`, so nothing is cleaned up after them. `Crash` loses the hub and keeps
Redis. `DropChannel` is the unsubscription, whose failure the code suppresses: `leaked`
is a history variable that says that the channel stayed subscribed that way, with no
socket. A typing frame sets a short-lived key that no handler reads and broadcasts;
its broadcast is part of `Dispatch`.

### BoardContent

`lanes` is the array embedded in the board document, `card` the collection of
items (a lane and whether there is an assignee), `req` the requests under way
with what each read before its next await. `CreateItem`, `ReadForUpdate`,
`SetItem`, `ReadUpdated` and `DeleteItem` are the card routes; `AddColumn`,
`ReorderColumns`, `RenameColumn` and `DeleteColumn` the lane routes; `Publish` and
`EnqueueMention` the two halves of `_emit`. A patch names one field, as those of the
clients do; the lane it names need not exist, since `update_item` asks of none whether it
does. `Crash` drops every request. The constants `LaneEditsSerial` and
`CardWritesSerial` say how much the clients overlap: the code excludes nothing, and
[Fairness and assumptions](#fairness-and-assumptions) says which properties need them.

Two history variables name what the code lets go. `strays` are the cards last put into a
lane which the board did not have, or whose cards a deletion had already counted.
`mentioned` are the cards whose assignee had a mention enqueued, or lost it to a failure,
or to a read that took the assignment for another request's move.

### BoardSync

The events that `Publish` sends go into `bus` when the socket is up and are lost
otherwise; the screen applies them with `Receive`. The other sources of the list
are `Load` (read at the server, applied later), `DragCard` (shown before the
server made it; a failure loads the board again), `EditCard` and `AddCard` with
their `Respond`. `behind` and `gap` are history variables: the list on the screen
lacks an event, and events still on their way are older than one that was lost.
A screen that is behind may be wrong, as in the code, until it loads again
(`Reopen`); a reconnect loads nothing.

### Autosave, ItemEditor and CardDialog

Both editors hold the same `persist`: one timer that every edit arms anew with its
own patch alone, a `PATCH` when it fires, and a badge that answers, failures and
1200 ms timers set. `Autosave` models it once; `ItemEditor` and `CardDialog` extend
it with the life of the screen and of the panel. The fields of an item are its
type, its body, its title, what is picked and what is planned; a word is the number
of the edit that wrote it, so that one sees which edit survived. `excused` is a
history variable: the fields whose last edit the code loses in a way that is known
(another field took the timer, the editor was left, a type switch went past it: nothing
shows; the request failed: the badge goes blank; an older request arrived later).
`EveryEditAccounted` says that these are the only ways to lose one. It does not say that
the user hears of it.

`ItemEditor` loads in the order of its effect: the session, the item, members and
comments, then the lock, whose answer 423 alone makes the screen read-only: a lock
request that fails in another way leaves it writable. A type switch (`ChangeType`) is
sent at once and made of the last copy the server answered with, whatever waits in the
timer or is on its way. `CardDialog` stays mounted while it is closed; switching from card to card
leaves the timer armed, closing stops it.

### Fields and Bodies

`Fields` has the estimate and the two dates: `BreakDown` and `ParseEstimation` are
`utils/estimation.ts` in thousandths, with its rounding; a picked day becomes its
midnight in UTC at the server and is read back in the device's zone. `Bodies` has
the rows of a checklist, which its inputs address by position and change in place,
and of a document, which have keys and may carry another user's name.

### Session and ServerSettings

`PersistSession` changes memory at once and queues two writes, one per key, which
those of the next persist may overtake only key by key. `Boot...` are the steps of
the effect: override, read, `/me` and its three outcomes. `Crash` keeps the two keys.
`mixed` and `torn` name the two races the code leaves open: `/me` answered after
the session was replaced, and a kill between the two writes. `ServerSettings` has
`Normalize`, `DeriveWs` and `RewriteLoopback` as they transform an address, the form
with its outstanding probes, and the queue of writes to the saved override.

### Inbox and Home

In `Inbox` several polls may be in flight; each replaces the whole list when it
lands. A tap changes the list at once and remembers what was there; `RolledBack` is
what happens when its requests have settled.

`Home` has every request of the home screen as a record in `asked`. What the server does
with it (`ServeList`, `ServeBoards`, `MakeWorkspace`, `MakeBoard`, `MakeMember`) and the
landing of the answer (`Listed`, `BoardsIn`, `WorkspaceCreated`, `BoardCreated`,
`NotListed`, `SheetOver`) are steps of their own, so that a list read before a creation
may land after it. Answers come in any order and are applied to whatever is on screen by
then, as in the code. `FindNone` is the server finding no workspace, before `ServeList`
makes the first one: two lists that both find none make one each.

### LaneLayout, KanbanDrag and Panels

`ComputeLaneWidth` is `laneLayout.ts` in whole pixels. `KanbanDrag` records a frame
per lane when a layout event comes (`LaidOut`), follows scroll and origin when their
events come (`Measured`), and drops by `ResolveColumn` against what was recorded;
lane edits and card moves go to the server as requests that may be refused or
overtaken, and another user's lane edits reach nobody. `Panels` keeps offsets
doubled, since the code halves lengths.

### Preferences and Shell

`Preferences` has the storage operations of each key in a queue, and one widget per
mounted board for the density. `Shell` has the stack of screens, of which a covered
one stays mounted, and `search`, the screen whose search handler the rail would call.

### MCPresence, MCBoardContent, MCEditor and MCClient

The parts of the client share almost no state, and neither do the two of the presence
service, so their product would only multiply states. `MCPresence`, `MCEditor` and
`MCClient` let the first state pick the part the user is busy with
(`part`, `editor`) and keep the others as they start; every part is checked in full,
one after the other, in one run. Session and server address are composed for
real: they boot together (the override is loaded before `/me` is asked) and are
killed together. `MCBoardContent` lets the first state pick what clients do (`busy`):
every edit of the lanes beside creations and deletions of cards, two at a time, or every
write to a card beside deletions of lanes, three at a time.

## Runs

| Run | Instance | States | Shows |
|---|---|---|---|
| `presence` | lock: 3 users, 2 on the socket and 1 on REST, expiry after 2 ticks; room: 2 sockets, presence 3 ticks, index 12, 2 faults | 56 863 | `LeaseBacked`, `NoStealing`, `AbandonedLockFrees`, implements `LeaseService`; `ViewersAreHeard`, `HubCoherent`, `SteadyViewerListed`, `LeftIsGone`, `IndexDies` |
| `job_queue` | a job with two mentions, one that does not parse, 2 consumers, prefetch 1, 1 retry, 2 faults | 254 181 | `OneCopy`, `NotLost`, `ServedIsNotified`, `RetriesBounded`, `EveryJobSettles`, implements `JobLedger` |
| `board_content` | 3 lanes (2 at first), 1 card, 2 requests on lanes and cards or 3 on cards, lane edits one at a time | 542 119 | `LanesWellFormed`, `LanesOnlyByRequest`, `OnlyStraysAreOrphaned`, `AssignedIsMentioned`, `DeletedStaysDeleted`, `FieldsChangeByPatch` |
| `board_sync` | 2 lanes, 1 card, a request of the screen and one of somebody else, 1 event under way, 1 fault | 503 701 | `InStep`, `AssignedIsMentioned` |
| `editor` | one part at a time: item screen, card panel (3 openings), fields, bodies (3 edits); 2 edits | 213 265 | `EveryEditAccounted`, `LockedOutNeverWrites`, `BadgeSettles`, `BlurKeepsEstimate`, `LastPatchIsWhole`, the type invariant |
| `client` | one part at a time: 2 accounts and a kill; 4 addresses; 2 notes and 2 polls; 2 workspaces and 3 requests; 3 lanes with 2 requests on 2 widths of the window; 2 windows of a panel; 2 boards with a density; 4 screens | 532 097 | `SessionCoherent`, `RestartRestores`, `RestartKeepsServer`, `BootFinishes`, `InboxSettles`, `SpinnersHaveCause`, `DropLandsUnderPointer`, `ReorderKeepsLanes`, `PanelInView`, `PreferencesKept`, `NoDeadSearch` |
| `lock_steal` | 2 users, expiry may fall anywhere | violation | `NoStealing` fails |
| `job_loss` | faults may strike in the backoff | violation | `NotLost` fails |
| `orphans` | 2 lanes, a creation beside a deletion of a lane | violation | `NoOrphans` fails |
| `switch_drops` | the item screen of `editor` | violation | `SwitchCarriesWords` fails |
| `close_drops` | the card panel of `editor` | violation | `CloseFlushes` fails |
| `date_shift` | the fields of `editor`, five hours west of UTC | violation | `PickedDayIsShown` fails |

Why the bounds are enough to see the interesting cases:

- *Three sessions* let one hold the lock, one release late and one acquire in
  between. Two ticks let a lease be partly used when it is refreshed.
- *Two mentions in one job* let a handler stop half way; *two consumers* let a
  redelivery overlap the callback it repeats; *one retry* separates the first attempt
  from the last, with a header in between to count wrongly; *two faults* allow a crash
  during the redelivery after a lost connection.
- *Two sockets* are first and last on the board at once, which is when subscribe
  and unsubscribe race. An index expiry of four times the presence expiry is the
  code's own ratio.
- *One lane edit beside another request* suffices for the count of a deletion to be stale
  when it removes the lane, and the client lists of a reorder are enumerated with an entry
  too few, too many or twice. *Three card requests* let an update outlive both another
  update and a deletion, or two of them come between its read and its write. They are
  interchangeable, so `board_content` uses symmetry; it checks no liveness. Faults are
  left to `board_sync`.
- *One card* is enough for the card properties: a write names one card and no
  property relates two cards. Counting a lane's cards sees one or none.
- *One request of the screen, one of somebody else and one event under way* give
  every order of event, response, list and drag. With one request on a card at a
  time, a second event waits for the first on the same card only when both
  requests have ended.
- *Two edits* let one take the other's timer, overtake it in flight, or be a type
  switch beside a pending body. *Three openings* of the panel switch from a card to
  another and back while a save waits. *Three edits of a body* remove a row between
  two edits of others. The estimates include one that rounds up to a whole workday.
- *Two sign-ins or profile saves and a kill* are enough to replace a session under
  way and to tear its keys. Per part, `client` has about 12 300 states for the
  session, 25 000 for the address, 37 600 for the inbox, 165 400 for the home screen,
  224 000 for the drags over lanes, 4 700 for a panel, 60 100 for the preferences and
  2 900 for the shell.
- *Two workspaces and three requests* let a list, a refresh and a creation cross, each
  read by the server at one time and applied at another. A first visit, on which two
  lists find no workspace, is checked with two requests beside the first list.
  *Two windows* differ in both directions. *Two boards* may be mounted together, each
  with its density.
- In the drags, *three lanes, two requests* and an edit from elsewhere make the recorded
  order of frames differ from the order shown, since each lane reports its layout by
  itself; widths of a phone and of a desktop, with and without the rail beside the
  board, use both branches of the layout.

Deadlock checking is off in the runs whose system really stops: every job may be
settled, every socket gone, every id used up, every edit made or every fault spent.

## What disagrees with the documentation

Six runs end in a violation, and each is a statement of the repository that the
code does not keep:

1. **`lock_steal`.** "Release only if the caller owns the lock (no stealing)"
   (`store.py:102`): the key may expire between `GET` and `DEL` and be granted to
   somebody else, whose lock `DEL` then removes.
2. **`job_loss`.** "A handler that raises does *not* lose the message"
   (`queue.py:153`): the message is acknowledged, then the callback sleeps, then
   publishes the copy. A process that dies in the sleep loses the job.
3. **`orphans`.** "refuses a non-empty lane so cards are never silently orphaned"
   (`workspace/app/repository.py:171`): a card created, or moved there, between the count
   of a lane's cards and the removal of the lane stays in a lane that is gone.
4. **`switch_drops`.** "We carry the text across where it makes sense so a switch isn't
   destructive" (`item/[id].tsx:176`) and "so switching kind doesn't silently drop the
   user's content" (`item/[id].tsx:435`): the switch converts the last copy the server
   answered with; words that wait in the timer or are on their way are not in it, and the
   switch overwrites the body they are in.
5. **`close_drops`.** "Flush any pending save when the panel closes, so a change typed
   a moment before dismissing isn't silently dropped by the debounce"
   (`CardDialog.tsx:129`): the effect clears the timer and sends nothing.
6. **`date_shift`.** "ISO "YYYY-MM-DD" (or a full ISO datetime — only the date part is
   read)" (`DatePickerDialog.tsx:34`): the value is parsed as an instant and read with
   local getters, so a day stored as midnight UTC is shown a day early west of UTC.

Others are seen in the models or when an assumption of a passing run is dropped; they
have no run of their own:

- "Somebody must end up with a notification row" (`workspace/app/main.py:387`): the
  route tells "updated" from "moved" by comparing with a card read before its write; an
  assignment beside another request's move counts as a move and mentions nobody.
  `AssignedIsMentioned` holds because it lists this loss among those it allows.
- "That one-writer rule is what keeps real-time sync consistent"
  (`workspace/app/main.py:7`): nothing orders one request's write and publication
  against another's (`CardWritesSerial = FALSE`: `InStep` fails).
- "Lock changes are also broadcast on the board socket" (`docs/architecture.md:61`):
  only the socket's own lock frame is; the REST routes, which the item screen uses,
  broadcast nothing.
- "the panel can never be dragged somewhere you can't reach it back from"
  (`DraggableDialog.tsx:13`) and "Keep at least this much of the panel on-screen" (`:46`):
  the bounds of the offset use the greatest height a panel may have. The title bar, which
  is the only place to drag by, may leave by the top, and a short panel may leave
  altogether. `PanelInView` says what does hold.
- "Registration must be paired with cleanup, or the rail keeps offering search after you
  leave the board and calls a handler that closes over a dead screen"
  (`ScreenActions.tsx:9-10`), and Search is hidden "everywhere else"
  (`board/[id].tsx:56-57`, and so `NavRail.tsx:67-69`, `e2e-web/board-search.spec.ts:157-171`).
  The entry is cleared when the board unmounts, which it does not when a screen is pushed
  over it: with Home or an item on top of a board the rail still offers the board's
  search. `NoDeadSearch` says the first half, that the board is mounted.
- "Publish this screen's search handler to the nav rail for as long as the screen is
  mounted" (`ScreenActions.tsx:24`): a second board screen, pushed from a notification
  and popped, clears the entry of the one below; in `Shell`, `search` is then 0 with a
  board on top.

## Fairness and assumptions

Fairness is asked only of what runs by itself, never of users or faults.

- `EditLock` (`FairLock`): a request that reached the service is answered (`Serve`) and
  time passes. An asyncio server that is up runs its coroutines.
- `JobQueue`: consumers consume (`Deliver`) and callbacks run on (`Handle`). Weak
  fairness of `Handle` as a whole is enough: each callback has finitely many
  steps, and a failure is one.
- `BoardRoom` (`FairRoom`): handlers run, connected clients ping (the client has a timer for
  it) and time passes.
- `BoardContent` and `BoardSync` state safety only.
- `MCEditor`: timers fire, requests in flight are answered or fail, badges fade. A
  browser does this by itself. Edits stop by their bound, which is what "once the
  user stops" means in `BadgeSettles`.
- `MCClient`: the boot runs on, storage operations and mark requests end, and polls
  go on as long as the provider is mounted (every minute, and on each return to the
  foreground). A failure is one way to end; failures of the inbox are bounded by
  `MaxFails`.

Assumptions that the code does not enforce are constants of the models, so that
the runs and theorems that need them say so:

| Constant | Says | Without it |
|---|---|---|
| `Prompt` and distinct users (`Serial`) | no expiry falls between a request's `GET` and what it does next; one session per user | `lock_steal` |
| `SafeBackoff` | no crash or loss during a backoff | `job_loss` |
| `Timely` | clients ping within the presence expiry, handlers do not stall for a tick | a viewer that pings late may be pruned from the index, and stays off the roster until it reconnects: a ping renews the key, not the membership |
| `SafeJoin` | no Redis error at the subscription or between `SADD` and `EXPIRE` | an error there leaves a registered socket without subscription, or an index without expiry |
| `LaneEditsSerial` | one lane edit at a time; requests on cards run beside it | lane edits lost or undone, two lanes with one order, no lane left |
| `CardWritesSerial` | one request on a card at a time; only `InStep` needs it | a screen that keeps the older card |

`MaxFaults` bounds crashes, Redis errors, failed publications and lost
connections together; `MaxBus` the events under way to a screen; `Requests` the
requests under way at once. In the client, `MaxEdits`, `MaxOpens`, `MaxSaves`,
`MaxTypings`, `MaxCalls`, `MaxCrashes`, `MaxChanges`, `MaxTaps`, `MaxFails`,
`MaxHomeActs`, `MaxActs`, `MaxChoices` and `MaxDepth` bound what users and faults do,
and `Slots` the polls in flight. The lock's 30 seconds and the presence expiries are
ticks.

## Proofs

TLAPS proves every safety invariant and action property that a passing run checks,
and both refinements, for any number of sessions, users, jobs, consumers, sockets,
lanes, cards, accounts, retries, faults and edits, and any lock time, from the
assumptions each module states about its constants (`LockConstants`, `QueueConstants`
and the others named like them). A hypothesis of a theorem is one of the constants of
[Fairness and assumptions](#fairness-and-assumptions), with the value its run gives it.

| Module | Theorems (property) |
|---|---|
| `EditLockProofs` | `Typing`, `EveryLockExpires`, `LeasesAreBacked`, `NoLockIsStolen`, `LockImplementsLease` |
| `JobQueueProofs` | `Typing`, `JobsStaySingle` (`OneCopy`), `ServedJobsAreNotified` (`ServedIsNotified`), `NoJobIsLost` (`NotLost`), `RetriesStayBounded` (`RetriesBounded`), `QueueImplementsLedger` |
| `BoardRoomProofs` | `RoomTyping`, `HubListensWhileNeeded` (`HubCoherent`), `LiveViewersAreHeard` (`ViewersAreHeard`), `LeaversLeaveNothing` (`LeftIsGone`), `SteadyViewersStayListed` (`SteadyViewerListed`) |
| `BoardContentProofs` | `NothingReturnsFromDeletion` (`DeletedStaysDeleted`), `UpdatesKeepOtherFields` (`FieldsChangeByPatch`), `AssigneesAreMentioned` (`AssignedIsMentioned`), `BoardKeepsItsLanes` (`LanesWellFormed`), `LanesLeaveByRequest` (`LanesOnlyByRequest`), `CountProtectsCards` (`OnlyStraysAreOrphaned`) |
| `BoardSyncProofs` | `ScreenStaysInStep` (`InStep`), `ScreenKeepsMentions` (`AssignedIsMentioned`), `AttachedCardsAreKept`, `AttachedLanesAreKept` |
| `EditorProofs` | `EditorsStayTyped` (`TypeOK`), `ReadOnlyScreenIsSilent` (`LockedOutNeverWrites`), `ConversionKeepsWords`, `EditorAccountsForEdits` and `DialogAccountsForEdits` (`EveryEditAccounted`), `PassingThroughKeepsEstimate` (`BlurKeepsEstimate`), `LastPatchCountsAlone` (`LastPatchIsWhole`), `EditorsAreSafe` |
| `ClientProofs` | `SessionStaysCoherent`, `RestartRestoresSession`, `RestartKeepsAddress` (`RestartKeepsServer`), `NothingSpinsForever` (`SpinnersHaveCause`), `PanelStaysInView` (`PanelInView`), `SearchStaysLive` (`NoDeadSearch`), `PreferencesSurviveRestart` (`PreferencesKept`), `DropLandsInLane` (`DropLandsUnderPointer`), `ReorderMovesOneLane` (`ReorderKeepsLanes`), `ClientIsSafe` |

`DataLemmas` has what several of them need of data. Recursive definitions cannot be
expanded by the provers, nor induction used, so the models define what they compute
by the property that determines it (a set, a function on positions, the place
chosen), and the lemmas are about that: `RemovedAt` and `InsertedAt` (which entry of
the new sequence is which of the old), `MaxIsHighest` and `LeastOf` (a finite set of
numbers has a highest and a lowest one).

**EditLockProofs.** `Typing`: `TypeOK` holds always. `EveryLockExpires`: a key
exists exactly while its expiry runs. `LeasesAreBacked`: `LeaseBacked`, with
serial requests none of the sessions told "granted" has lost the key before its
time. `NoLockIsStolen`: with serial requests a release never deletes another user's lock. `LockImplementsLease`: with
serial requests `EditLock` implements `LeaseService`.

`LeaseBacked` is not inductive by itself: `Refresh` renews a lease without looking
at the holder, so one has to know that the holder it read is still there, and
`Delete` removes the key, so one has to know that it is not needed any more. The
inductive invariant `IInv` adds `CommittedHolds` (a session between its `GET` and
the command that follows owns the key) and `ReleasingIsDone` (a session that
releases has given up its lease) to `TypeOK` and `LockExpires`. `CommittedHolds` is
exactly where `Prompt` is used, and where the proof would fail for the code as it
is when an expiry comes at the wrong moment.

**JobQueueProofs.** `Typing`: `TypeOK`; for the attempts header to stay in its
range one needs `BackoffReleased`, that a callback in its backoff has a retry
left. `JobsStaySingle`: `OneCopy`, from the inductive `Unique` (`AllSent`: a message, a
callback or a dead letter stands for a job that was sent; `OnlyUnserved` and `OnePlace`:
unless the job is doubled, it is not served, and no two of them stand for the same one);
it needs no assumption about faults, and says nothing of a job after an acknowledgement
of it was lost unseen.
`ServedJobsAreNotified`: `ServedIsNotified`, from `HandledHaveRows`, that a handler
has written the rows of those it no longer has to do. `NoJobIsLost`: under
`SafeBackoff`, `NotLost`. `QueueImplementsLedger`: under `SafeBackoff`, `JobQueue`
implements `JobLedger`; the lemma `StepLedger` shows for each action which step of
the ledger it is: `Enqueue`, `Write` for a row, `Serve` for an acknowledgement in
time, `Bury` for a dead letter, and nothing for deliveries, retries and faults; what the
ledger holds open is `Owed`, without the copies that outlive the end of a doubled job.
The lemmas `Delivered` to `Dropped` state what each action does to the records, so
that the proofs above them need not open those again. `RetriesStayBounded`:
`RetriesBounded`. Counting rows is not inductive: what a user has of a job so far says
nothing of the callbacks that may still write. `RetryInv` counts a user's rows of a job
together with the callbacks that owe one (`RowsDue`), and bounds them by the attempts in
the header of the message or callback that stands for the job, and a further one for
each fault; a redelivery after a lost connection is paid for by that fault. Doubled jobs
are left out: their two copies are retried apart.

**BoardRoomProofs.** `RoomTyping`: `TypeOK`. `HubListensWhileNeeded` and
`LiveViewersAreHeard`: under `SafeJoin`, `HubCoherent` and `ViewersAreHeard`, for any
number of sockets. The heart of the invariant `HubInv` is the hub's lock: while a
handler is between registering and subscribing, or between removing and
unsubscribing, it holds the lock and is the only one there (`LockedIsAlone`), so
that no subscription is undone by an unsubscription decided earlier. An unsubscription
that failed leaves `leaked` until the next one or the next subscription. It also needs
`LeavingIsOver` (a handler in its `finally` clause has no live client) and
`LiveIsRegistered`. `LeaversLeaveNothing`: `LeftIsGone`, with no assumption about
faults. `SteadyViewersStayListed`: under `Timely`, `SteadyViewerListed`; the invariant
`RosterKept` says for each step of a join or a ping what the key and the index hold
already.

**BoardContentProofs.** `NothingReturnsFromDeletion`: `DeletedStaysDeleted`, and
`UpdatesKeepOtherFields`: `FieldsChangeByPatch`, for any number of requests, lanes and
cards; both rest on `CardsTyped`, what each request may hold at each of its steps.
`AssigneesAreMentioned`: `AssignedIsMentioned`, with no assumption about how requests
overlap. It is inductive together with `CardsTyped`, card by card (`Tracked`): a card
that is given an assignee is given it by a request that then owes the mention, and every
step by which that debt could go without the mention is one that `mentioned` records.

`BoardKeepsItsLanes` and `LanesLeaveByRequest`: with `LaneEditsSerial`,
`LanesWellFormed` and `LanesOnlyByRequest`. The invariant `LaneInv` says that at most one
lane edit is in progress and that what it read is still so (`ReadIsCurrent`), which is
where the hypothesis is used; the lemmas `LaneAdded`, `LanesReordered`, `LaneRenamed` and
`LanePulled` show for each write of the array which entries stay and that orders stay
apart. `CountProtectsCards`: with `LaneEditsSerial`, whatever the requests on cards do
beside it, `OnlyStraysAreOrphaned`. Its invariant `PlaceInv` says more: every card but the
strays is in a lane which no deletion has counted yet (`OpenLanes`), so that removing a
lane that was counted leaves it where it is.

**BoardSyncProofs.** `ScreenStaysInStep`: with `CardWritesSerial`, `InStep`, for any
cards, requests and events under way. `SyncInv` says what the screen *will* show. For
each card, the events under way tell its life in order, and the last of them tells what
the card is now, unless a request still owes an event or one was lost (`BusInv`); the
list the screen has, or the one it is loading, becomes right once those events are
applied to it (`WillShow`), unless it is known to be behind or a refused drag is about to
load the board again (`Stray`); and a response not yet handled tells what the card is
(`Current`). That no two requests touch one card is `SerialInv`, which is where
`CardWritesSerial` is used. One lemma per action keeps each of these.
`ScreenKeepsMentions`:
`AssignedIsMentioned` with the screen's requests among the others. `AttachedCardsAreKept`
and `AttachedLanesAreKept` carry the other theorems about the server over: a step of
`BoardSync` is a step of `BoardContent`, or leaves everything there but the count of
faults (`AttachedStep`).

**EditorProofs.** `ReadOnlyScreenIsSilent`: what makes it true is that the lock is asked
for last: while the screen loads there is no timer, no request and no deletion
(`LockInv`), and only a writable screen arms one. `EditorAccountsForEdits` and
`DialogAccountsForEdits`: `EveryEditAccounted` is not inductive, since an answer may bring
an older word into `stored`; `SaveInv` follows the last edit of each field (`LastEdit`):
requests carry the numbers of the edits they are of, so that a write is known to be older
than the one it undoes. `ConversionKeepsWords` is about the conversion alone: a body of up
to three lines, taken apart and put together as another type, keeps the lines that are
not blank; which body is converted is what `switch_drops` is about.
`PassingThroughKeepsEstimate`: for every estimate of at least five thousandths of an hour,
shorter ones being shown as nothing; `WrittenIsRead` bounds what rounding to hundredths
of an hour loses. `LastPatchCountsAlone`: the keys of the rows
are distinct and none is ahead of the edits made, every row has the words last typed in
it, and the last patch is the rows (`BodyInv`): those the user left, whatever the inputs
of a checklist go on showing after a removal. `EditorsStayTyped`:
the type invariant, with the count of timers and requests that keeps `fades` bounded.
`EditorsAreSafe` puts them together for `MCEditor`, whose steps are those of the editor
the user is in (`EditorsRun`).

**ClientProofs.** Each part has an invariant of its own.

- Session: what is on disk depends on the queue of persists, so `SessionInv` describes
  it (`Ordered`: a persist that waits has written its first key before those behind it;
  `HalfWritten`: the token on disk is that of the last persist between its two writes;
  `Whole`: with none of those and no kill between two writes the keys agree; `Latest` and
  `Stored`: the session in memory is the one persisted last, or else the one on disk;
  `Untouched`: nothing happens before the disk is read).
- Address: `ServerInv`, that what the app talks to is what loading the last saved value
  would give; what is saved has a scheme, so that loading does not change it.
- Home: `HomeInv`, that a pull and the skeletons each have the request that ends them, and
  by their kind and workspace what the requests may be (`AsksTyped`).
- Panel: the offset is within the bounds of the window shown now.
- Shell: `NoDeadSearch` itself, with the types of the stack; a covered screen stays what
  it is, and the board that published the search withdraws it when it leaves.
- Preferences: for each key, what the disk will hold once the queue has run is what the
  widgets that may not drift show; a read under way will answer that too.
- Lanes: `KanbanInv`, that every list of lanes, the ones in requests and answers
  included, has each lane once. `DropsLand` then is about the code of the hit test alone:
  lanes measured where they are lie side by side, so that a point is in one of them.

`ClientIsSafe` puts them together for `MCClient` (`PartsRun`).

Only model-checked, not proved: the liveness properties `AbandonedLockFrees`,
`EveryJobSettles`, `IndexDies`, `BadgeSettles`, `BootFinishes` and `InboxSettles`. Liveness
under fairness is out of this prover's reach. Nor is anything proved of a run that ends
in a violation.

## What is not modelled

- Within the boards: the order of the cards in a lane (two cards created at once may
  get the same; the sort then decides), titles and labels, several assignees, the
  search and density filters of the screen, typing timers, and the rosters that
  clients hold. Lane edits publish no event in the code, so the screen learns of them
  when it loads; `BoardSync` runs without lane edits, `KanbanDrag` has them.
- `AssignedIsMentioned` lists a mention the broker refused, or a crash cut off, among the
  losses it allows: the source documents that choice (`workspace/app/main.py:419`).
- Several boards on one pub/sub connection, and the end of the hub's reader task
  after an error out of `listen()`: nothing restarts it.
- The deadline sweep of notification-service, and the notification routes, which
  are one query and one update.
- Within the item screen: comments, which are posted and deleted one by one, and the
  members' names.
- Within the client's forms: what is checked before a request is sent, apart from
  guards that keep a second request from leaving.
- Workspaces, members and comments at the server, beyond what the home screen reads and
  makes of the first two (`Home`): single reads and inserts scoped to a member. No route removes a member, so a stale "yes" in the cache of `authz.py`
  cannot be observed.
- Accounts and tokens: single-document operations behind a unique index, and
  cryptography.
- Envoy, deployment files, scripts, tests, and the screens and widgets that keep
  no shared state: icons, buttons, cards as drawn, the two demonstration screens.

## Plan

What could still be added, in this order:

1. Comments on the item screen, whose answers are appended in the order they come.
2. The deadline sweep with its marks: at most one reminder per card and deadline,
   none lost by a crash between mark and row.
3. `BoardRoom`: several boards, and the reader task's own end.
4. Proofs: what is added above; a type invariant for each of the client's modules and
   for `BoardSync`, which now only appear as parts of the invariants of their theorems.

## Running it

    tlc -config PresencePass.cfg MCPresence.tla
    tlc -config LockSteal.cfg MCPresence.tla
    tlc -config JobQueuePass.cfg MCJobQueue.tla
    tlc -config JobQueueLoss.cfg MCJobQueue.tla
    tlc -config BoardContentPass.cfg MCBoardContent.tla
    tlc -config BoardContentOrphans.cfg MCBoardContent.tla
    tlc -config BoardSyncPass.cfg MCBoardSync.tla
    tlc -config EditorPass.cfg MCEditor.tla
    tlc -config SwitchDrops.cfg MCEditor.tla
    tlc -config CloseDrops.cfg MCEditor.tla
    tlc -config DateShift.cfg MCEditor.tla
    tlc -config ClientPass.cfg MCClient.tla
    tlapm EditLockProofs.tla

and likewise `tlapm` for `JobQueueProofs`, `BoardRoomProofs`, `BoardContentProofs`,
`BoardSyncProofs`, `EditorProofs`, `ClientProofs` and `DataLemmas`. The longest run takes
under three minutes, the longest proof about four. `PROJECT.json` names every run with its
configuration, every mutant, the source lines each definition models, the
hazards, the findings and the theorems.
