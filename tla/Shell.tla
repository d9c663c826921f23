---------------------------------- MODULE Shell ----------------------------------
(***************************************************************************)
(* The signed-in shell ((app)/_layout.tsx): the stack of screens, the rail   *)
(* and its overlay on a narrow window (NavRail.tsx), the two panels it opens, *)
(* and the search a board publishes to the rail (ScreenActions.tsx) with the *)
(* bar it opens (BoardSearchBar.tsx).  A pushed screen covers the one below, *)
(* which stays mounted.                                                      *)
(***************************************************************************)
EXTENDS Naturals, Sequences, SequencesExt

CONSTANT MaxDepth  \* bound: screens on the stack

ASSUME ShellConstants == MaxDepth \in Nat \ {0}

VARIABLES
    stack,   \* screens, the first one pushed first
    search,  \* onSearch: where the screen is that published it, or 0
    narrow,  \* the window has no room for the rail
    overlay, \* the rail is open over a narrow window
    open,    \* panels of the layout that are open
    notified \* the notifications panel lists one of a board

shell == <<stack, search, narrow, overlay, open, notified>>

FreshScreen(kind) == [kind |-> kind, bar |-> FALSE, query |-> FALSE]
OnlyHome == <<FreshScreen("home")>>

ShellInit ==
    /\ stack = OnlyHome /\ search = 0
    /\ narrow \in BOOLEAN /\ overlay = FALSE
    /\ open = {} /\ notified \in BOOLEAN

Top == Last(stack)

\* A screen is pushed.  A board publishes its search as it mounts.
Push(kind) ==
    /\ Len(stack) < MaxDepth
    /\ stack' = Append(stack, FreshScreen(kind))
    /\ search' = IF kind = "board" THEN Len(stack) + 1 ELSE search

\* The overlay is rendered on a narrow window only; its flag outlives a wide one.
OverRail == narrow /\ overlay
Navigated == overlay' = (overlay /\ ~narrow)

\* Settings cover the shell; nothing below a panel or the overlay can be pressed.
Pressable == Top.kind # "settings" /\ open = {} /\ ~OverRail

OpenBoard == Pressable /\ Top.kind = "home" /\ Push("board") /\ UNCHANGED <<narrow, overlay, open, notified>>
OpenItem == Pressable /\ Top.kind = "board" /\ Push("item") /\ UNCHANGED <<narrow, overlay, open, notified>>

\* A notification of a board closes the panel and pushes the board, whatever the
\* screen below is.
FollowNotification ==
    /\ "notifications" \in open /\ notified
    /\ open' = open \ {"notifications"}
    /\ Push("board")
    /\ UNCHANGED <<narrow, overlay, notified>>

BackKeepsSearch ==  \* mutant: the screen that unmounts leaves its search behind
    /\ Len(stack) > 1 /\ stack' = Front(stack)
    /\ UNCHANGED <<search, narrow, overlay, open, notified>>

\* The screen on top unmounts: a board withdraws the search, whoever published it.
Back ==
    /\ Len(stack) > 1 /\ stack' = Front(stack)
    /\ search' = IF Top.kind = "board" THEN 0 ELSE search
    /\ UNCHANGED <<narrow, overlay, open, notified>>

\* The rail is there on a wide window, and as an overlay on a narrow one, which
\* closes after everything but a change of theme.
RailShown == Top.kind # "settings" /\ (narrow => overlay) /\ open = {}

OpenOverlay ==
    /\ Pressable /\ narrow
    /\ overlay' = TRUE
    /\ UNCHANGED <<stack, search, narrow, open, notified>>

GoTo(kind) ==
    /\ RailShown /\ Push(kind)
    /\ Navigated
    /\ UNCHANGED <<narrow, open, notified>>

OpenPanelOf(panel) ==
    /\ RailShown
    /\ open' = {panel} /\ Navigated
    /\ UNCHANGED <<stack, search, narrow, notified>>

\* The rail calls the search that is published, on whatever screen that is.
PressSearch ==
    /\ RailShown /\ search # 0
    /\ stack' = IF search \in DOMAIN stack THEN [stack EXCEPT ![search].bar = TRUE] ELSE stack
    /\ Navigated
    /\ UNCHANGED <<search, narrow, open, notified>>

\* A board that has cards has a search button in its own header too.
HeaderSearch ==
    /\ Pressable /\ Top.kind = "board"
    /\ stack' = [stack EXCEPT ![Len(stack)].bar = TRUE]
    /\ UNCHANGED <<search, narrow, overlay, open, notified>>

TypeQuery ==
    /\ Pressable /\ Top.bar
    /\ \E typed \in BOOLEAN : stack' = [stack EXCEPT ![Len(stack)].query = typed]
    /\ UNCHANGED <<search, narrow, overlay, open, notified>>

\* Closing a bar clears its query.
Closed(scr) == [scr EXCEPT !.bar = FALSE, !.query = FALSE]

CloseSearch ==
    /\ Pressable /\ Top.bar
    /\ stack' = [stack EXCEPT ![Len(stack)] = Closed(Top)]
    /\ UNCHANGED <<search, narrow, overlay, open, notified>>

\* Escape is heard by every bar that is mounted, by the panels and the overlay.
Escape ==
    /\ stack' = [i \in 1..Len(stack) |-> IF stack[i].bar THEN Closed(stack[i]) ELSE stack[i]]
    /\ open' = {} /\ Navigated
    /\ UNCHANGED <<search, narrow, notified>>

CloseSurfaces ==
    /\ open # {} \/ OverRail
    /\ open' = {} /\ Navigated
    /\ UNCHANGED <<stack, search, narrow, notified>>

ResizeWindow == narrow' = ~narrow /\ UNCHANGED <<stack, search, overlay, open, notified>>

\* Without a token the layout is replaced by the sign-in screen, and starts anew.
SignOutOfShell ==
    /\ RailShown
    /\ stack' = OnlyHome /\ search' = 0 /\ overlay' = FALSE /\ open' = {}
    /\ UNCHANGED <<narrow, notified>>

ShellNext ==
    \/ OpenBoard \/ OpenItem \/ FollowNotification \/ Back
    \/ OpenOverlay \/ PressSearch \/ HeaderSearch \/ TypeQuery \/ CloseSearch \/ Escape
    \/ CloseSurfaces \/ ResizeWindow \/ SignOutOfShell
    \/ \E kind \in {"home", "settings"} : GoTo(kind)
    \/ \E panel \in {"profile", "notifications"} : OpenPanelOf(panel)

ShellSpec == ShellInit /\ [][ShellNext]_shell

-----------------------------------------------------------------------------
(* Properties *)

\* "[The rail] calls a handler that closes over a dead screen" (ScreenActions.tsx:9-10),
\* and "leaving a filter applied behind a closed search bar is how you end up convinced
\* cards have gone missing" (board/[id].tsx): whatever is pushed, popped and followed,
\* the search the rail holds is that of a board which is still mounted, and no board,
\* on top or below, filters its cards without a bar that says so.  It does not say that
\* the board is the screen one sees: with another screen pushed over it the rail still
\* offers its search.
NoDeadSearch ==
    /\ search # 0 => search \in DOMAIN stack /\ stack[search].kind = "board"
    /\ \A i \in DOMAIN stack : stack[i].query => stack[i].bar
=============================================================================
