---------------------------------- MODULE Home ----------------------------------
(***************************************************************************)
(* The home screen (app/(app)/index.tsx): the workspaces, the one that is    *)
(* active, the boards listed under it, the pull to refresh and the sheets    *)
(* that create a workspace or a board or invite a member (MembersSheet.tsx). *)
(* Lists are sets: their order and their layout are left out.                *)
(***************************************************************************)
EXTENDS Naturals, FiniteSets

CONSTANTS
    Workspaces,   \* workspaces the user is in or may create
    Titles,       \* boards a workspace may have
    NoWorkspace,  \* null
    MaxHomeActs   \* bound: times the user asks the server for something

Boards == Workspaces \X Titles

VARIABLES
    theirs,     \* workspaces at the server
    stock,      \* boards at the server
    invited,    \* workspaces whose invited member was added, at the server
    foundNone,  \* lists for which the server found no workspace
    rows,       \* the chips: workspaces this screen knows
    active,     \* activeId
    boards,     \* the list under it
    listing,    \* chips hidden by their skeleton (loadingWs)
    waiting,    \* boards hidden by theirs (loadingBoards)
    refreshing, \* the list is pulled down and spins
    asked,      \* requests in flight
    homeActs,   \* requests the user caused
    oops        \* the error card is shown

homeServer == <<theirs, stock, invited, foundNone>>
homeScreen == <<rows, active, boards, listing, waiting, refreshing, oops>>
home == <<homeServer, homeScreen, asked, homeActs>>

\* A request of the user's n-th act, of the pull it belongs to, and what the server
\* answered.
Asked(n, kind, ws, pull) ==
    [n |-> n, kind |-> kind, ws |-> ws, pull |-> pull, served |-> FALSE, got |-> {}]
Ask(n, kind, ws) == Asked(n, kind, ws, FALSE)

HomeInit ==
    /\ theirs \in {w \in SUBSET Workspaces : w = {} \/ Cardinality(Workspaces \ w) = 1}
    /\ stock = {b \in Boards : b[1] \in theirs /\ b[2] = CHOOSE t \in Titles : TRUE}
    /\ invited = {} /\ foundNone = {} /\ rows = {} /\ active = NoWorkspace /\ boards = {}
    /\ listing = TRUE /\ waiting = FALSE /\ refreshing = FALSE
    /\ homeActs = 0 /\ oops = FALSE
    /\ asked = {Ask(0, "list", NoWorkspace)}

-----------------------------------------------------------------------------
(* The server *)

Answer(r, got) ==
    /\ r \in asked /\ ~r.served
    /\ asked' = (asked \ {r}) \cup {[r EXCEPT !.served = TRUE, !.got = got]}
    /\ UNCHANGED <<homeScreen, homeActs>>

\* Whoever has no workspace is given one, so that no list is empty.  Two lists that
\* both find none make one each.
FindNone(r) ==
    /\ r.kind = "list" /\ ~r.served /\ theirs = {}
    /\ foundNone' = foundNone \cup {r.n}
    /\ UNCHANGED <<theirs, stock, invited, homeScreen, asked, homeActs>>

ServeList(r) ==
    /\ r.kind = "list"
    /\ IF r.n \in foundNone
       THEN \E first \in Workspaces \ theirs :
              theirs' = theirs \cup {first} /\ Answer(r, {first})
       ELSE theirs # {} /\ Answer(r, theirs) /\ UNCHANGED theirs
    /\ UNCHANGED <<stock, invited, foundNone>>

ServeBoards(r) ==
    /\ r.kind = "boards"
    /\ Answer(r, {b \in stock : b[1] = r.ws}) /\ UNCHANGED homeServer

MakeWorkspace(r) ==
    /\ r.kind = "newWorkspace"
    /\ \E ws \in Workspaces \ theirs : theirs' = theirs \cup {ws} /\ Answer(r, {ws})
    /\ UNCHANGED <<stock, invited, foundNone>>

MakeBoard(r) ==
    /\ r.kind = "newBoard"
    /\ \E b \in ({r.ws} \X Titles) \ stock : stock' = stock \cup {b} /\ Answer(r, {b})
    /\ UNCHANGED <<theirs, invited, foundNone>>

MakeMember(r) ==
    /\ r.kind = "addMember" /\ invited' = invited \cup {r.ws}
    /\ Answer(r, {}) /\ UNCHANGED <<theirs, stock, foundNone>>

-----------------------------------------------------------------------------
(* The screen *)

HomeAct == homeActs < MaxHomeActs /\ homeActs' = homeActs + 1

SelectKeeps(n, ws, others) ==  \* mutant: the skeleton is shown, the new boards are not loaded
    /\ active' = ws
    /\ asked' = others
    /\ waiting' = (waiting \/ ws # active)

\* setActiveId, and the effect it runs: a change loads the boards.
Select(n, ws, others) ==
    /\ active' = ws
    /\ IF ws # active
       THEN asked' = others \cup {Ask(n, "boards", ws)} /\ waiting' = TRUE
       ELSE asked' = others /\ UNCHANGED waiting

\* A chip is pressed.
PickWorkspace(ws) ==
    /\ HomeAct /\ ~listing /\ ws \in rows \ {active}
    /\ Select(homeActs + 1, ws, asked)
    /\ UNCHANGED <<homeServer, rows, boards, listing, refreshing, oops>>

\* Pulled down: the workspaces are listed again, and then the boards loaded of the
\* workspace that is active now, if one is.
PullToRefresh ==
    /\ HomeAct /\ ~refreshing
    /\ refreshing' = TRUE /\ oops' = FALSE
    /\ asked' = asked \cup {Asked(homeActs + 1, "list", active, TRUE)}
    /\ UNCHANGED <<homeServer, rows, active, boards, listing, waiting>>

Retry ==  \* the button of the error card
    /\ HomeAct /\ oops /\ oops' = FALSE
    /\ asked' = asked \cup {Ask(homeActs + 1, "list", NoWorkspace)}
    /\ UNCHANGED <<homeServer, rows, active, boards, listing, waiting, refreshing>>

\* The list of a pull goes on to the boards it had in mind, whatever is active by now.
GoesOn(r) == r.pull /\ r.ws # NoWorkspace
Then(r) ==
    (asked \ {r}) \cup
    (IF GoesOn(r) THEN {Asked(r.n, "boards", r.ws, TRUE)} ELSE {})

\* The workspaces as the server read them: whatever was created since is not among
\* them.  The first becomes active when none is.
Listed(r) ==
    /\ r \in asked /\ r.kind = "list" /\ r.served
    /\ rows' = r.got /\ listing' = FALSE
    /\ refreshing' = (refreshing /\ (r.pull => GoesOn(r)))
    /\ IF active = NoWorkspace
       THEN \E first \in r.got : Select(r.n, first, Then(r))
       ELSE asked' = Then(r) /\ waiting' = (waiting \/ GoesOn(r)) /\ UNCHANGED active
    /\ UNCHANGED <<homeServer, boards, homeActs, oops>>

\* No answer, whether or not the server read the list.
NotListed(r) ==
    /\ r \in asked /\ r.kind = "list"
    /\ asked' = Then(r) /\ waiting' = (waiting \/ GoesOn(r)) /\ listing' = FALSE
    /\ refreshing' = (refreshing /\ (r.pull => GoesOn(r)))
    /\ oops' = TRUE
    /\ UNCHANGED <<homeServer, rows, active, boards, homeActs>>

\* Boards are in, or could not be had: then the list is emptied.  Nothing checks
\* that their workspace is still the active one, and any answer ends the skeleton.
BoardsIn(r) ==
    /\ r \in asked /\ r.kind = "boards"
    /\ \/ r.served /\ boards' = r.got
       \/ boards' = {}
    /\ waiting' = FALSE
    /\ refreshing' = (refreshing /\ ~r.pull)
    /\ asked' = asked \ {r}
    /\ UNCHANGED <<homeServer, rows, active, listing, homeActs, oops>>

\* A sheet is busy until its request is over.  What it is about is the workspace that
\* is active, as long as the chips have it; the user owns every
\* workspace there is.
Submit(kind, ws, busy) ==
    /\ HomeAct /\ \A r \in asked : r.kind \notin busy
    /\ asked' = asked \cup {Ask(homeActs + 1, kind, ws)}
    /\ UNCHANGED <<homeServer, homeScreen>>

SubmitWorkspace == Submit("newWorkspace", NoWorkspace, {"newWorkspace"})
SubmitBoard == active \in rows /\ Submit("newBoard", active, {"newBoard"})
SubmitInvite == active \in rows /\ Submit("invite", active, {"invite", "addMember"})

\* The workspace is made: it joins the chips and is opened.
WorkspaceCreated(r) ==
    /\ r \in asked /\ r.kind = "newWorkspace" /\ r.served
    /\ rows' = rows \cup r.got
    /\ \E ws \in r.got : Select(r.n, ws, asked \ {r})
    /\ UNCHANGED <<homeServer, boards, listing, refreshing, homeActs, oops>>

\* The board is made and appended to whatever list is on screen.
BoardCreated(r) ==
    /\ r \in asked /\ r.kind = "newBoard" /\ r.served
    /\ boards' = boards \cup r.got /\ asked' = asked \ {r}
    /\ UNCHANGED <<homeServer, rows, active, listing, waiting, refreshing, homeActs, oops>>

\* The address is looked up, then that person is added: two requests, of which the
\* first reads nothing that is modelled here.
PersonFound(r) ==
    /\ r \in asked /\ r.kind = "invite"
    /\ asked' = (asked \ {r}) \cup {Ask(r.n, "addMember", r.ws)}
    /\ UNCHANGED <<homeServer, homeScreen, homeActs>>

\* Nothing more to do, or no answer to a sheet: it says so and stays open, whether or
\* not the server did what it was asked.
SheetOver(r) ==
    /\ r \in asked /\ r.kind \in {"newWorkspace", "newBoard", "invite", "addMember"}
    /\ asked' = asked \ {r}
    /\ UNCHANGED <<homeServer, homeScreen, homeActs>>

HomeNext ==
    \/ PullToRefresh \/ Retry \/ SubmitWorkspace \/ SubmitBoard \/ SubmitInvite
    \/ \E ws \in rows : PickWorkspace(ws)
    \/ \E r \in asked :
         \/ FindNone(r) \/ ServeList(r) \/ ServeBoards(r)
         \/ MakeWorkspace(r) \/ MakeBoard(r) \/ MakeMember(r)
         \/ Listed(r) \/ NotListed(r) \/ BoardsIn(r) \/ WorkspaceCreated(r)
         \/ BoardCreated(r) \/ PersonFound(r) \/ SheetOver(r)

HomeSpec == HomeInit /\ [][HomeNext]_home

-----------------------------------------------------------------------------
(* Properties *)

\* Nothing spins on for ever: while the chips or the boards hide behind a skeleton, or
\* the pulled list behind its spinner, a request is under way whose answer or failure
\* will uncover them, whatever was picked, created or refused meanwhile and in
\* whatever order the answers land.
SpinnersHaveCause ==
    /\ listing => \E r \in asked : r.kind = "list"
    /\ waiting => \E r \in asked : r.kind = "boards"
    /\ refreshing => \E r \in asked : r.pull
=============================================================================
