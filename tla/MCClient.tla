------------------------------- MODULE MCClient -------------------------------
(***************************************************************************)
(* The client's own state outside the item editors: the session and the      *)
(* server address, which share the boot and the kill; the inbox; the home    *)
(* screen; the lanes of the board screen; a floating panel; preferences; the  *)
(* shell.  The first state picks what the user is busy with, and the rest    *)
(* stays as it starts.                                                       *)
(***************************************************************************)
EXTENDS Session, ServerSettings, Inbox, Home, KanbanDrag, Panels, Preferences, Shell

CONSTANT Parts
VARIABLE part  \* a member of Parts

parts == <<notices, home, kanban, panelVars, preferences, shell>>
all == <<session, server, parts, part>>

Localhost == [scheme |-> "http", host |-> "localhost"]
TypedAddresses ==
    {Empty, [scheme |-> "bare", host |-> "lan"], [scheme |-> "ws", host |-> "lan"],
     [scheme |-> "https", host |-> "127.0.0.1"]}
OneRow == {SetToSeq(Lanes)}
TwoWindows == {[w |-> 1280, h |-> 800], [w |-> 360, h |-> 640]}
SomeMoves == {-900, 0, 900}

Init ==
    /\ part \in Parts
    /\ SessionInit /\ ServerInit /\ InboxInit /\ HomeInit /\ KanbanInit /\ PanelInit
    /\ PreferencesInit /\ ShellInit
    /\ part # "session" => tokenKey = Nobody
    /\ part # "settings" => override = None
    /\ part # "inbox" => \A n \in Notes : inbox[n] = "none"
    /\ theirs \in {{}, CHOOSE w \in SUBSET Workspaces : Cardinality(Workspaces \ w) = 1}
    /\ part # "home" => theirs = {}
    /\ part # "board" => screenW = CHOOSE w \in Screens : TRUE
    /\ part # "panel" => window = CHOOSE w \in Windows : TRUE
    /\ part # "prefs" => disk = [k \in Keys |-> Unsaved]
    /\ part # "shell" => ~narrow /\ ~notified

BootTogether == BootOverride /\ LoadOverride
KilledTogether == Crash /\ ServerCrash

Next ==
    /\ \/ part = "session" /\ SessionNext /\ UNCHANGED <<server, parts>>
       \/ /\ part \in {"session", "settings"} /\ (BootTogether \/ KilledTogether)
          /\ UNCHANGED parts
       \/ /\ part = "settings" /\ boot # "override"
          /\ \/ ServerNext /\ UNCHANGED session
             \/ Booting /\ UNCHANGED server
          /\ UNCHANGED parts
       \/ /\ part = "inbox" /\ InboxNext
          /\ UNCHANGED <<session, server, home, kanban, panelVars, preferences, shell>>
       \/ /\ part = "home" /\ HomeNext
          /\ foundNone' # {} => homeActs' <= 2  \* a first visit: fewer requests
          /\ UNCHANGED <<session, server, notices, kanban, panelVars, preferences, shell>>
       \/ /\ part = "board" /\ KanbanNext
          /\ UNCHANGED <<session, server, notices, home, panelVars, preferences, shell>>
       \/ /\ part = "panel" /\ PanelNext
          /\ UNCHANGED <<session, server, notices, home, kanban, preferences, shell>>
       \/ /\ part = "prefs" /\ PreferencesNext
          /\ UNCHANGED <<session, server, notices, home, kanban, panelVars, shell>>
       \/ /\ part = "shell" /\ ShellNext
          /\ UNCHANGED <<session, server, notices, home, kanban, panelVars, preferences>>
    /\ UNCHANGED part

\* Storage and the network settle every operation; polls go on for as long as
\* the provider is mounted; taps and failures end by their bounds.
Fairness ==
    /\ WF_all(part \in {"session", "settings"} /\ BootTogether /\ UNCHANGED <<parts, part>>)
    /\ WF_all(/\ part = "session" /\ (Booting \/ DiskWrite)
              /\ UNCHANGED <<server, parts, part>>)
    /\ WF_all(part = "settings" /\ boot # "override" /\ Booting /\ UNCHANGED <<server, parts, part>>)
    /\ WF_all(/\ part = "inbox" /\ MarkStep
              /\ UNCHANGED <<session, server, home, kanban, panelVars, preferences, shell, part>>)
    /\ \A s \in Slots :
         WF_all(/\ part = "inbox" /\ (Refresh(s) \/ RefreshLands(s))
                /\ UNCHANGED <<session, server, home, kanban, panelVars, preferences, shell, part>>)

Spec == Init /\ [][Next]_all /\ Fairness

\* After a boot the app and a restart agree on the server's address.
RestartKeepsServer == boot # "override" => KeepsServer

\* Every boot ends: no answer to /me, and no failure of it, leaves the spinner.
BootFinishes == part \in {"session", "settings"} /\ boot # "done" ~> boot = "done"

\* The inbox converges when it is what the user is busy with.
InboxSettles == part = "inbox" => InboxConverges
=============================================================================
