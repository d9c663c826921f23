------------------------------- MODULE Preferences -------------------------------
(***************************************************************************)
(* The three preferences kept on the device: the theme (ThemeContext.tsx),   *)
(* whether the rail is expanded (NavRail.tsx) and the density of the cards   *)
(* (density.tsx).  Each widget that shows one reads it when it mounts, shows *)
(* a default meanwhile, and writes every choice; storage runs the operations *)
(* on a key in the order they were issued.                                   *)
(***************************************************************************)
EXTENDS Naturals, Sequences

CONSTANTS
    Decks,     \* board screens that may be mounted together, each with its density
    Unsaved,   \* the key is missing, or holds nothing the widget knows
    Unheard,   \* storage has not answered the widget
    MaxChoices \* bound: choices, mounts and failures

ASSUME PreferenceConstants == {"theme", "rail"} \cap Decks = {} /\ MaxChoices \in Nat
ASSUME NullsAreNoValues ==
    /\ Unheard # Unsaved
    /\ {Unheard, Unsaved} \cap
         {"dark", "light", "collapsed", "expanded", "comfortable", "compact"} = {}

VARIABLES
    disk,     \* what is stored of each preference
    queue,    \* storage operations issued and not yet run, per preference
    mounted,  \* widgets on screen
    restored, \* widgets whose first read was handled
    answer,   \* what storage answered to that read
    shown,    \* what each widget shows
    choices,  \* choices, mounts and failures so far
    apart     \* history: widgets the code lets differ from the disk

preferences == <<disk, queue, mounted, restored, answer, shown, choices, apart>>

Widgets == {"theme", "rail"} \cup Decks
Keys == {"theme", "rail", "density"}
KeyOf(w) == IF w \in Decks THEN "density" ELSE w

\* Two of the three densities; the third is one more like "compact".
Values(key) == CASE key = "theme" -> {"dark", "light"}
                 [] key = "rail" -> {"collapsed", "expanded"}
                 [] key = "density" -> {"comfortable", "compact"}
Default == [theme |-> "dark", rail |-> "collapsed", density |-> "comfortable"]

Read(w) == [kind |-> "read", by |-> w]
Write(w, v) == [kind |-> "write", by |-> w, value |-> v]
Unheeded == [kind |-> "unheeded"]  \* a read whose widget is gone

\* The app starts: the theme's provider is all there is.
PreferencesInit ==
    /\ disk \in [Keys -> UNION {Values(k) : k \in Keys} \cup {Unsaved}]
    /\ \A k \in Keys : disk[k] \in Values(k) \cup {Unsaved}
    /\ queue = [k \in Keys |-> IF k = "theme" THEN <<Read("theme")>> ELSE <<>>]
    /\ mounted = {"theme"} /\ restored = {}
    /\ answer = [w \in Widgets |-> Unheard]
    /\ shown = [w \in Widgets |-> Default[KeyOf(w)]]
    /\ choices = 0 /\ apart = {}

Count == choices < MaxChoices /\ choices' = choices + 1

\* The theme's provider renders nothing until its read is handled; then the rail
\* mounts on a window wide enough for it, and a density with each board opened.
MountWidget(w) ==
    /\ w \notin mounted /\ "theme" \in restored
    /\ Count
    /\ mounted' = mounted \cup {w}
    /\ shown' = [shown EXCEPT ![w] = Default[KeyOf(w)]]
    /\ answer' = [answer EXCEPT ![w] = Unheard]
    /\ queue' = [queue EXCEPT ![KeyOf(w)] = Append(@, Read(w))]
    /\ apart' = apart \ {w}
    /\ UNCHANGED <<disk, restored>>

Ignoring(q, w) == [i \in 1..Len(q) |-> IF q[i] = Read(w) THEN Unheeded ELSE q[i]]

\* The window narrows, or the board is left; the read it waits for is ignored.
UnmountWidget(w) ==
    /\ w \in mounted \ {"theme"}
    /\ mounted' = mounted \ {w} /\ restored' = restored \ {w}
    /\ queue' = [queue EXCEPT ![KeyOf(w)] = Ignoring(@, w)]
    /\ UNCHANGED <<disk, answer, shown, choices, apart>>

ChooseUnread(w, v) ==  \* mutant: the theme may be chosen before it was read
    /\ w \in mounted /\ (v # shown[w] \/ w \in Decks)
    /\ Count
    /\ shown' = [shown EXCEPT ![w] = v]
    /\ queue' = [queue EXCEPT ![KeyOf(w)] = Append(@, Write(w, v))]
    /\ apart' = (apart \cup {d \in mounted : KeyOf(d) = KeyOf(w)})
                \ (IF w \in restored \cup {"theme"} THEN {w} ELSE {})
    /\ UNCHANGED <<disk, mounted, restored, answer>>

\* A choice shows at once and is written.  The rail and a density do not wait for
\* their read, which then overrides the choice; nor does one board tell another.
Choose(w, v) ==
    /\ w \in mounted /\ (v # shown[w] \/ w \in Decks)
    /\ w = "theme" => "theme" \in restored
    /\ Count
    /\ shown' = [shown EXCEPT ![w] = v]
    /\ queue' = [queue EXCEPT ![KeyOf(w)] = Append(@, Write(w, v))]
    /\ apart' = (apart \cup {d \in mounted : KeyOf(d) = KeyOf(w)})
                \ (IF w \in restored THEN {w} ELSE {})
    /\ UNCHANGED <<disk, mounted, restored, answer>>

\* Storage runs the oldest operation on a key.
StorageRuns(k) ==
    /\ queue[k] # <<>>
    /\ LET op == Head(queue[k]) IN
       /\ answer' = IF op.kind = "read" THEN [answer EXCEPT ![op.by] = disk[k]] ELSE answer
       /\ disk' = IF op.kind = "write" THEN [disk EXCEPT ![k] = op.value] ELSE disk
    /\ queue' = [queue EXCEPT ![k] = Tail(@)]
    /\ UNCHANGED <<mounted, restored, shown, choices, apart>>

\* A write is lost: the choice stays for this session.  A read that fails leaves
\* the default, except the theme's: nothing is ever rendered.
StorageFails(k) ==
    /\ queue[k] # <<>> /\ Head(queue[k]) # Unheeded /\ Count
    /\ apart' = apart \cup {w \in Widgets : KeyOf(w) = k}
    /\ queue' = [queue EXCEPT ![k] = Tail(@)]
    /\ UNCHANGED <<disk, mounted, restored, answer, shown>>

\* The widget gets its answer.  The rail heeds only "expanded", the others any
\* value they know; the theme's provider renders its children from now on.
Restore(w) ==
    /\ w \in mounted \ restored /\ answer[w] # Unheard
    /\ restored' = restored \cup {w}
    /\ shown' = IF answer[w] = Unsaved \/ (w = "rail" /\ answer[w] = "collapsed") THEN shown
                ELSE [shown EXCEPT ![w] = answer[w]]
    /\ UNCHANGED <<disk, queue, mounted, answer, choices, apart>>

PreferencesNext ==
    \/ \E w \in Widgets \ {"theme"} : MountWidget(w) \/ UnmountWidget(w)
    \/ \E w \in Widgets : Restore(w) \/ \E v \in Values(KeyOf(w)) : Choose(w, v)
    \/ \E k \in Keys : StorageRuns(k) \/ StorageFails(k)

PreferencesSpec == PreferencesInit /\ [][PreferencesNext]_preferences

-----------------------------------------------------------------------------
(* Properties *)

Saved(k) == IF disk[k] = Unsaved THEN Default[k] ELSE disk[k]

\* Once its read was handled and storage is idle, a widget shows what a restart
\* would restore, except for what the code gives up: a choice made before the read
\* was answered, a choice on another board, a failure of storage.
PreferencesKept ==
    \A w \in restored \ apart : queue[KeyOf(w)] = <<>> => shown[w] = Saved(KeyOf(w))
=============================================================================
