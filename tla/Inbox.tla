--------------------------------- MODULE Inbox ---------------------------------
(***************************************************************************)
(* The notification inbox of a signed-in client (NotificationContext.tsx and *)
(* NotificationsPanel.tsx): polls that replace the whole list, optimistic    *)
(* marks, and what a failed mark does to the list.  The provider is mounted  *)
(* only while somebody is signed in, so a sign-out is simply its end.        *)
(***************************************************************************)
EXTENDS Naturals, Sequences, FiniteSets

CONSTANTS
    Notes,     \* notifications
    Slots,     \* bound: polls in flight at once
    NoAnswer,  \* no rows: the slot is free, the tap keeps no copy
    MaxTaps,   \* bound: times the user marks one or all
    MaxFails   \* bound: requests that fail

ASSUME InboxConstants == MaxTaps \in Nat /\ MaxFails \in Nat

VARIABLES
    inbox,   \* notification-service: "none", "unread" or "read" per notification
    listed,  \* the rows of the provider
    polls,   \* per slot, the rows the server answered a poll with
    marks,   \* taps whose requests have not all settled
    taps,    \* taps so far
    fails    \* failures so far

notices == <<inbox, listed, polls, marks, taps, fails>>

Rows == [Notes -> {"none", "unread", "read"}]

InboxInit ==
    /\ inbox \in [Notes -> {"none", "unread"}]
    /\ listed = [n \in Notes |-> "none"]
    /\ polls = [s \in Slots |-> NoAnswer]
    /\ marks = {} /\ taps = 0 /\ fails = 0

\* The worker turns a job into a row.
Deliver(n) ==
    /\ inbox[n] = "none" /\ inbox' = [inbox EXCEPT ![n] = "unread"]
    /\ UNCHANGED <<listed, polls, marks, taps, fails>>

RefreshOnce(s) ==  \* mutant: no interval, only the poll of the mount
    /\ polls[s] = NoAnswer /\ \A n \in Notes : listed[n] = "none"
    /\ polls' = [polls EXCEPT ![s] = inbox]
    /\ UNCHANGED <<inbox, listed, marks, taps, fails>>

\* Mounting, every minute, coming to the foreground and opening the panel all
\* ask for the list; the server reads the rows.
Refresh(s) ==
    /\ polls[s] = NoAnswer
    /\ polls' = [polls EXCEPT ![s] = inbox]
    /\ UNCHANGED <<inbox, listed, marks, taps, fails>>

\* The answer replaces every row, newer marks included.
RefreshLands(s) ==
    /\ polls[s] # NoAnswer
    /\ listed' = polls[s] /\ polls' = [polls EXCEPT ![s] = NoAnswer]
    /\ UNCHANGED <<inbox, marks, taps, fails>>

Failure == fails < MaxFails /\ fails' = fails + 1

RefreshFails(s) ==
    /\ Failure /\ polls[s] # NoAnswer
    /\ polls' = [polls EXCEPT ![s] = NoAnswer]
    /\ UNCHANGED <<inbox, listed, marks, taps>>

Tap(all, of) ==
    /\ taps < MaxTaps /\ taps' = taps + 1
    /\ marks' = marks \cup {[tap |-> taps + 1, all |-> all, of |-> of,
                             previous |-> IF all THEN NoAnswer ELSE listed,
                             settled |-> {}, failed |-> {}]}
    /\ listed' = [n \in Notes |-> IF n \in of THEN "read" ELSE listed[n]]
    /\ UNCHANGED <<inbox, polls, fails>>

Unread == {n \in Notes : listed[n] = "unread"}

\* The row's button, or following an unread row to its board.
MarkRead(n) == n \in Unread /\ Tap(FALSE, {n})

\* No bulk endpoint: one request for each unread row.
MarkAllRead == Unread # {} /\ Tap(TRUE, Unread)

\* What a tap whose requests have all settled does to the list.  A single mark
\* that failed puts back the rows as they were at the tap; after "mark all" only
\* the failed ones turn unread.
RolledBack(m, failed) ==
    CASE failed = {} -> listed
      [] failed # {} /\ ~m.all -> m.previous
      [] OTHER -> [n \in Notes |-> IF n \in failed /\ listed[n] # "none" THEN "unread" ELSE listed[n]]

\* One request of a tap is over.
Settle(m, n, failed) ==
    /\ n \in m.of \ m.settled
    /\ IF m.settled \cup {n} = m.of
       THEN marks' = marks \ {m} /\ listed' = RolledBack(m, failed)
       ELSE /\ marks' = (marks \ {m}) \cup {[m EXCEPT !.settled = @ \cup {n}, !.failed = failed]}
            /\ UNCHANGED listed

MarkAnswered(m, n) ==
    /\ Settle(m, n, m.failed)
    /\ inbox' = [inbox EXCEPT ![n] = "read"]
    /\ UNCHANGED <<polls, taps, fails>>

\* The request, or only its answer, is lost.
MarkFails(m, n) ==
    /\ Failure /\ Settle(m, n, m.failed \cup {n})
    /\ inbox' \in {inbox, [inbox EXCEPT ![n] = "read"]}
    /\ UNCHANGED <<polls, taps>>

MarkStep == \E m \in marks : \E n \in m.of : MarkAnswered(m, n) \/ MarkFails(m, n)

InboxNext ==
    \/ MarkAllRead \/ MarkStep
    \/ \E n \in Notes : Deliver(n) \/ MarkRead(n)
    \/ \E s \in Slots : Refresh(s) \/ RefreshLands(s) \/ RefreshFails(s)

-----------------------------------------------------------------------------
(* Properties *)

\* However marks, rollbacks and late polls interleave, the list of a client whose
\* user stops tapping ends up, for good, as the server has it.
InboxConverges == <>[](listed = inbox)
=============================================================================
