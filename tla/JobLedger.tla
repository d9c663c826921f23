----------------------------- MODULE JobLedger -----------------------------
(***************************************************************************)
(* What the durable queue promises of a mention (the opening comment of     *)
(* services/common/collaberry_common/queue.py): "work that must actually    *)
(* happen".  Once enqueued a job stays open, whatever crashes, until it is   *)
(* served, and then it has been handled to the end, or put aside in the      *)
(* dead-letter queue; either is for good.  Only a job that an unseen loss     *)
(* doubled can end a second time.  JobQueue implements this ledger.          *)
(***************************************************************************)
CONSTANT Jobs

VARIABLES open, served, dead,
          doubled,  \* jobs with a copy too many
          notified  \* jobs whose every mentioned user has an inbox row

vars == <<open, served, dead, doubled, notified>>

Init ==
    /\ open = {} /\ served = {} /\ dead = {} /\ doubled = {}
    /\ notified \subseteq Jobs

Enqueue(j) ==
    /\ j \notin open \cup served \cup dead
    /\ open' = open \cup {j}
    /\ UNCHANGED <<served, dead, doubled, notified>>

Write(j) ==
    /\ notified' = notified \cup {j}
    /\ UNCHANGED <<open, served, dead, doubled>>

Double(j) ==
    /\ j \in open \cup served \cup dead
    /\ doubled' = doubled \cup {j}
    /\ UNCHANGED <<open, served, dead, notified>>

Serve(j) ==
    /\ j \in (open \cup doubled) \cap notified
    /\ open' = open \ {j}
    /\ served' = served \cup {j}
    /\ UNCHANGED <<dead, doubled, notified>>

Bury(j) ==
    /\ j \in open \cup doubled
    /\ open' = open \ {j}
    /\ dead' = dead \cup {j}
    /\ UNCHANGED <<served, doubled, notified>>

Next == \E j \in Jobs : Enqueue(j) \/ Write(j) \/ Double(j) \/ Serve(j) \/ Bury(j)

Spec == Init /\ [][Next]_vars
=============================================================================
