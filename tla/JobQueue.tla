------------------------------ MODULE JobQueue ------------------------------
(***************************************************************************)
(* The mention pipeline: workspace-service enqueues a job on RabbitMQ        *)
(* (_emit, JobPublisher.publish), a JobConsumer of notification-service      *)
(* takes it, process_mention writes one inbox row per assignee, and the      *)
(* consumer acknowledges it, retries it with a backoff, or lets the broker   *)
(* dead-letter it (services/common/collaberry_common/queue.py).              *)
(*                                                                         *)
(* A message is the job with its attempts header.  The broker may hand out   *)
(* ready messages in any order.  A delivery is one run of on_message; the    *)
(* callbacks of a consumer run concurrently, up to the prefetch.  When the   *)
(* connection drops the broker takes the unacknowledged messages back but    *)
(* the callbacks run on.  Their acknowledgement is not confirmed: it raises  *)
(* if the client has seen the drop, and otherwise is lost unseen; the        *)
(* callback then goes on beside the redelivery, and the job is `doubled'.    *)
(* Copies of a doubled job with the same header, and callbacks that handle   *)
(* such copies alike, count as one: no property below tells them apart.      *)
(***************************************************************************)
EXTENDS Integers, FiniteSets

CONSTANTS
    Jobs,
    Users,
    Mentioned,    \* per job, the assignees other than the actor
    Malformed,    \* jobs whose body does not parse
    Workers,      \* consumer processes
    MaxRetries,   \* settings.amqp_max_retries
    Prefetch,     \* settings.amqp_prefetch
    MaxFaults,    \* bound: crashes and connection losses in a behaviour
    SafeBackoff   \* TRUE: no fault strikes a job between its ack and its republish

ASSUME QueueConstants ==
    /\ Mentioned \in [Jobs -> SUBSET Users]
    /\ Malformed \subseteq Jobs
    /\ MaxRetries \in Nat /\ Prefetch \in Nat /\ MaxFaults \in Nat
    /\ SafeBackoff \in BOOLEAN

VARIABLES
    sent,        \* jobs the broker has accepted
    ready,       \* messages in jobs.notify
    deliveries,  \* on_message callbacks in progress
    deadQueue,   \* messages in jobs.notify.dead
    inbox,       \* rows per user and job in the notifications collection
    served,      \* history: jobs acknowledged after their handler returned
    doubled,     \* history: jobs retried by a callback whose ack was lost unseen
    faults

vars == <<sent, ready, deliveries, deadQueue, inbox, served, doubled, faults>>

Messages == [job : Jobs, attempts : 0..MaxRetries]

\* `held': the broker still counts the message as unacknowledged by this
\* callback.  `todo': mentioned users process_mention has not yet written to.
\* `born' (the faults seen so far) tells a redelivery from the callback it
\* repeats.
Deliveries == [worker : Workers, msg : Messages, todo : SUBSET Users,
               step : {"handling", "backoff"}, held : BOOLEAN,
               born : 0..MaxFaults]

TypeOK ==
    /\ sent \subseteq Jobs
    /\ ready \subseteq Messages
    /\ deliveries \subseteq Deliveries
    /\ deadQueue \subseteq Messages
    /\ inbox \in [Users -> [Jobs -> Nat]]
    /\ served \subseteq Jobs
    /\ doubled \subseteq Jobs
    /\ faults \in 0..MaxFaults

Init ==
    /\ sent = {} /\ ready = {} /\ deliveries = {} /\ deadQueue = {}
    /\ inbox = [u \in Users |-> [j \in Jobs |-> 0]]
    /\ served = {} /\ doubled = {}
    /\ faults = 0

Replace(d, e) == deliveries' = (deliveries \ {d}) \cup {e}
Finish(d) == deliveries' = deliveries \ {d}
Held(w) == {d \in deliveries : d.worker = w /\ d.held}

\* _emit enqueues a mention when somebody other than the actor is assigned.  A
\* publish that fails is logged and the job never exists.
Enqueue(j) ==
    /\ j \notin sent
    /\ sent' = sent \cup {j}
    /\ ready' = ready \cup {[job |-> j, attempts |-> 0]}
    /\ UNCHANGED <<deliveries, deadQueue, inbox, served, doubled, faults>>

DeliverAutoAck(w, m) ==  \* mutant: consumed with no_ack
    /\ m \in ready
    /\ ready' = ready \ {m}
    /\ deliveries' = deliveries \cup
           {[worker |-> w, msg |-> m, todo |-> Mentioned[m.job],
             step |-> "handling", held |-> FALSE, born |-> faults]}
    /\ UNCHANGED <<sent, deadQueue, inbox, served, doubled, faults>>

Deliver(w, m) ==
    /\ m \in ready
    /\ Cardinality(Held(w)) < Prefetch
    /\ ready' = ready \ {m}
    /\ IF m.job \in Malformed
       THEN deadQueue' = deadQueue \cup {m} /\ UNCHANGED deliveries
       ELSE /\ deliveries' = deliveries \cup
                  {[worker |-> w, msg |-> m, todo |-> Mentioned[m.job],
                    step |-> "handling", held |-> TRUE, born |-> faults]}
            /\ UNCHANGED deadQueue
    /\ UNCHANGED <<sent, inbox, served, doubled, faults>>

\* repo.add for one mentioned user.
Notify(d, u) ==
    /\ d.step = "handling" /\ u \in d.todo
    /\ inbox' = [inbox EXCEPT ![u][d.msg.job] = @ + 1]
    /\ Replace(d, [d EXCEPT !.todo = @ \ {u}])
    /\ UNCHANGED <<sent, ready, deadQueue, served, doubled, faults>>

AckFirst(d) ==  \* mutant: acknowledged before the handler is done
    /\ d.step = "handling"
    /\ Finish(d)
    /\ served' = IF d.held THEN served \cup {d.msg.job} ELSE served
    /\ UNCHANGED <<sent, ready, deadQueue, inbox, doubled, faults>>

\* The handler returned: message.ack(), in vain if the broker took it back.
Ack(d) ==
    /\ d.step = "handling" /\ d.todo = {}
    /\ Finish(d)
    /\ served' = IF d.held THEN served \cup {d.msg.job} ELSE served
    /\ UNCHANGED <<sent, ready, deadQueue, inbox, doubled, faults>>

FailSwallowed(d) ==  \* mutant: the exception is logged and the message acked
    /\ d.step = "handling"
    /\ Finish(d)
    /\ UNCHANGED <<sent, ready, deadQueue, inbox, served, doubled, faults>>

FailRequeues(d) ==  \* mutant: nack(requeue=True) before the republish
    /\ d.step = "handling" /\ d.held /\ d.msg.attempts < MaxRetries
    /\ Replace(d, [d EXCEPT !.step = "backoff", !.held = FALSE, !.todo = {}])
    /\ ready' = ready \cup {d.msg}
    /\ UNCHANGED <<sent, deadQueue, inbox, served, doubled, faults>>

\* The handler raised, at any point of its writes: an insert may have been
\* applied although its call failed.  An ack or reject of a message the broker
\* took back ends the callback if it raises; a lost ack does not (queue.py:214),
\* and the retry goes on.
HandlerFails(d) ==
    /\ d.step = "handling"
    /\ \/ /\ ~d.held
          /\ Finish(d) /\ UNCHANGED <<deadQueue, doubled>>
       \/ /\ d.held /\ d.msg.attempts >= MaxRetries
          /\ deadQueue' = deadQueue \cup {d.msg}
          /\ Finish(d) /\ UNCHANGED doubled
       \/ /\ d.msg.attempts < MaxRetries
          /\ Replace(d, [d EXCEPT !.step = "backoff", !.held = FALSE, !.todo = {}])
          /\ doubled' = IF d.held THEN doubled ELSE doubled \cup {d.msg.job}
          /\ UNCHANGED deadQueue
    /\ UNCHANGED <<sent, ready, inbox, served, faults>>

RepublishSameCount(d) ==  \* mutant: the attempts header is not incremented
    /\ d.step = "backoff"
    /\ Finish(d)
    /\ ready' = ready \cup {d.msg}
    /\ UNCHANGED <<sent, deadQueue, inbox, served, doubled, faults>>

RepublishForgotten(d) ==  \* mutant: the callback returns after the backoff
    /\ d.step = "backoff"
    /\ Finish(d)
    /\ UNCHANGED <<sent, ready, deadQueue, inbox, served, doubled, faults>>

Republish(d) ==
    /\ d.step = "backoff"
    /\ Finish(d)
    /\ ready' = ready \cup {[d.msg EXCEPT !.attempts = @ + 1]}
    /\ UNCHANGED <<sent, deadQueue, inbox, served, doubled, faults>>

\* What the broker takes back from a worker it lost.
Requeued(w) == {d.msg : d \in Held(w)}

\* The process dies: its callbacks end where they stand.
Crash(w) ==
    /\ faults < MaxFaults
    /\ \E d \in deliveries : d.worker = w
    /\ SafeBackoff => \A d \in deliveries : d.worker = w => d.step # "backoff"
    /\ faults' = faults + 1
    /\ ready' = ready \cup Requeued(w)
    /\ deliveries' = {d \in deliveries : d.worker # w}
    /\ UNCHANGED <<sent, deadQueue, inbox, served, doubled>>

\* The connection drops and is re-established by connect_robust.
Disconnect(w) ==
    /\ faults < MaxFaults
    /\ Held(w) # {}
    /\ faults' = faults + 1
    /\ ready' = ready \cup Requeued(w)
    /\ deliveries' = (deliveries \ Held(w)) \cup {[d EXCEPT !.held = FALSE] : d \in Held(w)}
    /\ UNCHANGED <<sent, deadQueue, inbox, served, doubled>>

Handle(d) == (\E u \in Users : Notify(d, u)) \/ Ack(d) \/ HandlerFails(d) \/ Republish(d)

Next ==
    \/ \E j \in Jobs : Enqueue(j)
    \/ \E w \in Workers, m \in ready : Deliver(w, m)
    \/ \E d \in deliveries : Handle(d)
    \/ \E w \in Workers : Crash(w) \/ Disconnect(w)

Spec == Init /\ [][Next]_vars

\* Consumers keep consuming and callbacks keep running; nothing obliges
\* workspace-service to enqueue, or a fault to happen.
FairSpec ==
    /\ Spec
    /\ WF_vars(\E w \in Workers, m \in ready : Deliver(w, m))
    /\ WF_vars(\E d \in deliveries : Handle(d))

-----------------------------------------------------------------------------
\* Every place a job can be on its way: at most one message may stand for it.
Waiting(j) == {m \in ready : m.job = j}
Running(j) == {d \in deliveries : d.msg.job = j /\ (d.held \/ d.step = "backoff")}
Buried(j) == {m \in deadQueue : m.job = j}

Open == {j \in Jobs : Waiting(j) # {} \/ Running(j) # {}}

(* A job is never in two places unless an ack of it was lost unseen:        *)
(* retries, crashes and redeliveries do not multiply it, and a job that was *)
(* served or buried does not come back.                                     *)
OneCopy ==
    \A j \in Jobs \ doubled :
        Cardinality(Waiting(j)) + Cardinality(Running(j)) + Cardinality(Buried(j))
            + (IF j \in served THEN 1 ELSE 0) <= 1

(* queue.py:153 "A handler that raises does *not* lose the message": an     *)
(* accepted job that was not served is still somewhere.                     *)
NotLost == sent \subseteq served \cup Open \cup {m.job : m \in deadQueue}

(* An acknowledged mention has reached the inbox of everyone it mentions.   *)
ServedIsNotified == \A j \in served : \A u \in Mentioned[j] : inbox[u][j] > 0

(* queue.py:154 only a job that exhausted its retries, or cannot be parsed, *)
(* is dead-lettered, and no user gets more rows of it than it had           *)
(* deliveries: an attempt each and one per fault, unless it was doubled.    *)
RetriesBounded ==
    /\ \A m \in deadQueue : m.job \in Malformed \/ m.attempts = MaxRetries
    /\ \A u \in Users, j \in Jobs \ doubled : inbox[u][j] <= MaxRetries + 1 + faults

\* A copy that outlives the end of a doubled job is nothing the ledger owes.
Ledger == INSTANCE JobLedger
    WITH open <- Open \ (served \cup {m.job : m \in deadQueue}),
         dead <- {m.job : m \in deadQueue},
         notified <- {j \in Jobs : \A u \in Mentioned[j] : inbox[u][j] > 0}

(* The pipeline implements the ledger of JobLedger.                         *)
ImplementsLedger == Ledger!Spec

(* Every accepted job is settled: served, or put aside for inspection.      *)
EveryJobSettles ==
    \A j \in Jobs : j \in sent ~> j \in served \/ Buried(j) # {}
=============================================================================
