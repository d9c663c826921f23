--------------------------- MODULE JobQueueProofs ---------------------------
(***************************************************************************)
(* Proofs about JobQueue for any jobs, users, consumers, retries, prefetch   *)
(* and faults: its type correctness, that an acknowledged job has notified   *)
(* everyone, that only exhausted jobs are dead-lettered, that a job is in    *)
(* one place at most and the retries write so many rows of it unless an ack  *)
(* of it was lost unseen, and, when no fault strikes during a backoff, that  *)
(* no job is lost and the pipeline implements the JobLedger.                 *)
(***************************************************************************)
EXTENDS JobQueue, FiniteSetTheorems, TLAPS

\* A callback that still answers for its message.
Live(d) == d.held \/ d.step = "backoff"

\* A callback in its backoff has given its message up, and has a retry left.
BackoffReleased ==
    \A d \in deliveries : d.step = "backoff" => ~d.held /\ d.msg.attempts < MaxRetries

Typed == TypeOK /\ BackoffReleased

\* Nothing is on its way that was not sent.
AllSent ==
    /\ served \cup doubled \subseteq sent
    /\ \A m \in ready \cup deadQueue : m.job \in sent
    /\ \A d \in deliveries : d.msg.job \in sent

\* Whatever stands for a job that was not doubled stands for an unserved one.
OnlyUnserved ==
    /\ \A m \in ready \cup deadQueue : m.job \notin served \ doubled
    /\ \A d \in deliveries : Live(d) => d.msg.job \notin served \ doubled

\* One message, one live callback or one dead letter stands for a job that was
\* not doubled, and not two of them.
OnePlace ==
    /\ \A m, n \in ready \cup deadQueue : m.job = n.job => m = n \/ m.job \in doubled
    /\ \A m \in ready, n \in deadQueue : m.job # n.job \/ m.job \in doubled
    /\ \A d, e \in deliveries :
         Live(d) /\ Live(e) /\ d.msg.job = e.msg.job => d = e \/ d.msg.job \in doubled
    /\ \A m \in ready \cup deadQueue, d \in deliveries :
         Live(d) => m.job # d.msg.job \/ m.job \in doubled

Unique == AllSent /\ OnlyUnserved /\ OnePlace

\* A running handler has written the rows of the users it has dealt with.
HandledHaveRows ==
    \A d \in deliveries : d.step = "handling" =>
        \A u \in Mentioned[d.msg.job] \ d.todo : inbox[u][d.msg.job] > 0

Rows == HandledHaveRows /\ ServedIsNotified

USE QueueConstants

-----------------------------------------------------------------------------
LEMMA InitTyped == Init => Typed
  BY DEF Init, Typed, TypeOK, BackoffReleased

LEMMA StepTyped == Typed /\ [Next]_vars => Typed'
<1> SUFFICES ASSUME Typed, [Next]_vars PROVE Typed'
  OBVIOUS
<1> USE DEF Typed, TypeOK, BackoffReleased
<1>1. ASSUME NEW j \in Jobs, Enqueue(j) PROVE Typed'
  BY <1>1 DEF Enqueue, Messages
<1>2. ASSUME NEW w \in Workers, NEW m \in ready, Deliver(w, m) PROVE Typed'
  <2>1. CASE m.job \in Malformed
    BY <1>2, <2>1 DEF Deliver
  <2>2. CASE m.job \notin Malformed
    <3> DEFINE new == [worker |-> w, msg |-> m, todo |-> Mentioned[m.job],
                       step |-> "handling", held |-> TRUE, born |-> faults]
    <3>1. m \in Messages /\ Mentioned[m.job] \in SUBSET Users
      BY DEF Messages
    <3>2. new \in Deliveries
      BY <3>1 DEF Deliveries
    <3>3. deliveries' = deliveries \cup {new} /\ ready' \subseteq ready
      BY <1>2, <2>2 DEF Deliver
    <3>4. new.step # "backoff"
      OBVIOUS
    <3>5. BackoffReleased'
      <4> HIDE DEF new
      <4> QED
        BY <3>3, <3>4
    <3>6. deliveries' \subseteq Deliveries
      <4> HIDE DEF new
      <4> QED
        BY <3>2, <3>3
    <3>7. QED
      BY <1>2, <2>2, <3>3, <3>5, <3>6 DEF Deliver
  <2>3. QED
    BY <2>1, <2>2
<1>3. ASSUME NEW d \in deliveries, NEW u \in Users, Notify(d, u) PROVE Typed'
  <2>1. d.msg.job \in Jobs /\ [d EXCEPT !.todo = @ \ {u}] \in Deliveries
    BY DEF Deliveries, Messages
  <2>2. deliveries' \subseteq Deliveries /\ BackoffReleased'
    BY <1>3, <2>1 DEF Notify, Replace, Deliveries
  <2>3. inbox' \in [Users -> [Jobs -> Nat]]
    BY <1>3, <2>1 DEF Notify
  <2>4. QED
    BY <1>3, <2>2, <2>3 DEF Notify
<1>4. ASSUME NEW d \in deliveries, Ack(d) PROVE Typed'
  BY <1>4 DEF Ack, Finish, Deliveries, Messages
<1>5. ASSUME NEW d \in deliveries, HandlerFails(d) PROVE Typed'
  <2>1. [d EXCEPT !.step = "backoff", !.held = FALSE, !.todo = {}] \in Deliveries
    BY DEF Deliveries
  <2>2. d.msg \in Messages /\ d.msg.job \in Jobs
    BY DEF Deliveries, Messages
  <2>3. deliveries' \subseteq Deliveries /\ BackoffReleased'
    BY <1>5, <2>1 DEF HandlerFails, Finish, Replace, Deliveries
  <2>4. deadQueue' \subseteq Messages /\ doubled' \subseteq Jobs
    BY <1>5, <2>2 DEF HandlerFails
  <2>5. QED
    BY <1>5, <2>3, <2>4 DEF HandlerFails
<1>6. ASSUME NEW d \in deliveries, Republish(d) PROVE Typed'
  <2>1. d.msg \in Messages /\ d.msg.attempts < MaxRetries
    BY <1>6 DEF Republish, Deliveries
  <2>2. [d.msg EXCEPT !.attempts = @ + 1] \in Messages
    BY <2>1 DEF Messages
  <2>3. QED
    BY <1>6, <2>2 DEF Republish, Finish
<1>7. ASSUME NEW w \in Workers, Crash(w) PROVE Typed'
  BY <1>7 DEF Crash, Requeued, Held, Deliveries
<1>8. ASSUME NEW w \in Workers, Disconnect(w) PROVE Typed'
  <2>1. \A d \in Held(w) : d \in Deliveries /\ [d EXCEPT !.held = FALSE] \in Deliveries
    BY DEF Held, Deliveries
  <2>2. Requeued(w) \subseteq Messages
    BY DEF Requeued, Held, Deliveries
  <2>3. BackoffReleased'
    BY <1>8, <2>1 DEF Disconnect, Held, Deliveries
  <2>4. deliveries' \subseteq Deliveries
    BY <1>8, <2>1 DEF Disconnect
  <2>5. QED
    BY <1>8, <2>2, <2>3, <2>4 DEF Disconnect
<1>9. CASE UNCHANGED vars
  BY <1>9 DEF vars
<1>10. QED
  BY <1>1, <1>2, <1>3, <1>4, <1>5, <1>6, <1>7, <1>8, <1>9 DEF Next, Handle

(* Every variable keeps its type; the attempts header never passes the       *)
(* limit, because only a job that has a retry left is republished.           *)
THEOREM Typing == Spec => []TypeOK
<1>1. Typed => TypeOK
  BY DEF Typed
<1>2. QED
  BY <1>1, InitTyped, StepTyped, PTL DEF Spec

-----------------------------------------------------------------------------
\* What the actions that write a delivery make of it, so that the proofs below
\* need not open the record again.
LEMMA Delivered ==
  ASSUME Typed, NEW w \in Workers, NEW m \in ready, Deliver(w, m)
  PROVE  /\ ready' = ready \ {m}
         /\ UNCHANGED <<sent, inbox, served, doubled, faults>>
         /\ \/ /\ deadQueue' = deadQueue \cup {m} /\ deliveries' = deliveries
               /\ m.job \in Malformed
            \/ /\ deadQueue' = deadQueue
               /\ \E e : /\ deliveries' = deliveries \cup {e}
                         /\ e.msg = m /\ e.held /\ e.step = "handling"
                         /\ e.todo = Mentioned[m.job]
<1> DEFINE new == [worker |-> w, msg |-> m, todo |-> Mentioned[m.job],
                   step |-> "handling", held |-> TRUE, born |-> faults]
<1>1. new.msg = m /\ new.held /\ new.step = "handling" /\ new.todo = Mentioned[m.job]
  OBVIOUS
<1>2. CASE m.job \in Malformed
  BY <1>2 DEF Deliver
<1>3. CASE m.job \notin Malformed
  <2>1. deliveries' = deliveries \cup {new} /\ ready' = ready \ {m}
        /\ UNCHANGED <<sent, inbox, served, doubled, faults, deadQueue>>
    BY <1>3 DEF Deliver
  <2> HIDE DEF new
  <2>2. QED
    BY <1>1, <2>1
<1>4. QED
  BY <1>2, <1>3

LEMMA Noted ==
  ASSUME Typed, NEW d \in deliveries, NEW u \in Users, Notify(d, u)
  PROVE  /\ UNCHANGED <<sent, ready, deadQueue, served, doubled, faults>>
         /\ d.step = "handling"
         /\ d.msg.job \in Jobs
         /\ inbox' \in [Users -> [Jobs -> Nat]]
         /\ inbox'[u][d.msg.job] = inbox[u][d.msg.job] + 1
         /\ \A v \in Users, j \in Jobs :
               inbox'[v][j] = IF v = u /\ j = d.msg.job THEN inbox[v][j] + 1 ELSE inbox[v][j]
         /\ \E e : /\ deliveries' = (deliveries \ {d}) \cup {e}
                   /\ e.msg = d.msg /\ e.held = d.held /\ e.step = d.step
                   /\ e.todo = d.todo \ {u}
<1> DEFINE new == [d EXCEPT !.todo = @ \ {u}]
<1>1. d \in Deliveries
  BY DEF Typed, TypeOK
<1>2. new.msg = d.msg /\ new.held = d.held /\ new.step = d.step /\ new.todo = d.todo \ {u}
  BY <1>1 DEF Deliveries
<1>3. deliveries' = (deliveries \ {d}) \cup {new}
  BY DEF Notify, Replace
<1>4. d.msg.job \in Jobs
  BY <1>1 DEF Deliveries, Messages
<1>5. inbox' = [inbox EXCEPT ![u][d.msg.job] = @ + 1]
  BY DEF Notify
<1> HIDE DEF new
<1>6. inbox \in [Users -> [Jobs -> Nat]]
  BY DEF Typed, TypeOK
<1>7. /\ inbox' \in [Users -> [Jobs -> Nat]]
      /\ inbox'[u][d.msg.job] = inbox[u][d.msg.job] + 1
      /\ \A v \in Users, j \in Jobs :
            inbox'[v][j] = IF v = u /\ j = d.msg.job THEN inbox[v][j] + 1 ELSE inbox[v][j]
  BY <1>4, <1>5, <1>6
<1>8. QED
  BY <1>2, <1>3, <1>4, <1>7 DEF Notify

LEMMA Failed ==
  ASSUME Typed, NEW d \in deliveries, HandlerFails(d)
  PROVE  /\ UNCHANGED <<sent, ready, inbox, served, faults>>
         /\ d.step = "handling"
         /\ \/ /\ ~d.held /\ deliveries' = deliveries \ {d}
               /\ UNCHANGED <<deadQueue, doubled>>
            \/ /\ d.held /\ d.msg.attempts = MaxRetries
               /\ deliveries' = deliveries \ {d} /\ deadQueue' = deadQueue \cup {d.msg}
               /\ doubled' = doubled
            \/ /\ d.msg.attempts < MaxRetries /\ deadQueue' = deadQueue
               /\ doubled' = IF d.held THEN doubled ELSE doubled \cup {d.msg.job}
               /\ \E e : /\ deliveries' = (deliveries \ {d}) \cup {e}
                         /\ e.msg = d.msg /\ e.step = "backoff" /\ e.todo = {}
<1> DEFINE new == [d EXCEPT !.step = "backoff", !.held = FALSE, !.todo = {}]
<1>1. d \in Deliveries
  BY DEF Typed, TypeOK
<1>2. new.msg = d.msg /\ new.step = "backoff" /\ new.todo = {}
  BY <1>1 DEF Deliveries
<1>3. d.msg.attempts \in 0..MaxRetries
  BY <1>1 DEF Deliveries, Messages
<1>4. /\ UNCHANGED <<sent, ready, inbox, served, faults>>
      /\ d.step = "handling"
      /\ \/ ~d.held /\ deliveries' = deliveries \ {d} /\ UNCHANGED <<deadQueue, doubled>>
         \/ /\ d.held /\ d.msg.attempts >= MaxRetries /\ doubled' = doubled
            /\ deliveries' = deliveries \ {d} /\ deadQueue' = deadQueue \cup {d.msg}
         \/ /\ d.msg.attempts < MaxRetries /\ deadQueue' = deadQueue
            /\ doubled' = IF d.held THEN doubled ELSE doubled \cup {d.msg.job}
            /\ deliveries' = (deliveries \ {d}) \cup {new}
  BY DEF HandlerFails, Finish, Replace
<1> HIDE DEF new
<1>5. QED
  BY <1>2, <1>3, <1>4

LEMMA Republished ==
  ASSUME Typed, NEW d \in deliveries, Republish(d)
  PROVE  /\ UNCHANGED <<sent, deadQueue, inbox, served, doubled, faults>>
         /\ d.step = "backoff" /\ ~d.held
         /\ deliveries' = deliveries \ {d}
         /\ \E m : /\ ready' = ready \cup {m}
                   /\ m.job = d.msg.job /\ m.attempts = d.msg.attempts + 1
<1> DEFINE new == [d.msg EXCEPT !.attempts = @ + 1]
<1>1. d.msg \in Messages
  BY DEF Typed, TypeOK, Deliveries
<1>2. new.job = d.msg.job /\ new.attempts = d.msg.attempts + 1
  BY <1>1 DEF Messages
<1>3. ready' = ready \cup {new}
  BY DEF Republish
<1> HIDE DEF new
<1>4. QED
  BY <1>2, <1>3 DEF Republish, Finish, Typed, BackoffReleased

LEMMA Dropped ==
  ASSUME Typed, NEW w \in Workers, Crash(w) \/ Disconnect(w)
  PROVE  /\ UNCHANGED <<sent, deadQueue, inbox, served, doubled>>
         /\ ready' = ready \cup Requeued(w)
         /\ \A d \in Held(w) : d.step = "handling" /\ ~(d \in deliveries')
         /\ \A d \in deliveries' : Live(d) => d \in deliveries
         /\ \A d \in deliveries' : d.step = "handling" =>
               \E e \in deliveries : e.step = "handling" /\ e.msg = d.msg /\ e.todo = d.todo
         /\ \A d \in deliveries' : \E e \in deliveries : e.msg = d.msg
<1>1. deliveries \subseteq Deliveries
  BY DEF Typed, TypeOK
<1>2. \A d \in Held(w) : d \in Deliveries /\ d.worker = w /\ d.held /\ d.step = "handling"
  BY <1>1 DEF Held, Typed, BackoffReleased, Deliveries
<1>3. CASE Crash(w)
  BY <1>2, <1>3 DEF Crash, Held
<1>4. CASE Disconnect(w)
  <2> DEFINE Let(d) == [d EXCEPT !.held = FALSE]
  <2>1. \A d \in Held(w) : /\ ~Let(d).held /\ Let(d).step = "handling"
                            /\ Let(d).msg = d.msg /\ Let(d).todo = d.todo
    BY <1>2 DEF Deliveries
  <2>2. deliveries' = (deliveries \ Held(w)) \cup {Let(d) : d \in Held(w)}
    BY <1>4 DEF Disconnect
  <2>3. Held(w) \subseteq deliveries
    BY DEF Held
  <2>4. UNCHANGED <<sent, deadQueue, inbox, served, doubled>> /\ ready' = ready \cup Requeued(w)
    BY <1>4 DEF Disconnect
  <2> HIDE DEF Let
  <2>5. \A d \in Held(w) : ~(d \in deliveries')
    BY <1>2, <2>1, <2>2
  <2>6. \A d \in deliveries' : Live(d) => d \in deliveries
    BY <2>1, <2>2 DEF Live
  <2>7. \A d \in deliveries' : d.step = "handling" =>
          \E e \in deliveries : e.step = "handling" /\ e.msg = d.msg /\ e.todo = d.todo
    BY <1>2, <2>1, <2>2, <2>3
  <2>8. \A d \in deliveries' : \E e \in deliveries : e.msg = d.msg
    BY <2>1, <2>2, <2>3
  <2>9. QED
    BY <1>2, <2>4, <2>5, <2>6, <2>7, <2>8
<1>5. QED
  BY <1>3, <1>4

-----------------------------------------------------------------------------
LEMMA InitUnique == Init => Unique
  BY DEF Init, Unique, AllSent, OnlyUnserved, OnePlace

LEMMA StepUnique == Typed /\ Unique /\ [Next]_vars => Unique'
<1> SUFFICES ASSUME Typed, Unique, [Next]_vars PROVE Unique'
  OBVIOUS
<1> USE DEF Unique, AllSent, OnlyUnserved, OnePlace
<1>1. ASSUME NEW j \in Jobs, Enqueue(j) PROVE Unique'
  <2> DEFINE new == [job |-> j, attempts |-> 0]
  <2>1. new.job = j
    OBVIOUS
  <2>2. /\ j \notin sent /\ sent' = sent \cup {j} /\ ready' = ready \cup {new}
        /\ UNCHANGED <<deliveries, deadQueue, inbox, served, doubled, faults>>
    BY <1>1 DEF Enqueue
  <2> HIDE DEF new
  <2>3. QED
    BY <2>1, <2>2
<1>2. ASSUME NEW w \in Workers, NEW m \in ready, Deliver(w, m) PROVE Unique'
  <2>1. CASE deadQueue' = deadQueue \cup {m} /\ deliveries' = deliveries
    BY <1>2, <2>1, Delivered
  <2>2. CASE deadQueue' = deadQueue
             /\ \E e : deliveries' = deliveries \cup {e} /\ e.msg = m
    BY <1>2, <2>2, Delivered
  <2>3. QED
    BY <1>2, <2>1, <2>2, Delivered
<1>3. ASSUME NEW d \in deliveries, NEW u \in Users, Notify(d, u) PROVE Unique'
  BY <1>3, Noted DEF Live
<1>4. ASSUME NEW d \in deliveries, Ack(d) PROVE Unique'
  <2>1. CASE d.held
    BY <1>4, <2>1 DEF Ack, Finish, Live
  <2>2. CASE ~d.held
    BY <1>4, <2>2 DEF Ack, Finish
  <2>3. QED
    BY <2>1, <2>2
<1>5. ASSUME NEW d \in deliveries, HandlerFails(d) PROVE Unique'
  <2>1. CASE d.held
    BY <1>5, <2>1, Failed DEF Live
  <2>2. CASE ~d.held
    BY <1>5, <2>2, Failed DEF Live
  <2>3. QED
    BY <2>1, <2>2
<1>6. ASSUME NEW d \in deliveries, Republish(d) PROVE Unique'
  BY <1>6, Republished DEF Live
<1>7. ASSUME NEW w \in Workers, Crash(w) \/ Disconnect(w) PROVE Unique'
  <2>1. \A d \in Held(w) : Live(d) /\ d \in deliveries
    BY DEF Held, Live
  <2>2. \A m \in Requeued(w) : \E d \in Held(w) : m = d.msg
    BY DEF Requeued
  <2>3. AllSent'
    BY <1>7, <2>1, <2>2, Dropped
  <2>4. OnlyUnserved' /\ OnePlace'
    BY <1>7, <2>1, <2>2, Dropped
  <2>5. QED
    BY <2>3, <2>4
<1>8. CASE UNCHANGED vars
  BY <1>8 DEF vars
<1>9. QED
  BY <1>1, <1>2, <1>3, <1>4, <1>5, <1>6, <1>7, <1>8 DEF Next, Handle

(* A retry, a crash or a redelivery leaves two of a job only after an ack of  *)
(* it was lost unseen.                                                       *)
THEOREM JobsStaySingle == Spec => []OneCopy
<1>1. Typed /\ Unique => OneCopy
  <2> SUFFICES ASSUME Typed, Unique, NEW j \in Jobs, j \notin doubled
               PROVE  Cardinality(Waiting(j)) + Cardinality(Running(j)) + Cardinality(Buried(j))
                        + (IF j \in served THEN 1 ELSE 0) <= 1
    BY DEF OneCopy
  <2> USE DEF Unique, OnlyUnserved, OnePlace
  <2>1. Waiting(j) = {} \/ \E x : Waiting(j) = {x}
    BY DEF Waiting
  <2>2. Running(j) = {} \/ \E x : Running(j) = {x}
    BY DEF Running, Live
  <2>3. Buried(j) = {} \/ \E x : Buried(j) = {x}
    BY DEF Buried
  <2>4. j \in served => Waiting(j) = {} /\ Running(j) = {} /\ Buried(j) = {}
    BY DEF Waiting, Running, Buried, Live
  <2>5. Waiting(j) # {} => Running(j) = {} /\ Buried(j) = {}
    BY DEF Waiting, Running, Buried, Live
  <2>6. Running(j) # {} => Buried(j) = {}
    BY DEF Running, Buried, Live
  <2>7. Cardinality({}) = 0 /\ \A x : Cardinality({x}) = 1
    BY FS_EmptySet, FS_Singleton
  <2>8. /\ Cardinality(Waiting(j)) = IF Waiting(j) = {} THEN 0 ELSE 1
        /\ Cardinality(Running(j)) = IF Running(j) = {} THEN 0 ELSE 1
        /\ Cardinality(Buried(j)) = IF Buried(j) = {} THEN 0 ELSE 1
    BY <2>1, <2>2, <2>3, <2>7
  <2>9. QED
    BY <2>4, <2>5, <2>6, <2>8
<1>2. QED
  BY <1>1, InitTyped, StepTyped, InitUnique, StepUnique, PTL DEF Spec

-----------------------------------------------------------------------------
LEMMA InitRows == Init => Rows
  BY DEF Init, Rows, HandledHaveRows, ServedIsNotified

LEMMA StepRows == Typed /\ Rows /\ [Next]_vars => Rows'
<1> SUFFICES ASSUME Typed, Rows, [Next]_vars PROVE Rows'
  OBVIOUS
<1> USE DEF Rows, HandledHaveRows, ServedIsNotified
<1>0. /\ inbox \in [Users -> [Jobs -> Nat]] /\ served \subseteq Jobs
      /\ \A d \in deliveries : d.msg.job \in Jobs
      /\ \A j \in Jobs : Mentioned[j] \subseteq Users
  BY DEF Typed, TypeOK, Deliveries, Messages
<1>1. ASSUME NEW j \in Jobs, Enqueue(j) PROVE Rows'
  BY <1>1 DEF Enqueue
<1>2. ASSUME NEW w \in Workers, NEW m \in ready, Deliver(w, m) PROVE Rows'
  BY <1>2, Delivered
<1>3. ASSUME NEW d \in deliveries, NEW u \in Users, Notify(d, u) PROVE Rows'
  <2>1. PICK e : /\ deliveries' = (deliveries \ {d}) \cup {e}
                 /\ e.msg = d.msg /\ e.step = d.step /\ e.todo = d.todo \ {u}
    BY <1>3, Noted
  <2>2. \A v \in Users, j \in Jobs : inbox[v][j] > 0 => inbox'[v][j] > 0
    BY <1>0, <1>3, Noted
  <2>3. inbox'[u][d.msg.job] > 0
    BY <1>0, <1>3, Noted
  <2>4. ServedIsNotified'
    BY <1>0, <1>3, <2>2, Noted
  <2>5. ASSUME NEW f \in deliveries', f.step = "handling", NEW v \in Mentioned[f.msg.job] \ f.todo
        PROVE  inbox'[v][f.msg.job] > 0
    BY <1>0, <1>3, <2>1, <2>2, <2>3, <2>5, Noted
  <2>6. QED
    BY <2>4, <2>5, <1>3 DEF Notify
<1>4. ASSUME NEW d \in deliveries, Ack(d) PROVE Rows'
  BY <1>0, <1>4 DEF Ack, Finish
<1>5. ASSUME NEW d \in deliveries, HandlerFails(d) PROVE Rows'
  BY <1>5, Failed
<1>6. ASSUME NEW d \in deliveries, Republish(d) PROVE Rows'
  BY <1>6, Republished
<1>7. ASSUME NEW w \in Workers, Crash(w) \/ Disconnect(w) PROVE Rows'
  BY <1>7, Dropped
<1>8. CASE UNCHANGED vars
  BY <1>8 DEF vars
<1>9. QED
  BY <1>1, <1>2, <1>3, <1>4, <1>5, <1>6, <1>7, <1>8 DEF Next, Handle

(* A mention that was acknowledged is in everyone's inbox, whatever failed,   *)
(* crashed or was delivered twice before.                                    *)
THEOREM ServedJobsAreNotified == Spec => []ServedIsNotified
<1>1. Rows => ServedIsNotified
  BY DEF Rows
<1>2. QED
  BY <1>1, InitTyped, StepTyped, InitRows, StepRows, PTL DEF Spec

-----------------------------------------------------------------------------
\* When the backoff is safe, whatever a worker loses the broker has back.
LEMMA DroppedStaysOpen ==
  ASSUME Typed, SafeBackoff, NEW w \in Workers, Crash(w) \/ Disconnect(w)
  PROVE  Open' = Open
<1>1. \A d \in deliveries : Live(d) /\ d \notin Held(w) => d \in deliveries'
  <2>1. CASE Crash(w)
    BY <2>1 DEF Crash, Held, Live, Typed, TypeOK, Deliveries
  <2>2. CASE Disconnect(w)
    BY <2>2 DEF Disconnect
  <2>3. QED
    BY <2>1, <2>2
<1>2. Requeued(w) = {d.msg : d \in Held(w)} /\ Held(w) \subseteq deliveries
      /\ \A d \in Held(w) : Live(d)
  BY DEF Requeued, Held, Live
<1>3. ASSUME NEW j \in Jobs, j \in Open PROVE j \in Open'
  <2>1. CASE \E m \in ready : m.job = j
    BY <2>1, Dropped DEF Open, Waiting
  <2>2. CASE \E d \in deliveries : Live(d) /\ d.msg.job = j
    <3>1. PICK d \in deliveries : Live(d) /\ d.msg.job = j
      BY <2>2
    <3>2. CASE d \in Held(w)
      <4>1. d.msg \in ready' /\ d.msg.job = j
        BY <1>2, <3>1, <3>2, Dropped
      <4>2. QED
        BY <4>1 DEF Open, Waiting
    <3>3. CASE d \notin Held(w)
      BY <1>1, <3>1, <3>3 DEF Open, Running, Live
    <3>4. QED
      BY <3>2, <3>3
  <2>3. QED
    BY <1>3, <2>1, <2>2 DEF Open, Waiting, Running, Live
<1>4. ASSUME NEW j \in Jobs, j \in Open' PROVE j \in Open
  <2>1. CASE \E m \in ready' : m.job = j
    BY <1>2, <2>1, Dropped DEF Open, Waiting, Running, Live
  <2>2. CASE \E d \in deliveries' : Live(d) /\ d.msg.job = j
    BY <2>2, Dropped DEF Open, Running, Live
  <2>3. QED
    BY <1>4, <2>1, <2>2 DEF Open, Waiting, Running, Live
<1>5. QED
  BY <1>3, <1>4 DEF Open

LEMMA InitNotLost == Init => NotLost
  BY DEF Init, NotLost

LEMMA StepNotLost == SafeBackoff /\ Typed /\ Typed' /\ NotLost /\ [Next]_vars => NotLost'
<1> SUFFICES ASSUME SafeBackoff, Typed, Typed', NotLost, [Next]_vars PROVE NotLost'
  OBVIOUS
<1>1. /\ sent \subseteq Jobs /\ \A m \in ready \cup deadQueue : m.job \in Jobs
      /\ \A d \in deliveries : d.msg.job \in Jobs
  BY DEF Typed, TypeOK, Deliveries, Messages
<1>2. Open = {j \in Jobs : (\E m \in ready : m.job = j)
                           \/ \E d \in deliveries : Live(d) /\ d.msg.job = j}
  BY DEF Open, Waiting, Running, Live
<1>3. Open' = {j \in Jobs : (\E m \in ready' : m.job = j)
                            \/ \E d \in deliveries' : Live(d) /\ d.msg.job = j}
  BY DEF Open, Waiting, Running, Live
<1> USE DEF NotLost
<1>4. ASSUME NEW j \in Jobs, Enqueue(j) PROVE NotLost'
  <2> DEFINE new == [job |-> j, attempts |-> 0]
  <2>1. new.job = j
    OBVIOUS
  <2>2. sent' = sent \cup {j} /\ ready' = ready \cup {new}
        /\ UNCHANGED <<deliveries, deadQueue, served>>
    BY <1>4 DEF Enqueue
  <2> HIDE DEF new
  <2>3. QED
    BY <1>1, <1>2, <1>3, <2>1, <2>2
<1>5. ASSUME NEW w \in Workers, NEW m \in ready, Deliver(w, m) PROVE NotLost'
  BY <1>1, <1>2, <1>3, <1>5, Delivered DEF Live
<1>6. ASSUME NEW d \in deliveries, NEW u \in Users, Notify(d, u) PROVE NotLost'
  BY <1>1, <1>2, <1>3, <1>6, Noted DEF Live
<1>7. ASSUME NEW d \in deliveries, Ack(d) PROVE NotLost'
  BY <1>1, <1>2, <1>3, <1>7 DEF Ack, Finish, Live
<1>8. ASSUME NEW d \in deliveries, HandlerFails(d) PROVE NotLost'
  BY <1>1, <1>2, <1>3, <1>8, Failed DEF Live
<1>9. ASSUME NEW d \in deliveries, Republish(d) PROVE NotLost'
  BY <1>1, <1>2, <1>3, <1>9, Republished DEF Live
<1>10. ASSUME NEW w \in Workers, Crash(w) \/ Disconnect(w) PROVE NotLost'
  BY <1>10, Dropped, DroppedStaysOpen
<1>11. CASE UNCHANGED vars
  BY <1>2, <1>3, <1>11 DEF vars
<1>12. QED
  BY <1>4, <1>5, <1>6, <1>7, <1>8, <1>9, <1>10, <1>11 DEF Next, Handle

(* An accepted job is served, dead-lettered or still on its way, through any   *)
(* failures, crashes and lost connections that spare the backoffs.           *)
THEOREM NoJobIsLost == SafeBackoff => (Spec => []NotLost)
<1> SUFFICES ASSUME SafeBackoff PROVE Spec => []NotLost
  OBVIOUS
<1>1. Typed /\ Typed' /\ NotLost /\ [Next]_vars => NotLost'
  BY StepNotLost
<1>2. QED
  BY <1>1, InitTyped, StepTyped, InitNotLost, PTL DEF Spec

-----------------------------------------------------------------------------
Dead == {m.job : m \in deadQueue}
Notified == {j \in Jobs : \A u \in Mentioned[j] : inbox[u][j] > 0}

LEMMA InitLedger == Init => Ledger!Init
  BY DEF Init, Ledger!Init, Open, Waiting, Running

Owed == Open \ (served \cup Dead)

\* Each step of the pipeline is a step of the ledger, or none: only a served or
\* a buried job closes, and it had no second place to be open in, unless an ack
\* of it was lost.
LEMMA StepLedger ==
  SafeBackoff /\ Typed /\ Typed' /\ Unique /\ NotLost /\ Rows /\ [Next]_vars
    => [Ledger!Next]_Ledger!vars
<1> SUFFICES ASSUME SafeBackoff, Typed, Typed', Unique, NotLost, Rows, [Next]_vars
             PROVE  [Ledger!Next]_<<Owed, served, Dead, doubled, Notified>>
  BY DEF Ledger!vars, Owed, Dead, Notified
<1>1. /\ \A m \in ready \cup deadQueue : m.job \in Jobs
      /\ \A d \in deliveries : d.msg.job \in Jobs
      /\ \A m \in ready' \cup deadQueue' : m.job \in Jobs
      /\ \A d \in deliveries' : d.msg.job \in Jobs
  BY DEF Typed, TypeOK, Deliveries, Messages
<1>2. Open = {j \in Jobs : (\E m \in ready : m.job = j)
                           \/ \E d \in deliveries : Live(d) /\ d.msg.job = j}
  BY DEF Open, Waiting, Running, Live
<1>3. Open' = {j \in Jobs : (\E m \in ready' : m.job = j)
                            \/ \E d \in deliveries' : Live(d) /\ d.msg.job = j}
  BY DEF Open, Waiting, Running, Live
<1>a. \A j \in Open : j \in Owed \cup doubled
  BY <1>2 DEF Unique, OnlyUnserved, OnePlace, Owed, Dead
<1> DEFINE Goal == [Ledger!Next]_<<Owed, served, Dead, doubled, Notified>>
\* The ways a step of the pipeline looks to the ledger.
<1>4. ASSUME Open' = Open, UNCHANGED <<served, deadQueue, inbox, doubled>> PROVE Goal
  BY <1>4 DEF Owed, Dead, Notified
<1>5. ASSUME NEW j \in Jobs, j \in Open, Open \ {j} \subseteq Open',
             Open' \subseteq Open, Dead' = Dead \cup {j}, UNCHANGED <<served, inbox, doubled>>
      PROVE  Goal
  <2>1. Owed' = Owed \ {j} /\ j \in Owed \cup doubled /\ Notified' = Notified
    BY <1>5, <1>a DEF Owed, Notified
  <2> QED
    BY <1>5, <2>1 DEF Ledger!Next, Ledger!Bury, Owed, Dead, Notified
<1>b. ASSUME NEW j \in Jobs, j \in sent, Open \subseteq Open', Open' \subseteq Open \cup {j},
             doubled' = doubled \cup {j}, UNCHANGED <<served, deadQueue, inbox>>
      PROVE  Goal
  <2>1. j \in Owed \cup served \cup Dead
    BY <1>b DEF NotLost, Owed, Dead
  <2>2. Owed' = Owed /\ Dead' = Dead /\ Notified' = Notified
    BY <1>b, <2>1 DEF Owed, Dead, Notified
  <2> QED
    BY <1>b, <2>1, <2>2 DEF Ledger!Next, Ledger!Double, Owed, Dead, Notified
<1>6. ASSUME NEW j \in Jobs, Enqueue(j) PROVE Goal
  <2> DEFINE new == [job |-> j, attempts |-> 0]
  <2>1. new.job = j
    OBVIOUS
  <2>2. /\ j \notin sent /\ ready' = ready \cup {new}
        /\ UNCHANGED <<deliveries, deadQueue, inbox, served, doubled>>
    BY <1>6 DEF Enqueue
  <2> HIDE DEF new
  <2>3. j \notin Open \cup served \cup Dead
    BY <1>2, <2>2 DEF Unique, AllSent, Dead
  <2>4. Open' = Open \cup {j}
    BY <1>2, <1>3, <2>1, <2>2
  <2>5. Owed' = Owed \cup {j} /\ j \notin Owed /\ Dead' = Dead /\ Notified' = Notified
    BY <2>2, <2>3, <2>4 DEF Owed, Dead, Notified
  <2>6. QED
    BY <2>2, <2>3, <2>5 DEF Ledger!Next, Ledger!Enqueue, Owed, Dead, Notified
<1>7. ASSUME NEW w \in Workers, NEW m \in ready, Deliver(w, m) PROVE Goal
  <2>1. CASE deadQueue' = deadQueue \cup {m} /\ deliveries' = deliveries
    <3>1. m.job \in Open /\ Open \ {m.job} \subseteq Open' /\ Open' \subseteq Open
      BY <1>1, <1>2, <1>3, <1>7, <2>1, Delivered
    <3>2. Dead' = Dead \cup {m.job}
      BY <2>1 DEF Dead
    <3>3. QED
      BY <1>1, <1>5, <1>7, <3>1, <3>2, Delivered
  <2>2. CASE deadQueue' = deadQueue /\ \E e : deliveries' = deliveries \cup {e} /\ e.msg = m /\ e.held
    <3>1. Open' = Open
      BY <1>1, <1>2, <1>3, <1>7, <2>2, Delivered DEF Live
    <3>2. QED
      BY <1>4, <1>7, <2>2, <3>1, Delivered
  <2>3. QED
    BY <1>7, <2>1, <2>2, Delivered
<1>8. ASSUME NEW d \in deliveries, NEW u \in Users, Notify(d, u) PROVE Goal
  <2>1. Open' = Open
    BY <1>2, <1>3, <1>8, Noted DEF Live
  <2>2. inbox \in [Users -> [Jobs -> Nat]] /\ \A j \in Jobs : Mentioned[j] \subseteq Users
    BY DEF Typed, TypeOK
  <2>3. Notified \subseteq Notified' /\ Notified' \subseteq Notified \cup {d.msg.job}
    BY <1>8, <2>2, Noted DEF Notified
  <2>4. Owed' = Owed /\ served' = served /\ Dead' = Dead /\ doubled' = doubled
    BY <1>8, <2>1, Noted DEF Owed, Dead
  <2>5. CASE Notified' = Notified
    BY <2>4, <2>5
  <2>6. CASE Notified' = Notified \cup {d.msg.job}
    <3>1. Ledger!Write(d.msg.job)
      BY <2>4, <2>6 DEF Ledger!Write, Owed, Dead, Notified
    <3> QED
      BY <1>1, <3>1 DEF Ledger!Next
  <2>7. QED
    BY <2>3, <2>5, <2>6
<1>9. ASSUME NEW d \in deliveries, Ack(d) PROVE Goal
  <2>0. UNCHANGED <<ready, deadQueue, inbox, doubled>> /\ deliveries' = deliveries \ {d}
        /\ d.step = "handling"
    BY <1>9 DEF Ack, Finish
  <2>1. CASE ~d.held
    <3>1. Open' = Open
      BY <1>2, <1>3, <2>0, <2>1 DEF Live
    <3>2. QED
      BY <1>4, <1>9, <2>0, <2>1, <3>1 DEF Ack
  <2>2. CASE d.held
    <3>1. d.msg.job \in Open /\ Open \ {d.msg.job} \subseteq Open' /\ Open' \subseteq Open
      BY <1>1, <1>2, <1>3, <1>9, <2>2 DEF Ack, Finish, Live
    <3>2. d.msg.job \in Notified
      BY <1>1, <1>9 DEF Ack, Rows, HandledHaveRows, Notified
    <3>3. served' = served \cup {d.msg.job}
      BY <1>9, <2>2 DEF Ack
    <3>4. Dead' = Dead /\ Notified' = Notified /\ Owed' = Owed \ {d.msg.job}
      BY <2>0, <3>1, <3>3 DEF Owed, Dead, Notified
    <3>5. QED
      BY <1>1, <1>a, <2>0, <3>1, <3>2, <3>3, <3>4 DEF Ledger!Next, Ledger!Serve, Owed, Dead, Notified
  <2>3. QED
    BY <2>1, <2>2
<1>10. ASSUME NEW d \in deliveries, HandlerFails(d) PROVE Goal
  <2>0. d.msg.job \in sent /\ d.msg.job \in Jobs
    BY <1>1 DEF Unique, AllSent
  <2>1. CASE /\ d.held /\ deliveries' = deliveries \ {d} /\ deadQueue' = deadQueue \cup {d.msg}
             /\ doubled' = doubled
    <3>1. LET j == d.msg.job
          IN  j \in Open /\ Open \ {j} \subseteq Open' /\ Open' \subseteq Open
      BY <1>1, <1>2, <1>3, <1>10, <2>1, Failed DEF Live
    <3>2. Dead' = Dead \cup {d.msg.job}
      BY <2>1 DEF Dead
    <3>3. QED
      BY <1>1, <1>5, <1>10, <2>1, <3>1, <3>2, Failed
  <2>2. CASE ~d.held /\ deliveries' = deliveries \ {d} /\ UNCHANGED <<deadQueue, doubled>>
    <3>1. Open' = Open
      BY <1>2, <1>3, <1>10, <2>2, Failed DEF Live
    <3>2. QED
      BY <1>4, <1>10, <2>2, <3>1, Failed
  <2>3. CASE /\ deadQueue' = deadQueue
             /\ doubled' = IF d.held THEN doubled ELSE doubled \cup {d.msg.job}
             /\ \E e : /\ deliveries' = (deliveries \ {d}) \cup {e}
                       /\ e.msg = d.msg /\ e.step = "backoff"
    <3>1. PICK e : /\ deliveries' = (deliveries \ {d}) \cup {e}
                   /\ e.msg = d.msg /\ e.step = "backoff"
      BY <2>3
    <3>2. ready' = ready /\ d.step = "handling"
      BY <1>10, Failed
    <3>3. Open \subseteq Open'
      BY <1>2, <1>3, <3>1, <3>2 DEF Live
    <3>4. Open' \subseteq Open \cup {d.msg.job}
      BY <1>2, <1>3, <3>1, <3>2 DEF Live
    <3>5. d.held => d.msg.job \in Open
      BY <1>2, <2>0 DEF Live
    <3>6. CASE d.held
      BY <1>4, <1>10, <2>3, <3>3, <3>4, <3>5, <3>6, Failed
    <3>7. CASE ~d.held
      BY <1>b, <1>10, <2>0, <2>3, <3>3, <3>4, <3>7, Failed
    <3>8. QED
      BY <3>6, <3>7
  <2>4. QED
    BY <1>10, <2>1, <2>2, <2>3, Failed
<1>11. ASSUME NEW d \in deliveries, Republish(d) PROVE Goal
  <2>1. Open' = Open
    BY <1>1, <1>2, <1>3, <1>11, Republished DEF Live
  <2>2. QED
    BY <1>4, <1>11, <2>1, Republished
<1>12. ASSUME NEW w \in Workers, Crash(w) \/ Disconnect(w) PROVE Goal
  BY <1>4, <1>12, Dropped, DroppedStaysOpen
<1>13. CASE UNCHANGED vars
  BY <1>2, <1>3, <1>4, <1>13 DEF vars
<1>14. QED
  BY <1>6, <1>7, <1>8, <1>9, <1>10, <1>11, <1>12, <1>13 DEF Next, Handle

(* The pipeline implements the ledger: a job once open closes only by being    *)
(* served, after everyone it mentions was notified, or by being buried, and   *)
(* ends once unless an ack of it was lost unseen.                             *)
THEOREM QueueImplementsLedger == SafeBackoff => (Spec => ImplementsLedger)
<1> SUFFICES ASSUME SafeBackoff PROVE Spec => Ledger!Spec
  BY DEF ImplementsLedger
<1>1. Typed /\ Typed' /\ Unique /\ NotLost /\ Rows /\ [Next]_vars => [Ledger!Next]_Ledger!vars
  BY StepLedger
<1>2. Typed /\ Typed' /\ NotLost /\ [Next]_vars => NotLost'
  BY StepNotLost
<1>3. QED
  BY <1>1, <1>2, InitNotLost, InitTyped, StepTyped, InitUnique, StepUnique, InitRows, StepRows, InitLedger, PTL
     DEF Spec, Ledger!Spec

-----------------------------------------------------------------------------
\* What the image of a finite set holds, and any part of it, is no more than it.
LEMMA ImageIsNoMore ==
  ASSUME NEW S, IsFiniteSet(S), NEW f, NEW T \in SUBSET {f[x] : x \in S}
  PROVE  IsFiniteSet(T) /\ Cardinality(T) <= Cardinality(S)
<1> DEFINE D == {x \in S : f[x] \in T}
           g == [x \in D |-> f[x]]
<1>1. IsFiniteSet(D) /\ Cardinality(D) <= Cardinality(S)
  BY FS_Subset
<1>2. g \in Surjection(D, T)
  BY DEF Surjection
<1>3. IsFiniteSet(T) /\ Cardinality(T) <= Cardinality(D)
  BY <1>1, <1>2, FS_Surjection
<1> QED
  BY <1>1, <1>3, FS_CardinalityType

\* The rows user u has of job j, and those callbacks in progress may still write.
Pending(u, j) == {d \in deliveries : d.msg.job = j /\ u \in d.todo}
RowsDue(u, j) == inbox[u][j] + Cardinality(Pending(u, j))

\* A row for each attempt but the one that waits, and one more for each fault.
\* Of a job that was not doubled, that is.
Counted(u, j) == j \notin doubled =>
    /\ RowsDue(u, j) <= MaxRetries + 1 + faults
    /\ j \notin sent => RowsDue(u, j) <= faults
    /\ \A m \in ready : m.job = j => RowsDue(u, j) <= m.attempts + faults
    /\ \A d \in deliveries :
         Live(d) /\ d.msg.job = j => RowsDue(u, j) <= d.msg.attempts + 1 + faults

Exhausted == \A m \in deadQueue : m.job \in Malformed \/ m.attempts = MaxRetries

RetryInv ==
    /\ IsFiniteSet(deliveries)
    /\ \A u \in Users, j \in Jobs : Counted(u, j)
    /\ Exhausted

LEMMA DueIsNat ==
  ASSUME Typed, IsFiniteSet(deliveries), NEW u \in Users, NEW j \in Jobs
  PROVE  inbox[u][j] \in Nat /\ Cardinality(Pending(u, j)) \in Nat /\ RowsDue(u, j) \in Nat
         /\ IsFiniteSet(Pending(u, j))
<1>1. inbox[u][j] \in Nat
  BY DEF Typed, TypeOK
<1>2. IsFiniteSet(Pending(u, j))
  BY FS_Subset DEF Pending
<1>3. Cardinality(Pending(u, j)) \in Nat
  BY <1>2, FS_CardinalityType
<1> QED
  BY <1>1, <1>2, <1>3 DEF RowsDue

LEMMA InitRetries == Init => RetryInv
<1> SUFFICES ASSUME Init PROVE RetryInv
  OBVIOUS
<1>1. IsFiniteSet({}) /\ Cardinality({}) = 0
  BY FS_EmptySet
<1>2. ASSUME NEW u \in Users, NEW j \in Jobs PROVE RowsDue(u, j) = 0
  <2>1. Pending(u, j) = {} /\ inbox[u][j] = 0
    BY DEF Init, Pending
  <2> QED
    BY <1>1, <2>1 DEF RowsDue
<1>3. /\ deliveries = {} /\ ready = {} /\ deadQueue = {} /\ faults = 0
  BY DEF Init
<1>4. ASSUME NEW u \in Users, NEW j \in Jobs PROVE Counted(u, j)
  BY <1>2, <1>3 DEF Counted
<1> QED
  BY <1>1, <1>3, <1>4 DEF RetryInv, Exhausted

\* A step that adds no callback: the rows due do not grow.
LEMMA NoMoreRows ==
  ASSUME Typed, Typed', RetryInv, NEW f,
         deliveries' \subseteq {f[d] : d \in deliveries},
         \A d \in deliveries : f[d].msg = d.msg /\ f[d].todo \subseteq d.todo,
         NEW u \in Users, NEW j \in Jobs, inbox'[u][j] = inbox[u][j]
  PROVE  RowsDue(u, j)' <= RowsDue(u, j) /\ IsFiniteSet(deliveries')
<1>1. IsFiniteSet(deliveries) /\ IsFiniteSet(deliveries')
  BY ImageIsNoMore DEF RetryInv
<1>2. Pending(u, j)' \subseteq {f[d] : d \in Pending(u, j)}
  BY DEF Pending
<1>3. Cardinality(Pending(u, j)') <= Cardinality(Pending(u, j))
  BY <1>1, <1>2, DueIsNat, ImageIsNoMore
<1>4. inbox[u][j] \in Nat /\ Cardinality(Pending(u, j)) \in Nat /\ Cardinality(Pending(u, j)') \in Nat
  <2>1. IsFiniteSet(Pending(u, j)')
    BY <1>1, FS_Subset DEF Pending
  <2> QED
    BY <1>1, <2>1, DueIsNat, FS_CardinalityType
<1> QED
  BY <1>1, <1>3, <1>4 DEF RowsDue

LEMMA StepRetries == Typed /\ Typed' /\ Unique /\ RetryInv /\ [Next]_vars => RetryInv'
<1> SUFFICES ASSUME Typed, Typed', Unique, RetryInv, [Next]_vars PROVE RetryInv'
  OBVIOUS
<1>0. /\ faults \in Nat /\ faults' \in Nat /\ \A m \in ready \cup deadQueue \cup ready' : m \in Messages
      /\ \A d \in deliveries : d \in Deliveries /\ d.msg \in Messages
      /\ \A d \in deliveries' : d.msg \in Messages
      /\ \A m \in Messages : m.job \in Jobs /\ m.attempts \in Nat /\ m.attempts <= MaxRetries
  BY DEF Typed, TypeOK, Deliveries, Messages
<1>1. IsFiniteSet(deliveries) /\ Exhausted
  BY DEF RetryInv
<1>2. ASSUME NEW u \in Users, NEW j \in Jobs
      PROVE  Counted(u, j) /\ RowsDue(u, j) \in Nat
  BY <1>1, <1>2, DueIsNat DEF RetryInv
<1>3. ASSUME NEW u \in Users, NEW j \in Jobs, IsFiniteSet(deliveries')
      PROVE  RowsDue(u, j)' \in Nat
  <2>1. IsFiniteSet(Pending(u, j)')
    BY <1>3, FS_Subset DEF Pending
  <2> QED
    BY <2>1, FS_CardinalityType DEF RowsDue, Typed, TypeOK
\* Most steps add no callback, and make nothing new stand for a job.
<1>4. ASSUME NEW f, deliveries' \subseteq {f[d] : d \in deliveries},
             \A d \in deliveries : f[d].msg = d.msg /\ f[d].todo \subseteq d.todo 
                                 /\ (Live(f[d]) => Live(d) \/ d.msg.job \in doubled'),
             UNCHANGED inbox, sent \subseteq sent', doubled \subseteq doubled', faults <= faults',
             \A m \in ready' : m \in ready \/ m.job \in doubled' \/ \A u \in Users : RowsDue(u, m.job) <= m.attempts + faults'
      PROVE  IsFiniteSet(deliveries') /\ \A u \in Users, j \in Jobs : Counted(u, j)'
  <2>1. IsFiniteSet(deliveries')
    BY <1>1, <1>4, ImageIsNoMore
  <2>2. ASSUME NEW u \in Users, NEW j \in Jobs, j \notin doubled' PROVE Counted(u, j)'
    <3>1. RowsDue(u, j)' <= RowsDue(u, j) /\ RowsDue(u, j)' \in Nat
      BY <1>3, <1>4, <2>1, NoMoreRows
    <3>2. \A d \in deliveries' : Live(d) /\ d.msg.job = j => \E e \in deliveries : Live(e) /\ e.msg = d.msg
      BY <1>4, <2>2
    <3>3. Counted(u, j) /\ RowsDue(u, j) \in Nat /\ j \notin doubled
      BY <1>2, <1>4, <2>2
    <3>4. faults \in Nat /\ faults' \in Nat /\ faults <= faults'
      BY <1>0, <1>4
    <3>5. RowsDue(u, j)' <= MaxRetries + 1 + faults'
      BY <3>1, <3>3, <3>4 DEF Counted
    <3>6. j \notin sent' => RowsDue(u, j)' <= faults'
      <4>1. j \notin sent' => j \notin sent
        BY <1>4
      <4> QED
        BY <1>0, <1>4, <3>1, <3>3, <4>1 DEF Counted
    <3>7. ASSUME NEW m \in ready', m.job = j PROVE RowsDue(u, j)' <= m.attempts + faults'
      <4>1. m.attempts \in Nat
        BY <1>0
      <4>2. CASE m \in ready
        <5>1. RowsDue(u, j) <= m.attempts + faults
          BY <3>3, <3>7, <4>2 DEF Counted
        <5> QED
          BY <1>0, <1>4, <3>1, <3>3, <4>1, <5>1
      <4>3. CASE RowsDue(u, j) <= m.attempts + faults'
        BY <1>0, <3>1, <3>3, <4>1, <4>3
      <4> QED
        BY <1>4, <2>2, <3>7, <4>2, <4>3
    <3>8. ASSUME NEW d \in deliveries', Live(d), d.msg.job = j
          PROVE  RowsDue(u, j)' <= d.msg.attempts + 1 + faults'
      <4>1. PICK e \in deliveries : Live(e) /\ e.msg = d.msg
        BY <3>2, <3>8
      <4>2. e.msg.attempts \in Nat
        BY <1>0
      <4>3. RowsDue(u, j) <= e.msg.attempts + 1 + faults
        BY <3>3, <3>8, <4>1 DEF Counted
      <4> QED
        BY <1>0, <1>4, <3>1, <3>3, <4>1, <4>2, <4>3
    <3> QED
      BY <3>5, <3>6, <3>7, <3>8 DEF Counted
  <2>3. ASSUME NEW u \in Users, NEW j \in Jobs, j \in doubled' PROVE Counted(u, j)'
    BY <2>3 DEF Counted
  <2> QED
    BY <2>1, <2>2, <2>3
<1>5. ASSUME deliveries' \subseteq deliveries, UNCHANGED inbox, sent \subseteq sent',
             doubled \subseteq doubled', faults <= faults',
             \A m \in ready' : m \in ready \/ m.job \in doubled' \/ \A u \in Users : RowsDue(u, m.job) <= m.attempts + faults'
      PROVE  IsFiniteSet(deliveries') /\ \A u \in Users, j \in Jobs : Counted(u, j)'
  <2> DEFINE f == [d \in deliveries |-> d]
  <2>1. deliveries' \subseteq {f[d] : d \in deliveries} /\ \A d \in deliveries : f[d] = d
    BY <1>5
  <2> HIDE DEF f
  <2> QED
    BY <1>4, <1>5, <2>1
<1>6. ASSUME NEW j \in Jobs, Enqueue(j) PROVE RetryInv'
  <2> DEFINE new == [job |-> j, attempts |-> 0]
  <2>1. new.job = j /\ new.attempts = 0
    OBVIOUS
  <2>2. /\ j \notin sent /\ sent' = sent \cup {j} /\ ready' = ready \cup {new}
        /\ UNCHANGED <<deliveries, deadQueue, inbox, doubled, faults>>
    BY <1>6 DEF Enqueue
  <2> HIDE DEF new
  <2>3. \A u \in Users : RowsDue(u, j) <= faults
    BY <1>2, <2>2 DEF Counted, Unique, AllSent
  <2>4. Exhausted'
    BY <1>1, <2>2 DEF Exhausted
  <2> QED
    BY <1>0, <1>5, <2>1, <2>2, <2>3, <2>4 DEF RetryInv
<1>7. ASSUME NEW d \in deliveries, Ack(d) PROVE RetryInv'
  <2>1. deliveries' \subseteq deliveries /\ UNCHANGED <<sent, ready, deadQueue, inbox, doubled, faults>>
    BY <1>7 DEF Ack, Finish
  <2> QED
    BY <1>0, <1>1, <1>5, <2>1 DEF RetryInv, Exhausted
<1>8. ASSUME NEW d \in deliveries, HandlerFails(d) PROVE RetryInv'
  <2>1. UNCHANGED <<sent, ready, inbox, faults>> /\ doubled \subseteq doubled'
    BY <1>8, Failed
  <2>2. Exhausted'
    BY <1>1, <1>8, Failed DEF Exhausted
  <2>3. CASE deliveries' = deliveries \ {d}
    BY <1>0, <1>5, <2>1, <2>2, <2>3 DEF RetryInv
  <2>4. ASSUME NEW e, d.held \/ d.msg.job \in doubled', deliveries' = (deliveries \ {d}) \cup {e}, e.msg = d.msg, e.todo = {}
        PROVE  RetryInv'
    <3> DEFINE f == [x \in deliveries |-> IF x = d THEN e ELSE x]
    <3>1. /\ deliveries' \subseteq {f[x] : x \in deliveries}
          /\ \A x \in deliveries : f[x] = IF x = d THEN e ELSE x
      BY <2>4
    <3> HIDE DEF f
    <3>2. \A x \in deliveries : f[x].msg = x.msg /\ f[x].todo \subseteq x.todo
                                /\ (Live(f[x]) => Live(x) \/ x.msg.job \in doubled')
      BY <2>4, <3>1 DEF Live
    <3> QED
      BY <1>0, <1>4, <2>1, <2>2, <3>1, <3>2 DEF RetryInv
  <2> QED
    BY <1>8, <2>3, <2>4, Failed
<1>9. ASSUME NEW d \in deliveries, Republish(d) PROVE RetryInv'
  <2>1. PICK m : /\ ready' = ready \cup {m}
                 /\ m.job = d.msg.job /\ m.attempts = d.msg.attempts + 1
    BY <1>9, Republished
  <2>2. /\ UNCHANGED <<sent, deadQueue, inbox, doubled, faults>> /\ deliveries' = deliveries \ {d}
        /\ Live(d) /\ d.msg.job \in Jobs
    BY <1>0, <1>9, Republished DEF Live
  <2>3. m.job \in doubled \/ \A u \in Users : RowsDue(u, m.job) <= m.attempts + faults
    BY <1>2, <2>1, <2>2 DEF Counted
  <2> QED
    BY <1>0, <1>1, <1>5, <2>1, <2>2, <2>3 DEF RetryInv, Exhausted
<1>10. ASSUME NEW w \in Workers, Crash(w) \/ Disconnect(w) PROVE RetryInv'
  <2>1. UNCHANGED <<sent, deadQueue, inbox, doubled>> /\ ready' = ready \cup Requeued(w) /\ faults' = faults + 1
    BY <1>10, Dropped DEF Crash, Disconnect
  <2>2. ASSUME NEW m \in Requeued(w), m.job \notin doubled, NEW u \in Users PROVE RowsDue(u, m.job) <= m.attempts + faults'
    <3>1. PICK d \in deliveries : m = d.msg /\ Live(d)
      BY DEF Requeued, Held, Live
    <3>2. m.job \in Jobs /\ m.attempts \in Nat /\ RowsDue(u, m.job) <= m.attempts + 1 + faults
      BY <1>0, <1>2, <2>2, <3>1 DEF Counted
    <3> QED
      BY <1>0, <2>1, <3>2
  <2>3. CASE Crash(w)
    <3>1. deliveries' \subseteq deliveries
      BY <2>3 DEF Crash
    <3> QED
      BY <1>0, <1>1, <1>5, <2>1, <2>2, <3>1 DEF RetryInv, Exhausted
  <2>4. CASE Disconnect(w)
    <3> DEFINE Let(d) == [d EXCEPT !.held = FALSE]
               f == [d \in deliveries |-> IF d \in Held(w) THEN Let(d) ELSE d]
    <3>1. \A d \in deliveries : Let(d).msg = d.msg /\ Let(d).todo = d.todo
                                /\ Let(d).step = d.step /\ Let(d).held = FALSE
      BY <1>0 DEF Deliveries
    <3>2. deliveries' = (deliveries \ Held(w)) \cup {Let(d) : d \in Held(w)}
      BY <2>4 DEF Disconnect
    <3> HIDE DEF Let
    <3>3. Held(w) \subseteq deliveries
      BY DEF Held
    <3>4. /\ deliveries' \subseteq {f[d] : d \in deliveries}
          /\ \A d \in deliveries : f[d] = IF d \in Held(w) THEN Let(d) ELSE d
      BY <3>2, <3>3
    <3> HIDE DEF f
    <3>5. \A d \in deliveries : f[d].msg = d.msg /\ f[d].todo \subseteq d.todo /\ (Live(f[d]) => Live(d))
      BY <3>1, <3>4 DEF Live
    <3> QED
      BY <1>0, <1>1, <1>4, <2>1, <2>2, <3>4, <3>5 DEF RetryInv, Exhausted
  <2> QED
    BY <1>10, <2>3, <2>4
<1>11. ASSUME NEW w \in Workers, NEW m \in ready, Deliver(w, m) PROVE RetryInv'
  <2>1. CASE deadQueue' = deadQueue \cup {m} /\ deliveries' = deliveries /\ m.job \in Malformed
    <3>1. ready' \subseteq ready /\ UNCHANGED <<sent, inbox, doubled, faults>>
      BY <1>11, Delivered
    <3> QED
      BY <1>0, <1>1, <1>5, <2>1, <3>1 DEF RetryInv, Exhausted
  <2>2. ASSUME NEW e, deadQueue' = deadQueue, deliveries' = deliveries \cup {e}, e.msg = m
        PROVE  RetryInv'
    <3>1. ready' = ready \ {m} /\ UNCHANGED <<sent, inbox, doubled, faults>>
      BY <1>11, Delivered
    <3>2. IsFiniteSet(deliveries')
      BY <1>1, <2>2, FS_AddElement
    <3>3. m.job \in sent /\ (m.job \in doubled \/ \A n \in ready' : n.job # m.job)
          /\ (m.job \in doubled \/ \A d \in deliveries : Live(d) => d.msg.job # m.job)
      BY <3>1 DEF Unique, AllSent, OnePlace
    <3>4. ASSUME NEW u \in Users, NEW j \in Jobs, j \notin doubled' PROVE Counted(u, j)'
      <4>0. j \notin doubled
        BY <3>1, <3>4
      <4>1. Counted(u, j) /\ RowsDue(u, j) \in Nat /\ RowsDue(u, j)' \in Nat
        BY <1>2, <1>3, <3>2
      <4>2. CASE j # m.job
        <5>1. Pending(u, j)' = Pending(u, j)
          BY <2>2, <4>2 DEF Pending
        <5>2. RowsDue(u, j)' = RowsDue(u, j)
          BY <3>1, <5>1 DEF RowsDue
        <5> QED
          BY <4>0, <2>2, <3>1, <4>1, <4>2, <5>2 DEF Counted
      <4>3. CASE j = m.job
        <5>1. Pending(u, j)' \subseteq Pending(u, j) \cup {e}
          BY <2>2 DEF Pending
        <5>2. Cardinality(Pending(u, j)') <= Cardinality(Pending(u, j)) + 1
          <6>1. IsFiniteSet(Pending(u, j)) /\ Cardinality(Pending(u, j)) \in Nat
            BY <1>1, DueIsNat
          <6> DEFINE more == Pending(u, j) \cup {e}
          <6>a. IsFiniteSet(more) /\ Cardinality(more) =
                  IF e \in Pending(u, j) THEN Cardinality(Pending(u, j)) ELSE Cardinality(Pending(u, j)) + 1
            BY <6>1, FS_AddElement
          <6> HIDE DEF more
          <6>2. IsFiniteSet(more) /\ Cardinality(more) <= Cardinality(Pending(u, j)) + 1
            BY <6>1, <6>a
          <6>3. IsFiniteSet(Pending(u, j)')
                /\ Cardinality(Pending(u, j)') <= Cardinality(more)
            BY <5>1, <6>2, FS_Subset DEF more
          <6>4. Cardinality(Pending(u, j)') \in Nat /\ Cardinality(more) \in Nat
            BY <6>2, <6>3, FS_CardinalityType
          <6> QED
            BY <6>1, <6>2, <6>3, <6>4
        <5>3. RowsDue(u, j)' <= RowsDue(u, j) + 1
          <6>1. inbox[u][j] \in Nat /\ Cardinality(Pending(u, j)) \in Nat /\ inbox'[u][j] = inbox[u][j]
            BY <1>1, <3>1, DueIsNat
          <6>2. Cardinality(Pending(u, j)') \in Nat
            <7>1. IsFiniteSet(Pending(u, j)')
              BY <3>2, FS_Subset DEF Pending
            <7> QED
              BY <7>1, FS_CardinalityType
          <6> QED
            BY <5>2, <6>1, <6>2 DEF RowsDue
        <5>4. RowsDue(u, j) <= m.attempts + faults /\ m.attempts \in Nat /\ m.attempts <= MaxRetries
          BY <4>0, <1>0, <4>1, <4>3 DEF Counted
        <5>5. RowsDue(u, j)' <= m.attempts + 1 + faults /\ RowsDue(u, j)' <= MaxRetries + 1 + faults
          BY <1>0, <4>1, <5>3, <5>4
        <5>6. \A d \in deliveries' : Live(d) /\ d.msg.job = j => d.msg = m
          BY <4>0, <2>2, <3>3, <4>3
        <5> QED
          BY <4>0, <3>1, <3>3, <4>3, <5>5, <5>6 DEF Counted
      <4> QED
        BY <4>2, <4>3
    <3>5. Exhausted'
      BY <1>1, <2>2 DEF Exhausted
    <3>6. \A u \in Users, j \in Jobs : j \in doubled' => Counted(u, j)'
      BY DEF Counted
    <3> QED
      BY <3>2, <3>4, <3>5, <3>6 DEF RetryInv
  <2> QED
    BY <1>11, <2>1, <2>2, Delivered
<1>12. ASSUME NEW d \in deliveries, NEW u \in Users, Notify(d, u) PROVE RetryInv'
  <2>1. PICK e : /\ deliveries' = (deliveries \ {d}) \cup {e}
                 /\ e.msg = d.msg /\ e.held = d.held /\ e.step = d.step /\ e.todo = d.todo \ {u}
    BY <1>12, Noted
  <2>2. /\ UNCHANGED <<sent, ready, deadQueue, doubled, faults>> /\ d.msg.job \in Jobs /\ u \in d.todo
        /\ \A v \in Users, j \in Jobs :
             inbox'[v][j] = IF v = u /\ j = d.msg.job THEN inbox[v][j] + 1 ELSE inbox[v][j]
    BY <1>12, Noted DEF Notify
  <2> DEFINE f == [x \in deliveries |-> IF x = d THEN e ELSE x]
  <2>3. /\ deliveries' \subseteq {f[x] : x \in deliveries}
        /\ \A x \in deliveries : f[x] = IF x = d THEN e ELSE x
    BY <2>1
  <2> HIDE DEF f
  <2>4. \A x \in deliveries : f[x].msg = x.msg /\ f[x].todo \subseteq x.todo
    BY <2>1, <2>3
  <2>5. IsFiniteSet(deliveries')
    BY <1>1, <2>3, ImageIsNoMore
  <2>6. ASSUME NEW v \in Users, NEW j \in Jobs PROVE RowsDue(v, j)' <= RowsDue(v, j)
    <3>1. CASE ~(v = u /\ j = d.msg.job)
      <4>1. inbox'[v][j] = inbox[v][j]
        BY <2>2, <3>1
      <4> QED
        BY <2>3, <2>4, <4>1, NoMoreRows
    <3>2. CASE v = u /\ j = d.msg.job
      <4>1. d \in Pending(v, j) /\ Pending(v, j)' \subseteq Pending(v, j) \ {d}
        BY <2>1, <2>2, <3>2 DEF Pending
      <4>2. IsFiniteSet(Pending(v, j)) /\ Cardinality(Pending(v, j)) \in Nat /\ inbox[v][j] \in Nat
        BY <1>1, DueIsNat
      <4>3. IsFiniteSet(Pending(v, j) \ {d})
            /\ Cardinality(Pending(v, j) \ {d}) = Cardinality(Pending(v, j)) - 1
        BY <4>1, <4>2, FS_RemoveElement
      <4>4. IsFiniteSet(Pending(v, j)') /\ Cardinality(Pending(v, j)') <= Cardinality(Pending(v, j) \ {d})
        BY <4>1, <4>3, FS_Subset
      <4>5. Cardinality(Pending(v, j)') \in Nat
        BY <4>4, FS_CardinalityType
      <4>6. inbox'[v][j] = inbox[v][j] + 1
        BY <2>2, <3>2
      <4> QED
        BY <4>2, <4>3, <4>4, <4>5, <4>6 DEF RowsDue
    <3> QED
      BY <3>1, <3>2
  <2>7. \A x \in deliveries' : Live(x) => \E y \in deliveries : Live(y) /\ y.msg = x.msg
    BY <2>1 DEF Live
  <2>8. ASSUME NEW v \in Users, NEW j \in Jobs, j \notin doubled PROVE Counted(v, j)'
    <3>1. /\ Counted(v, j) /\ RowsDue(v, j) \in Nat /\ RowsDue(v, j)' \in Nat
          /\ RowsDue(v, j)' <= RowsDue(v, j)
      BY <1>2, <1>3, <2>5, <2>6
    <3>2. \A b \in Nat : RowsDue(v, j) <= b => RowsDue(v, j)' <= b
      BY <3>1
    <3>3. MaxRetries + 1 + faults \in Nat /\ faults \in Nat
      BY <1>0
    <3>4. \A m \in ready : m.attempts + faults \in Nat
      BY <1>0
    <3>5. ASSUME NEW x \in deliveries', Live(x), x.msg.job = j
          PROVE  RowsDue(v, j)' <= x.msg.attempts + 1 + faults
      <4>1. PICK y \in deliveries : Live(y) /\ y.msg = x.msg
        BY <2>7, <3>5
      <4>2. y.msg.attempts + 1 + faults \in Nat
        BY <1>0
      <4>3. RowsDue(v, j) <= y.msg.attempts + 1 + faults
        BY <2>8, <3>1, <3>5, <4>1 DEF Counted
      <4> QED
        BY <3>2, <4>1, <4>2, <4>3
    <3> QED
      BY <2>2, <2>8, <3>1, <3>2, <3>3, <3>4, <3>5 DEF Counted
  <2>9. Exhausted'
    BY <1>1, <2>2 DEF Exhausted
  <2>10. \A v \in Users, j \in Jobs : j \in doubled => Counted(v, j)'
    BY <2>2 DEF Counted
  <2> QED
    BY <2>5, <2>8, <2>9, <2>10 DEF RetryInv
<1>13. CASE UNCHANGED vars
  BY <1>0, <1>1, <1>5, <1>13 DEF vars, RetryInv, Exhausted
<1> QED
  BY <1>6, <1>7, <1>8, <1>9, <1>10, <1>11, <1>12, <1>13 DEF Next, Handle

(* queue.py:154: only a job that spent its retries, or cannot be parsed, is     *)
(* dead-lettered; and unless an ack of it was lost unseen, a user gets at most  *)
(* a row of it for each attempt, and one for each fault that made the broker   *)
(* deliver it again.                                                          *)
THEOREM RetriesStayBounded == Spec => []RetriesBounded
<1>1. Typed /\ RetryInv => RetriesBounded
  <2> SUFFICES ASSUME Typed, RetryInv PROVE RetriesBounded
    OBVIOUS
  <2>1. ASSUME NEW u \in Users, NEW j \in Jobs \ doubled PROVE inbox[u][j] <= MaxRetries + 1 + faults
    <3>1. inbox[u][j] \in Nat /\ Cardinality(Pending(u, j)) \in Nat /\ faults \in Nat
      BY DueIsNat DEF RetryInv, Typed, TypeOK
    <3>2. RowsDue(u, j) <= MaxRetries + 1 + faults
      BY DEF RetryInv, Counted
    <3> QED
      BY <3>1, <3>2 DEF RowsDue
  <2> QED
    BY <2>1 DEF RetryInv, Exhausted, RetriesBounded
<1>2. Typed /\ Typed' /\ Unique /\ RetryInv /\ [Next]_vars => RetryInv'
  BY StepRetries
<1> QED
  BY <1>1, <1>2, InitTyped, StepTyped, InitUnique, StepUnique, InitRetries, PTL DEF Spec
=============================================================================
