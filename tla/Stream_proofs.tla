--------------------------- MODULE Stream_proofs ---------------------------
(***************************************************************************)
(* Proofs about Stream, for every set of calls: any number of items and of *)
(* consumers, and a queue of any size.                                     *)
(***************************************************************************)
EXTENDS DemoStream, FiniteSetTheorems, SequenceTheorems, TLAPS

-----------------------------------------------------------------------------
(* The inductive invariant.                                                *)

\* The tasks that have a step to take, and those that are over.
Parked  == {"created", "putting", "closing", "getting"}
Settled == {"ended", "reaped"}

\* Tasks exist exactly while the call waits for them.
PhaseInv ==
  /\ status = "entry" => ~failed /\ ~aborting /\ \A t \in Tasks : pc[t] = "absent"
  /\ status \notin {"entry", "refused"} => pc[Producer] # "absent" /\ ~Refused
  /\ Done => \A t \in Tasks : pc[t] \in {"absent", "reaped"}
  /\ pc[Producer] \in Settled \cup {"absent", "created", "pulling", "putting", "closing"}
  /\ \A c \in Consumers : /\ pc[c] \in Settled \cup {"absent", "created", "getting", "calling"}
                          /\ pc[c] = "absent" <=> c > started

\* The TaskGroup aborts for an error it collected or for the caller's
\* cancellation, and the latter is never forgotten while the call waits.
GroupInv ==
  /\ errors = {t \in Tasks : pc[t] = "reaped" /\ raised[t] \in Failures}
  /\ requested => aborting /\ errors # {}
  /\ propagate => aborting /\ cancelled
  /\ aborting => propagate \/ requested
  /\ wake => cancelled \/ requested
  /\ (status = "waiting" /\ cancelled) => wake \/ propagate \/ errors # {}
  /\ status = "returned" => ~cancelled /\ errors = {} /\ ~aborting

\* How a task ended, and the cancellation it is still due.
TaskInv ==
  \A t \in Tasks :
    /\ raised[t] # "none" => pc[t] \in Settled
    /\ raised[t] \in {"none", "cancelled"} \cup Failures
    /\ raised[t] \in Failures => failed
    /\ raised[t] = "cancelled" => Stopping
    /\ (throw[t] /\ pc[t] \in Parked \cup {"absent"}) => aborting
    /\ (aborting /\ pc[t] \in Parked) => throw[t]
    /\ (call.return_exceptions /\ t # Producer) => raised[t] \in {"none", "cancelled", "base"}

\* What the latch stands for.
LatchInv == failed => cancelled \/ \E t \in Tasks : raised[t] \in Failures

\* How many entries have left the queue: the items first, then the sentinels.
Gets == metrics.produced + closed - Len(queue)

\* The producer's progress.
SourceInv ==
  /\ metrics.produced <= pulled /\ pulled <= metrics.produced + 1
  /\ metrics.producer_pauses <= pulled
  /\ pc[Producer] \in {"absent", "created", "pulling", "putting"} => closed = 0
  /\ pc[Producer] \in {"absent", "created"} => pulled = 0
  /\ pc[Producer] \in {"absent", "created", "pulling", "closing"} => metrics.produced = pulled
  /\ pc[Producer] = "putting" => metrics.produced < pulled
  /\ started = 0 => metrics.produced = 0 /\ pc[Producer] # "putting"
  /\ pc[Producer] = "closing" => pulled = call.length
  /\ (pc[Producer] \in Settled /\ raised[Producer] = "none") =>
       metrics.produced = call.length /\ closed = started

\* The queue holds the items from the first one not taken on, in the source's
\* order, and the sentinels after them.
QueueInv ==
  /\ Gets >= 0
  /\ \A n \in 1..Len(queue) :
       queue[n] = IF Gets + n <= metrics.produced THEN Gets + n ELSE Sentinel
  /\ ~Refused => Len(queue) <= call.queue_size
  /\ closed = 0 => Len(queue) <= metrics.max_queue_depth
  /\ metrics.producer_pauses > 0 => metrics.max_queue_depth = call.queue_size

\* An item is taken once, by one consumer; what is taken is in hand, kept, or
\* lost with the batch.
Taken(k) == k <= Gets /\ k <= metrics.produced

ItemInv ==
  /\ \A c \in Consumers : /\ item[c] # Sentinel => Taken(item[c])
                          /\ pc[c] = "calling" => item[c] # Sentinel /\ results[item[c]] = <<>>
                          /\ pc[c] \in {"absent", "created"} => item[c] = Sentinel
                          /\ pc[c] = "getting" => item[c] = Sentinel \/ results[item[c]] # <<>>
  /\ \A c, d \in Consumers : item[c] = item[d] => c = d \/ item[c] = Sentinel
  /\ \A k \in Items :
       /\ results[k] # <<>> => Taken(k)
       /\ \/ results[k] = <<>> \/ results[k] = <<"value">>
          \/ call.return_exceptions /\ \E v \in Verdicts : results[k] = <<v>>
       /\ (Taken(k) /\ ~failed) => results[k] # <<>> \/ \E c \in Calling : item[c] = k

\* The consumers that ended on a sentinel, or on the latch.
Through == {c \in Consumers : pc[c] \in Settled /\ raised[c] = "none"}

\* What the counters count.
CountInv ==
  /\ TaskDoneMatchesGet
  /\ metrics.consumed + unfinished <= metrics.produced + Len(queue)
  /\ metrics.consumed + unfinished <= metrics.produced + closed
  /\ ~failed =>
       /\ Gets <= metrics.produced => metrics.consumed + unfinished = metrics.produced + closed /\ Through = {}
       /\ Gets >= metrics.produced =>
            /\ metrics.consumed + unfinished = metrics.produced + Len(queue)
            /\ Cardinality(Through) = Gets - metrics.produced

IInv == TypeOK /\ PhaseInv /\ GroupInv /\ TaskInv /\ LatchInv /\ SourceInv /\ QueueInv /\ ItemInv /\ CountInv

-----------------------------------------------------------------------------
(* Types and counts.                                                       *)

\* The arguments, and the sets they span.
LEMMA CallTypes ==
  ASSUME call \in Calls
  PROVE  /\ call.length \in Nat /\ call.concurrency \in Int /\ call.queue_size \in Int
         /\ call.return_exceptions \in BOOLEAN
         /\ Consumers \subseteq Nat /\ Items \subseteq Nat /\ IsFiniteSet(Consumers)
         /\ Producer \notin Consumers /\ Sentinel \notin Items
         /\ \A c \in Consumers : c \in Tasks /\ c # Producer
         /\ Producer \in Tasks
<1>1. call \in Arguments
  BY CallsAssumption
<1>2. call.length \in Nat /\ call.concurrency \in Int /\ call.queue_size \in Int /\ call.return_exceptions \in BOOLEAN
  BY <1>1 DEF Arguments
<1>3. IsFiniteSet(Consumers)
  BY <1>2, FS_Interval DEF Consumers
<1> QED BY <1>2, <1>3 DEF Consumers, Items, Producer, Sentinel, Tasks

\* The state's numbers are numbers.
LEMMA Numbers ==
  ASSUME TypeOK
  PROVE  /\ pulled \in Nat /\ started \in Nat /\ closed \in Nat /\ unfinished \in Nat
         /\ metrics.produced \in Nat /\ metrics.consumed \in Nat
         /\ metrics.producer_pauses \in Nat /\ metrics.max_queue_depth \in Nat
         /\ Len(queue) \in Nat /\ Gets \in Int /\ Room \in Int
         /\ queue \in Seq(Items \cup {Sentinel})
         /\ pulled <= call.length /\ closed <= started
<1>1. call \in Calls /\ pulled \in 0..call.length /\ started \in {0} \cup Consumers /\ closed \in 0..started
      /\ unfinished \in Nat
  BY DEF TypeOK
<1>2. pulled \in Nat /\ started \in Nat /\ closed \in Nat /\ pulled <= call.length /\ closed <= started
  BY <1>1, CallTypes
<1>3. /\ metrics.produced \in 0..call.length /\ metrics.consumed \in 0..call.length
      /\ metrics.producer_pauses \in 0..call.length /\ metrics.max_queue_depth \in {0} \cup 1..call.queue_size
  BY DEF TypeOK
<1>4. /\ metrics.produced \in Nat /\ metrics.consumed \in Nat
      /\ metrics.producer_pauses \in Nat /\ metrics.max_queue_depth \in Nat
  BY <1>1, <1>3, CallTypes
<1>5. queue \in Seq(Items \cup {Sentinel}) /\ Len(queue) \in Nat
  BY DEF TypeOK
<1>6. Gets \in Int /\ Room \in Int
  BY <1>1, <1>2, <1>4, <1>5, CallTypes DEF Gets, Room
<1> QED BY <1>1, <1>2, <1>4, <1>5, <1>6

\* The consumers in a call of fn, and those that are through, are finitely many.
LEMMA FiniteConsumers ==
  ASSUME call \in Calls
  PROVE  /\ IsFiniteSet(Calling) /\ Cardinality(Calling) \in Nat /\ Calling \subseteq Consumers
         /\ IsFiniteSet(Through) /\ Cardinality(Through) \in Nat
<1>1. Calling \subseteq Consumers /\ Through \subseteq Consumers
  BY DEF Calling, Through
<1> QED BY <1>1, CallTypes, FS_Subset, FS_CardinalityType

\* The verdict on a call of fn is one of the verdicts.
LEMMA VerdictType ==
  ASSUME NEW out \in Outcomes, NEW e \in BOOLEAN, NEW k, NEW stopping
  PROVE  Verdict(out, e, k, stopping) \in Verdicts
BY DEF Verdict, StrayCancellationAsError, Attributed, AfterTimeout, Verdicts, Outcomes

\* A CancelledError is a verdict only while the pipeline is stopping.
LEMMA CancelledVerdict ==
  ASSUME NEW out, NEW e, NEW k, NEW stopping \in BOOLEAN, Verdict(out, e, k, stopping) = "cancelled"
  PROVE  stopping
BY DEF Verdict, StrayCancellationAsError

\* What a verdict that is not stored can be.
LEMMA UnstoredVerdict ==
  ASSUME NEW v \in Verdicts, v # "value"
  PROVE  v \in Failures \cup {"cancelled"} /\ (~IsException(v) => v \in {"cancelled", "base"})
BY DEF Verdicts, Outcomes, Failures, IsException

\* While a task is under way, the call waits.
LEMMA TaskWaits ==
  ASSUME IInv, NEW t \in Tasks, pc[t] \in Undone \cup {"ended"}
  PROVE  status = "waiting" /\ ~Done /\ ~Refused
BY DEF IInv, TypeOK, PhaseInv, Done, Undone

-----------------------------------------------------------------------------
(* The tasks and the group, step by step.                                  *)

Control == PhaseInv /\ GroupInv /\ TaskInv /\ LatchInv

\* How one task may move: the others stay, but for a consumer the producer
\* starts.
Moves(t) ==
  /\ UNCHANGED <<call, status, cancelled, group>>
  /\ failed => failed'
  /\ \A u \in Tasks \ {t} : throw'[u] = throw[u] /\ raised'[u] = raised[u]
  /\ \/ started' = started /\ \A u \in Tasks \ {t} : pc'[u] = pc[u]
     \/ /\ started' = started + 1 /\ started' \in Consumers /\ t = Producer /\ ~aborting
        /\ pc'[started'] = "created"
        /\ \A u \in Tasks \ {t, started'} : pc'[u] = pc[u]

\* A task's step that leaves the group alone keeps the invariant's part about
\* tasks, if it keeps it for that task.
LEMMA MoveStep ==
  ASSUME IInv, TypeOK', NEW t \in Tasks, Moves(t), pc[t] \in Undone,
         t = Producer => pc'[t] \in {"created", "pulling", "putting", "closing", "ended"},
         t # Producer => pc'[t] \in {"created", "getting", "calling", "ended"},
         raised'[t] # "none" => pc'[t] = "ended",
         raised'[t] \in {"none", "cancelled"} \cup Failures,
         raised'[t] \in Failures => failed',
         raised'[t] = "cancelled" => Stopping,
         throw'[t] /\ pc'[t] \in Parked => aborting,
         aborting /\ pc'[t] \in Parked => throw'[t],
         call.return_exceptions /\ t # Producer => raised'[t] \in {"none", "cancelled", "base"},
         failed' => failed \/ raised'[t] \in Failures \/ (raised'[t] = "cancelled" /\ Stopping)
  PROVE  Control'
<1>1. call \in Calls /\ UNCHANGED <<call, status, cancelled, aborting, errors, requested, wake, propagate>>
      /\ started \in Nat /\ Producer \in Tasks
  BY CallTypes, Numbers DEF IInv, TypeOK, Moves, group
<1>2. Tasks' = Tasks /\ Consumers' = Consumers /\ Items' = Items /\ (Refused' <=> Refused) /\ (Done' <=> Done)
  BY <1>1 DEF Tasks, Consumers, Items, Refused, Done
<1>3. status = "waiting" /\ ~Done /\ ~Refused
  BY TaskWaits
<1>4. (Stopping => Stopping') /\ (aborting => Stopping)
  BY <1>1 DEF Stopping, CallerCancelled, Moves, IInv, GroupInv
<1>5. raised[t] = "none" /\ pc[t] \notin Settled /\ pc[t] # "absent" /\ pc'[t] # "reaped" /\ pc'[t] # "absent"
  BY DEF IInv, TaskInv, Settled, Undone
<1>6. \A u \in Tasks \ {t} : \/ pc'[u] = pc[u]
                             \/ pc[u] = "absent" /\ pc'[u] = "created" /\ u = started' /\ ~aborting /\ u # Producer
  <2>1. ASSUME started' = started + 1, started' \in Consumers PROVE pc[started'] = "absent" /\ started' # Producer
    BY <1>1, <2>1, CallTypes DEF IInv, PhaseInv
  <2> QED BY <2>1 DEF Moves
<1>7. PhaseInv'
  <2>1. ASSUME NEW c \in Consumers
        PROVE  /\ pc'[c] \in Settled \cup {"absent", "created", "getting", "calling"}
               /\ pc'[c] = "absent" <=> c > started'
    <3>1. c \in Tasks /\ c \in Nat /\ c # Producer
      BY <1>1, CallTypes
    <3>2. /\ pc[c] \in Settled \cup {"absent", "created", "getting", "calling"}
          /\ pc[c] = "absent" <=> c > started
      BY DEF IInv, PhaseInv
    <3>3. CASE started' = started /\ \A u \in Tasks \ {t} : pc'[u] = pc[u]
      <4>1. CASE c = t
        BY <1>5, <3>1, <3>2, <3>3, <4>1 DEF Settled
      <4>2. CASE c # t
        BY <3>1, <3>2, <3>3, <4>2
      <4> QED BY <4>1, <4>2
    <3>4. CASE /\ started' = started + 1 /\ started' \in Consumers /\ t = Producer
               /\ pc'[started'] = "created"
               /\ \A u \in Tasks \ {t, started'} : pc'[u] = pc[u]
      <4>1. CASE c = started'
        BY <3>4, <4>1
      <4>2. CASE c # started'
        <5>1. pc'[c] = pc[c]
          BY <3>1, <3>4, <4>2
        <5>2. c > started' <=> c > started
          BY <1>1, <3>1, <3>4, <4>2
        <5> QED BY <3>2, <5>1, <5>2
      <4> QED BY <4>1, <4>2
    <3> QED BY <3>3, <3>4 DEF Moves
  <2>2. pc'[Producer] \in Settled \cup {"absent", "created", "pulling", "putting", "closing"} /\ pc'[Producer] # "absent"
    <3>1. pc[Producer] \in Settled \cup {"absent", "created", "pulling", "putting", "closing"} /\ pc[Producer] # "absent"
      BY <1>3 DEF IInv, PhaseInv
    <3>2. CASE t = Producer
      BY <1>5, <3>2 DEF Settled
    <3>3. CASE t # Producer
      BY <1>1, <1>6, <3>1, <3>3
    <3> QED BY <3>2, <3>3
  <2> QED BY <1>1, <1>2, <1>3, <2>1, <2>2 DEF PhaseInv
<1>8. GroupInv'
  <2>1. \A u \in Tasks : (pc'[u] = "reaped" /\ raised'[u] \in Failures) <=> (pc[u] = "reaped" /\ raised[u] \in Failures)
    BY <1>5, <1>6 DEF Moves, Settled
  <2>2. errors' = {u \in Tasks : pc'[u] = "reaped" /\ raised'[u] \in Failures}
    BY <1>1, <2>1 DEF IInv, GroupInv
  <2> QED BY <1>1, <1>2, <2>2 DEF IInv, GroupInv, Failures
<1>9. TaskInv'
  <2> SUFFICES ASSUME NEW u \in Tasks
               PROVE /\ raised'[u] # "none" => pc'[u] \in Settled
                     /\ raised'[u] \in {"none", "cancelled"} \cup Failures
                     /\ raised'[u] \in Failures => failed'
                     /\ raised'[u] = "cancelled" => Stopping'
                     /\ (throw'[u] /\ pc'[u] \in Parked \cup {"absent"}) => aborting
                     /\ (aborting /\ pc'[u] \in Parked) => throw'[u]
                     /\ (call.return_exceptions /\ u # Producer) => raised'[u] \in {"none", "cancelled", "base"}
    BY <1>1, <1>2 DEF TaskInv, Failures
  <2>1. CASE u = t
    BY <1>4, <1>5, <2>1 DEF Settled
  <2>2. CASE u # t
    <3>1. throw'[u] = throw[u] /\ raised'[u] = raised[u] /\ (failed => failed')
      BY <2>2 DEF Moves
    <3>2. /\ raised[u] # "none" => pc[u] \in Settled
          /\ raised[u] \in {"none", "cancelled"} \cup Failures
          /\ raised[u] \in Failures => failed
          /\ raised[u] = "cancelled" => Stopping
          /\ (throw[u] /\ pc[u] \in Parked \cup {"absent"}) => aborting
          /\ (aborting /\ pc[u] \in Parked) => throw[u]
          /\ (call.return_exceptions /\ u # Producer) => raised[u] \in {"none", "cancelled", "base"}
      BY DEF IInv, TaskInv
    <3>3. CASE pc'[u] = pc[u]
      BY <1>4, <3>1, <3>2, <3>3
    <3>4. CASE pc[u] = "absent" /\ pc'[u] = "created" /\ ~aborting
      BY <1>4, <3>1, <3>2, <3>4 DEF Settled
    <3> QED BY <1>6, <2>2, <3>3, <3>4
  <2> QED BY <2>1, <2>2
<1>10. LatchInv'
  <2>1. \A u \in Tasks : raised[u] \in Failures => raised'[u] \in Failures
    BY <1>5 DEF Moves, Failures
  <2>2. LatchInv
    BY DEF IInv
  <2>3. Stopping => cancelled \/ \E u \in Tasks : raised[u] \in Failures
    <3>1. requested => \E u \in Tasks : raised[u] \in Failures
      BY DEF IInv, GroupInv
    <3> QED BY <2>2, <3>1 DEF LatchInv, Stopping, CallerCancelled
  <2>4. failed' => cancelled \/ \E u \in Tasks : raised'[u] \in Failures
    BY <2>1, <2>2, <2>3 DEF LatchInv
  <2> QED BY <1>1, <1>2, <2>4 DEF LatchInv, Failures
<1> QED BY <1>7, <1>8, <1>9, <1>10 DEF Control

-----------------------------------------------------------------------------
(* The queue, the items and the counters, step by step.                    *)

DataTypes ==
  /\ item \in [Tasks -> Items \cup {Sentinel}]
  /\ queue \in Seq(Items \cup {Sentinel})
  /\ unfinished \in Nat
  /\ results \in [Items -> Seq(Verdicts)]
  /\ metrics \in [produced : 0..call.length, consumed : 0..call.length,
                  producer_pauses : 0..call.length, max_queue_depth : {0} \cup 1..call.queue_size]

Data == DataTypes /\ QueueInv /\ ItemInv /\ CountInv

\* No consumer begins or ends a call of fn, or gets through.
ConsumersStay ==
  \A c \in Consumers :
    /\ pc'[c] = "calling" <=> pc[c] = "calling"
    /\ pc'[c] \in {"absent", "created"} => pc[c] \in {"absent", "created"}
    /\ pc'[c] = "getting" => pc[c] = "getting"
    /\ (pc'[c] \in Settled /\ raised'[c] = "none") <=> (pc[c] \in Settled /\ raised[c] = "none")

\* Then the same consumers are in a call of fn, and through.
LEMMA StayFacts ==
  ASSUME call' = call, ConsumersStay
  PROVE  Calling' = Calling /\ Through' = Through /\ Consumers' = Consumers /\ Tasks' = Tasks /\ Items' = Items
<1>1. Consumers' = Consumers /\ Tasks' = Tasks /\ Items' = Items
  BY DEF Consumers, Tasks, Items
<1>2. Calling' = Calling
  BY <1>1 DEF Calling, ConsumersStay
<1>3. Through' = Through
  BY <1>1 DEF Through, ConsumersStay
<1> QED BY <1>1, <1>2, <1>3

\* A step that leaves the data alone keeps what is said of it.
LEMMA QuietData ==
  ASSUME IInv, ConsumersStay, failed => failed',
         UNCHANGED <<call, closed, data, item>>
  PROVE  Data'
<1>1. UNCHANGED <<call, closed, queue, unfinished, results, metrics, item>> /\ (Refused' <=> Refused)
  BY DEF data, Refused
<1>2. Calling' = Calling /\ Through' = Through /\ Consumers' = Consumers /\ Tasks' = Tasks /\ Items' = Items
  BY <1>1, StayFacts
<1>3. Gets' = Gets /\ \A k : Taken(k)' <=> Taken(k)
  BY <1>1 DEF Gets, Taken
<1>4. DataTypes'
  BY <1>1, <1>2 DEF DataTypes, IInv, TypeOK
<1>5. QueueInv'
  BY <1>1, <1>3 DEF QueueInv, IInv
<1>6. ItemInv'
  BY <1>1, <1>2, <1>3 DEF ItemInv, IInv, ConsumersStay
<1>7. CountInv'
  BY <1>1, <1>2, <1>3 DEF CountInv, IInv, TaskDoneMatchesGet
<1> QED BY <1>4, <1>5, <1>6, <1>7 DEF Data

\* The put of the next item.
LEMMA EnqueueData ==
  ASSUME IInv, ConsumersStay, failed => failed', ~Full, ~Refused, closed = 0,
         metrics.produced < call.length,
         Enqueue(metrics.produced + 1, 0),
         UNCHANGED <<call, closed, results, item>>
  PROVE  Data' /\ metrics'.produced = metrics.produced + 1 /\ metrics'.producer_pauses = metrics.producer_pauses
<1> DEFINE k == metrics.produced + 1
           depth == Len(queue) + 1
           S == Items \cup {Sentinel}
<1>1. /\ call \in Calls /\ call.queue_size \in Nat /\ call.length \in Nat
      /\ Len(queue) \in Nat /\ metrics.produced \in Nat /\ unfinished \in Nat /\ Gets \in Int /\ queue \in Seq(S)
      /\ metrics.max_queue_depth \in Nat /\ closed \in Nat /\ metrics.producer_pauses \in Nat /\ metrics.consumed \in Nat
  <2>1. TypeOK /\ call \in Calls
    BY DEF IInv, TypeOK
  <2>2. call.queue_size \in Nat /\ call.length \in Nat
    BY <2>1, CallTypes DEF Refused
  <2> QED BY <2>1, <2>2, Numbers
<1>2. Calling' = Calling /\ Through' = Through /\ Consumers' = Consumers /\ Tasks' = Tasks /\ Items' = Items
  BY StayFacts
<1>3. queue' = Append(queue, k) /\ unfinished' = unfinished + 1
  BY DEF Enqueue
<1>13. metrics' = [metrics EXCEPT !.produced = @ + 1, !.producer_pauses = @ + 0,
                                     !.max_queue_depth = IF depth > @ THEN depth ELSE @]
  BY DEF Enqueue
<1>4. k \in Items /\ k \in S
  BY <1>1 DEF Items
<1>5. /\ queue' \in Seq(S) /\ Len(queue') = Len(queue) + 1
      /\ \A n \in 1..Len(queue) : queue'[n] = queue[n]
      /\ queue'[Len(queue) + 1] = k
  BY <1>1, <1>3, <1>4, AppendProperties
<1>6. /\ metrics'.produced = metrics.produced + 1 /\ metrics'.consumed = metrics.consumed
      /\ metrics'.producer_pauses = metrics.producer_pauses
      /\ metrics'.max_queue_depth = (IF depth > metrics.max_queue_depth THEN depth ELSE metrics.max_queue_depth)
  BY <1>1, <1>13 DEF IInv, TypeOK
<1>7. Gets' = Gets /\ Gets <= metrics.produced /\ Gets + Len(queue) = metrics.produced
  <2>1. metrics.produced \in Int /\ closed \in Int /\ Len(queue) \in Int /\ Len(queue) >= 0
    BY <1>1
  <2>2. /\ Gets = metrics.produced + closed - Len(queue) /\ closed = 0
        /\ Gets' = (metrics.produced + 1) + closed - (Len(queue) + 1)
    BY <1>5, <1>6 DEF Gets
  <2>3. Gets' = Gets
    BY ONLY <2>1, <2>2
  <2>4. Gets <= metrics.produced /\ Gets + Len(queue) = metrics.produced
    BY ONLY <2>1, <2>2
  <2> QED BY <2>3, <2>4
<1>8. \A n \in Nat : Taken(n)' <=> Taken(n)
  BY <1>1, <1>6, <1>7 DEF Taken
<1>9. DataTypes'
  <2>1. metrics' \in [produced : 0..call.length, consumed : 0..call.length,
                      producer_pauses : 0..call.length, max_queue_depth : {0} \cup 1..call.queue_size]
    <3>1. metrics.produced + 1 \in 0..call.length
      BY <1>1
    <3>2. depth \in 1..call.queue_size
      BY <1>1 DEF Full
    <3>3. metrics.producer_pauses + 0 = metrics.producer_pauses
      BY <1>1
    <3> HIDE DEF depth
    <3> QED BY <1>13, <3>1, <3>2, <3>3 DEF IInv, TypeOK
  <2>2. item' \in [Tasks -> Items \cup {Sentinel}] /\ results' \in [Items -> Seq(Verdicts)]
    BY DEF IInv, TypeOK
  <2>3. unfinished' \in Nat
    BY <1>1, <1>3
  <2> QED BY <1>2, <1>5, <2>1, <2>2, <2>3 DEF DataTypes
<1>10. QueueInv'
  <2>1. Gets' >= 0 /\ QueueInv
    BY <1>7 DEF IInv, QueueInv
  <2>2. ASSUME NEW n \in 1..Len(queue')
        PROVE  queue'[n] = IF Gets' + n <= metrics'.produced THEN Gets' + n ELSE Sentinel
    <3>1. CASE n = Len(queue) + 1
      BY <1>1, <1>5, <1>6, <1>7, <3>1
    <3>2. CASE n # Len(queue) + 1
      <4>1. n \in 1..Len(queue) /\ n \in Int
        BY <1>1, <1>5, <3>2
      <4>2. queue[n] = IF Gets + n <= metrics.produced THEN Gets + n ELSE Sentinel
        BY <2>1, <4>1 DEF QueueInv
      <4>3. Gets + n <= metrics.produced /\ Gets + n <= metrics'.produced
        BY <1>1, <1>6, <1>7, <4>1
      <4> QED BY <1>5, <1>7, <4>1, <4>2, <4>3
    <3> QED BY <3>1, <3>2
  <2>3. Len(queue') <= call.queue_size /\ Len(queue') <= metrics'.max_queue_depth
    BY <1>1, <1>5, <1>6 DEF Full
  <2>4. metrics'.producer_pauses > 0 => metrics'.max_queue_depth = call.queue_size
    <3>1. metrics.max_queue_depth \in {0} \cup 1..call.queue_size
      BY DEF IInv, TypeOK
    <3> QED BY <1>1, <1>6, <2>1, <3>1 DEF QueueInv, Full
  <2> QED BY <2>1, <2>2, <2>3, <2>4 DEF QueueInv
<1>11. ItemInv'
  <2>1. Items \subseteq Nat /\ \A c \in Consumers : item[c] \in Nat
    BY <1>1, CallTypes DEF IInv, TypeOK, Tasks, Sentinel
  <2>2. ItemInv
    BY DEF IInv
  <2>3. \A c \in Consumers : /\ item[c] # Sentinel => Taken(item[c])'
                             /\ pc'[c] = "calling" => item[c] # Sentinel /\ results[item[c]] = <<>>
                             /\ pc'[c] \in {"absent", "created"} => item[c] = Sentinel
                             /\ pc'[c] = "getting" => item[c] = Sentinel \/ results[item[c]] # <<>>
    BY <1>8, <2>1, <2>2 DEF ItemInv, ConsumersStay
  <2>4. \A n \in Items :
          /\ results[n] # <<>> => Taken(n)'
          /\ (Taken(n)' /\ ~failed') => results[n] # <<>> \/ \E c \in Calling : item[c] = n
    BY <1>8, <2>1, <2>2 DEF ItemInv
  <2> QED BY <1>2, <2>2, <2>3, <2>4 DEF ItemInv
<1>14. /\ metrics'.consumed + unfinished' = metrics.consumed + (unfinished + 1)
       /\ metrics'.produced + Len(queue') = (metrics.produced + 1) + (Len(queue) + 1)
       /\ metrics'.produced + closed = (metrics.produced + 1) + closed
  BY <1>3, <1>5, <1>6, Zenon
<1>15. \A p \in {Len(queue), closed} :
         /\ metrics.consumed + unfinished <= metrics.produced + p =>
              /\ metrics.consumed + (unfinished + 1) <= (metrics.produced + 1) + p
              /\ metrics.consumed + (unfinished + 1) <= (metrics.produced + 1) + (p + 1)
         /\ metrics.consumed + unfinished = metrics.produced + p =>
              metrics.consumed + (unfinished + 1) = (metrics.produced + 1) + p
  <2>1. PICK a, u, m \in Nat : a = metrics.consumed /\ u = unfinished /\ m = metrics.produced
    BY <1>1
  <2>2. ASSUME NEW p \in Nat
        PROVE  /\ a + u <= m + p => a + (u + 1) <= (m + 1) + p /\ a + (u + 1) <= (m + 1) + (p + 1)
               /\ a + u = m + p => a + (u + 1) = (m + 1) + p
    <3>1. a \in Int /\ u \in Int /\ m \in Int /\ p \in Int
      OBVIOUS
    <3> QED BY ONLY <3>1
  <2>3. Len(queue) \in Nat /\ closed \in Nat
    BY <1>1
  <2> QED BY <2>1, <2>2, <2>3, Zenon
<1>12. CountInv'
  <2>1. CountInv /\ Cardinality(Calling) \in Nat
    BY <1>1, FiniteConsumers DEF IInv
  <2>2. TaskDoneMatchesGet'
    <3>1. unfinished = Len(queue) + Cardinality(Calling)
      BY <2>1 DEF CountInv, TaskDoneMatchesGet
    <3>2. Len(queue) \in Int /\ Cardinality(Calling) \in Int
      BY <1>1, <2>1
    <3>3. (Len(queue) + Cardinality(Calling)) + 1 = (Len(queue) + 1) + Cardinality(Calling)
      BY ONLY <3>2
    <3>4. unfinished' = Len(queue') + Cardinality(Calling)
      BY <1>3, <1>5, <3>1, <3>3, Zenon
    <3> QED BY <1>2, <3>4 DEF TaskDoneMatchesGet
  <2>3. /\ metrics'.consumed + unfinished' <= metrics'.produced + Len(queue')
        /\ metrics'.consumed + unfinished' <= metrics'.produced + closed
    <3>1. /\ metrics.consumed + unfinished <= metrics.produced + Len(queue)
          /\ metrics.consumed + unfinished <= metrics.produced + closed
      BY <2>1 DEF CountInv
    <3> QED BY <1>14, <1>15, <3>1, Zenon
  <2>4. ASSUME ~failed
        PROVE  /\ metrics'.consumed + unfinished' = metrics'.produced + closed /\ Through = {}
               /\ ~ (Gets' >= metrics'.produced)
    <3>1. metrics.consumed + unfinished = metrics.produced + closed /\ Through = {}
      BY <1>7, <2>1, <2>4 DEF CountInv
    <3>2. ~ (Gets' >= metrics'.produced)
      BY <1>1, <1>6, <1>7
    <3> QED BY <1>14, <1>15, <3>1, <3>2, Zenon
  <2> QED BY <1>2, <2>2, <2>3, <2>4 DEF CountInv
<1> QED BY <1>6, <1>9, <1>10, <1>11, <1>12 DEF Data

\* A put that has to wait is counted, against a queue that is full.
LEMMA PauseData ==
  ASSUME IInv, ConsumersStay, Full, ~Refused, closed = 0, failed => failed',
         metrics.producer_pauses < call.length,
         metrics' = [metrics EXCEPT !.producer_pauses = @ + 1],
         UNCHANGED <<call, closed, queue, unfinished, results, item>>
  PROVE  Data' /\ metrics'.produced = metrics.produced
               /\ metrics'.producer_pauses = metrics.producer_pauses + 1
<1>1. /\ call \in Calls /\ call.queue_size \in Nat /\ call.length \in Nat
      /\ Len(queue) \in Nat /\ metrics.max_queue_depth \in Nat /\ metrics.producer_pauses \in Nat
  <2>1. TypeOK /\ call \in Calls
    BY DEF IInv, TypeOK
  <2>2. call.queue_size \in Nat /\ call.length \in Nat
    BY <2>1, CallTypes DEF Refused
  <2> QED BY <2>1, <2>2, Numbers
<1>2. Calling' = Calling /\ Through' = Through /\ Consumers' = Consumers /\ Tasks' = Tasks /\ Items' = Items
  BY StayFacts
<1>3. /\ metrics'.produced = metrics.produced /\ metrics'.consumed = metrics.consumed
      /\ metrics'.producer_pauses = metrics.producer_pauses + 1
      /\ metrics'.max_queue_depth = metrics.max_queue_depth
  BY DEF IInv, TypeOK
<1>4. Gets' = Gets /\ \A k : Taken(k)' <=> Taken(k)
  BY <1>3 DEF Gets, Taken
<1>5. DataTypes'
  <2>1. metrics.producer_pauses + 1 \in 0..call.length
    BY <1>1
  <2>2. metrics' \in [produced : 0..call.length, consumed : 0..call.length,
                      producer_pauses : 0..call.length, max_queue_depth : {0} \cup 1..call.queue_size]
    BY <2>1 DEF IInv, TypeOK
  <2> QED BY <1>2, <2>2 DEF DataTypes, IInv, TypeOK
<1>6. QueueInv'
  <2>1. QueueInv /\ metrics.max_queue_depth \in {0} \cup 1..call.queue_size
    BY DEF IInv, TypeOK
  <2>2. metrics.max_queue_depth = call.queue_size
    BY <1>1, <2>1 DEF QueueInv, Full
  <2> QED BY <1>3, <1>4, <2>1, <2>2 DEF QueueInv, Refused
<1>7. ItemInv'
  BY <1>2, <1>4 DEF ItemInv, IInv, ConsumersStay
<1>8. CountInv'
  BY <1>2, <1>3, <1>4 DEF CountInv, IInv, TaskDoneMatchesGet
<1> QED BY <1>3, <1>5, <1>6, <1>7, <1>8 DEF Data

\* The sentinels are put behind every item, one for each consumer started.
LEMMA SentinelData ==
  ASSUME IInv, ~Refused, PutSentinels, ConsumersStay, failed => failed',
         UNCHANGED <<call, started, results, metrics, item>>
  PROVE  /\ Data' /\ closed' \in 0..started /\ closed' \in Nat
         /\ \/ pc'[Producer] = "ended" /\ closed' = started
            \/ pc'[Producer] = "closing"
<1> DEFINE left == started - closed
           S == Items \cup {Sentinel}
<1>1. /\ call \in Calls /\ call.queue_size \in Nat /\ Len(queue) \in Nat /\ queue \in Seq(S) /\ Room \in Int
      /\ started \in Nat /\ closed \in Nat /\ closed <= started /\ unfinished \in Nat /\ Gets \in Int
      /\ metrics.produced \in Nat /\ metrics.consumed \in Nat
  <2>1. TypeOK /\ call \in Calls
    BY DEF IInv, TypeOK
  <2>2. call.queue_size \in Nat
    BY <2>1, CallTypes DEF Refused
  <2> QED BY <2>1, <2>2, Numbers
<1>2. Calling' = Calling /\ Through' = Through /\ Consumers' = Consumers /\ Tasks' = Tasks /\ Items' = Items
  BY StayFacts
<1>3. Len(queue) <= call.queue_size /\ QueueInv
  BY DEF IInv, QueueInv
<1>4. PICK k \in Nat : k = (IF left <= Room THEN left ELSE Room) /\ k <= left /\ k <= Room
  BY <1>1, <1>3 DEF Room
<1>5. queue' = queue \o [n \in 1..k |-> Sentinel] /\ unfinished' = unfinished + k /\ closed' = closed + k
  BY <1>4 DEF PutSentinels
<1>15. pc' = [pc EXCEPT ![Producer] = IF k = left THEN "ended" ELSE "closing"]
  BY <1>4 DEF PutSentinels
<1>6. PICK tail \in Seq(S) : tail = [n \in 1..k |-> Sentinel] /\ Len(tail) = k /\ \A n \in 1..k : tail[n] = Sentinel
  <2>1. [n \in 1..k |-> Sentinel] \in [1..k -> S]
    OBVIOUS
  <2>2. [n \in 1..k |-> Sentinel] \in Seq(S) /\ Len([n \in 1..k |-> Sentinel]) = k
    BY <1>4, <2>1, IsASeq, LenProperties
  <2> QED BY <2>2
<1>7. /\ queue' \in Seq(S) /\ Len(queue') = Len(queue) + k
      /\ \A n \in 1..Len(queue) + k : queue'[n] = IF n <= Len(queue) THEN queue[n] ELSE tail[n - Len(queue)]
  BY <1>1, <1>5, <1>6, ConcatProperties
<1>8. Gets' = Gets /\ \A n : Taken(n)' <=> Taken(n)
  BY <1>1, <1>4, <1>5, <1>7 DEF Gets, Taken
<1>9. closed' \in 0..started /\ closed' \in Nat
  BY <1>1, <1>4, <1>5
<1>10. DataTypes'
  <2>1. unfinished' \in Nat
    BY <1>1, <1>4, <1>5
  <2> QED BY <1>2, <1>7, <2>1 DEF DataTypes, IInv, TypeOK
<1>11. QueueInv'
  <2>1. ASSUME NEW n \in 1..Len(queue')
        PROVE  queue'[n] = IF Gets + n <= metrics.produced THEN Gets + n ELSE Sentinel
    <3>1. n \in 1..Len(queue) + k /\ n \in Int
      BY <1>7
    <3>2. CASE n <= Len(queue)
      BY <1>1, <1>3, <1>7, <3>1, <3>2 DEF QueueInv
    <3>3. CASE ~ (n <= Len(queue))
      <4>1. n - Len(queue) \in 1..k
        BY <1>1, <1>4, <3>1, <3>3
      <4>2. queue'[n] = Sentinel
        BY <1>6, <1>7, <3>1, <3>3, <4>1
      <4>3. ~ (Gets + n <= metrics.produced)
        BY <1>1, <3>1, <3>3 DEF Gets
      <4> QED BY <4>2, <4>3
    <3> QED BY <3>2, <3>3
  <2>2. Len(queue') <= call.queue_size
    BY <1>1, <1>4, <1>7 DEF Room
  <2>3. closed' = 0 => Len(queue') <= metrics.max_queue_depth
    <3>1. closed + k = 0 => closed = 0 /\ Len(queue) + k = Len(queue)
      BY <1>1
    <3>2. closed = 0 => Len(queue) <= metrics.max_queue_depth
      BY <1>3 DEF QueueInv
    <3> QED BY <1>5, <1>7, <3>1, <3>2, Zenon
  <2> QED BY <1>3, <1>8, <2>1, <2>2, <2>3 DEF QueueInv, Refused
<1>12. ItemInv'
  BY <1>2, <1>8 DEF ItemInv, IInv, ConsumersStay
<1>16. unfinished' = unfinished + k /\ closed' = closed + k /\ Len(queue') = Len(queue) + k
  BY <1>5, <1>7
<1>17. /\ Len(queue) \in Int /\ closed \in Int /\ unfinished \in Int /\ metrics.produced \in Int
       /\ metrics.consumed \in Int /\ k \in Int
  BY <1>1
<1>18. \A n \in {Len(queue), closed} :
         /\ metrics.consumed + unfinished <= metrics.produced + n =>
              metrics.consumed + (unfinished + k) <= metrics.produced + (n + k)
         /\ metrics.consumed + unfinished = metrics.produced + n =>
              metrics.consumed + (unfinished + k) = metrics.produced + (n + k)
  <2>1. ASSUME NEW n \in Int
        PROVE  /\ metrics.consumed + unfinished <= metrics.produced + n =>
                    metrics.consumed + (unfinished + k) <= metrics.produced + (n + k)
               /\ metrics.consumed + unfinished = metrics.produced + n =>
                    metrics.consumed + (unfinished + k) = metrics.produced + (n + k)
    <3>1. n \in Int
      OBVIOUS
    <3>2. /\ metrics.consumed + (unfinished + k) = (metrics.consumed + unfinished) + k
          /\ metrics.produced + (n + k) = (metrics.produced + n) + k
      BY ONLY <1>17, <3>1
    <3>3. PICK a, b \in Int : a = metrics.consumed + unfinished /\ b = metrics.produced + n
      BY ONLY <1>17, <3>1
    <3>4. a <= b => a + k <= b + k
      BY <1>17
    <3> QED BY <3>2, <3>3, <3>4, Zenon
  <2> QED BY <1>17, <2>1, Zenon
<1>13. CountInv'
  <2>1. CountInv /\ Cardinality(Calling) \in Nat /\ Cardinality(Through) \in Nat
    BY <1>1, FiniteConsumers DEF IInv
  <2>2. TaskDoneMatchesGet'
    <3>1. unfinished = Len(queue) + Cardinality(Calling)
      BY <2>1 DEF CountInv, TaskDoneMatchesGet
    <3>2. Cardinality(Calling) \in Int
      BY <2>1
    <3>3. (Len(queue) + Cardinality(Calling)) + k = (Len(queue) + k) + Cardinality(Calling)
      BY ONLY <1>17, <3>2
    <3>4. unfinished' = Len(queue') + Cardinality(Calling)
      BY <1>16, <3>1, <3>3, Zenon
    <3> QED BY <1>2, <3>4 DEF TaskDoneMatchesGet
  <2>3. /\ metrics.consumed + unfinished' <= metrics.produced + Len(queue')
        /\ metrics.consumed + unfinished' <= metrics.produced + closed'
    <3>1. /\ metrics.consumed + unfinished <= metrics.produced + Len(queue)
          /\ metrics.consumed + unfinished <= metrics.produced + closed
      BY <2>1 DEF CountInv
    <3> QED BY <1>16, <1>18, <3>1, Zenon
  <2>4. ASSUME ~failed, Gets <= metrics.produced
        PROVE  metrics.consumed + unfinished' = metrics.produced + closed' /\ Through = {}
    <3>1. metrics.consumed + unfinished = metrics.produced + closed /\ Through = {}
      BY <2>1, <2>4 DEF CountInv
    <3> QED BY <1>16, <1>18, <3>1, Zenon
  <2>5. ASSUME ~failed, Gets >= metrics.produced
        PROVE  metrics.consumed + unfinished' = metrics.produced + Len(queue') /\ Cardinality(Through) = Gets - metrics.produced
    <3>1. metrics.consumed + unfinished = metrics.produced + Len(queue) /\ Cardinality(Through) = Gets - metrics.produced
      BY <2>1, <2>5 DEF CountInv
    <3> QED BY <1>16, <1>18, <3>1, Zenon
  <2> QED BY <1>2, <1>8, <2>2, <2>3, <2>4, <2>5 DEF CountInv
<1>14. (pc'[Producer] = "ended" /\ closed' = started) \/ pc'[Producer] = "closing"
  <2>1. pc \in [Tasks -> Positions] /\ Producer \in Tasks
    BY <1>1, CallTypes DEF IInv, TypeOK
  <2> QED BY <1>1, <1>5, <1>15, <2>1
<1> QED BY <1>9, <1>10, <1>11, <1>12, <1>13, <1>14 DEF Data

\* What a consumer's step does to the data: `was` and `is` count it among the
\* calls of fn, before and after, `got` the entry it takes from the queue, and
\* `st` the value it stores.
Serves(c, was, is, got, st) ==
  /\ UNCHANGED <<call, closed>>
  /\ was = 1 <=> pc[c] = "calling"
  /\ is = 1 <=> pc'[c] = "calling"
  /\ pc[c] \notin Settled /\ pc'[c] \notin {"absent", "created"}
  /\ pc'[c] = "getting" => st = 1 \/ pc[c] = "created"
  /\ \A d \in Consumers \ {c} : pc'[d] = pc[d] /\ raised'[d] = raised[d] /\ item'[d] = item[d]
  /\ item' \in [Tasks -> Items \cup {Sentinel}]
  /\ unfinished' = unfinished - was + is - got
  /\ got = 0 => /\ queue' = queue /\ is = 0 /\ item'[c] = item[c]
                /\ ~ (pc'[c] \in Settled /\ raised'[c] = "none")
  /\ got = 1 =>
       /\ queue # <<>> /\ queue' = Tail(queue) /\ raised'[c] = "none" /\ (failed' <=> failed) /\ st = was
       /\ IF Head(queue) = Sentinel \/ failed
          THEN pc'[c] = "ended" /\ item'[c] = Sentinel
          ELSE pc'[c] = "calling" /\ item'[c] = Head(queue)
  /\ st = 0 => UNCHANGED <<results, metrics>>
  /\ st = 1 => /\ was = 1
               /\ \E v \in Verdicts : /\ v = "value" \/ call.return_exceptions
                                      /\ results' = [results EXCEPT ![item[c]] = Append(@, v)]
               /\ metrics' = [metrics EXCEPT !.consumed = @ + 1]
  /\ failed => failed'
  /\ (was = 1 /\ st = 0) => failed'

\* The head of the queue is the first item not taken, then a sentinel.
LEMMA HeadIsNext ==
  ASSUME TypeOK, QueueInv, queue # <<>>
  PROVE  /\ Tail(queue) \in Seq(Items \cup {Sentinel}) /\ Len(Tail(queue)) = Len(queue) - 1 /\ Len(queue) >= 1
         /\ \A n \in 1..Len(queue) - 1 : Tail(queue)[n] = queue[n + 1]
         /\ Gets + 1 <= metrics.produced => Head(queue) = Gets + 1
         /\ ~ (Gets + 1 <= metrics.produced) => Head(queue) = Sentinel
         /\ Gets + 1 \in Nat /\ Gets + 1 # Sentinel
<1>1. queue \in Seq(Items \cup {Sentinel}) /\ Len(queue) \in Nat /\ Gets \in Int /\ metrics.produced \in Nat /\ Gets >= 0
  BY Numbers DEF QueueInv
<1>2. /\ Tail(queue) \in Seq(Items \cup {Sentinel}) /\ Len(Tail(queue)) = Len(queue) - 1
      /\ \A n \in 1..Len(queue) - 1 : Tail(queue)[n] = queue[n + 1]
      /\ Head(queue) = queue[1]
  BY <1>1, HeadTailProperties
<1>3. Len(queue) >= 1
  BY <1>1, EmptySeq
<1>4. queue[1] = IF Gets + 1 <= metrics.produced THEN Gets + 1 ELSE Sentinel
  BY <1>1, <1>3 DEF QueueInv
<1> QED BY <1>1, <1>2, <1>3, <1>4 DEF Sentinel

\* The numbers after a consumer's step.
LEMMA ServeNumbers ==
  ASSUME IInv, NEW c \in Consumers, NEW was \in {0, 1}, NEW is \in {0, 1}, NEW got \in {0, 1}, NEW st \in {0, 1},
         Serves(c, was, is, got, st)
  PROVE  /\ Len(queue') = Len(queue) - got /\ Gets' = Gets + got /\ Len(queue') \in Nat
         /\ metrics'.produced = metrics.produced /\ metrics'.consumed = metrics.consumed + st
         /\ metrics'.producer_pauses = metrics.producer_pauses
         /\ metrics'.max_queue_depth = metrics.max_queue_depth
         /\ queue' \in Seq(Items \cup {Sentinel})
         /\ is <= got /\ st <= was
<1>1. /\ Len(queue) \in Nat /\ Gets \in Int /\ metrics.produced \in Nat /\ metrics.consumed \in Nat /\ closed \in Nat
      /\ queue \in Seq(Items \cup {Sentinel})
  BY Numbers DEF IInv
<1>2. /\ metrics'.produced = metrics.produced /\ metrics'.consumed = metrics.consumed + st
      /\ metrics'.producer_pauses = metrics.producer_pauses
      /\ metrics'.max_queue_depth = metrics.max_queue_depth
  <2>1. CASE st = 0
    BY <1>1, <2>1 DEF Serves
  <2>2. CASE st = 1
    BY <2>2 DEF Serves, IInv, TypeOK
  <2> QED BY <2>1, <2>2
<1>3. Len(queue') = Len(queue) - got /\ queue' \in Seq(Items \cup {Sentinel}) /\ Len(queue') \in Nat
  <2>1. CASE got = 0
    BY <1>1, <2>1 DEF Serves
  <2>2. CASE got = 1
    <3>1. queue # <<>> /\ queue' = Tail(queue) /\ TypeOK /\ QueueInv
      BY <2>2 DEF Serves, IInv
    <3> QED BY <1>1, <2>2, <3>1, HeadIsNext
  <2> QED BY <2>1, <2>2
<1>4. closed' = closed /\ is <= got /\ st <= was
  BY DEF Serves
<1>5. Gets' = Gets + got
  <2>1. Gets = metrics.produced + closed - Len(queue) /\ Gets' = metrics'.produced + closed' - Len(queue')
    BY DEF Gets
  <2>2. got \in Int
    OBVIOUS
  <2>3. Gets' = metrics.produced + closed - (Len(queue) - got)
    BY <1>2, <1>3, <1>4, <2>1, Zenon
  <2>4. /\ Len(queue) \in Int /\ metrics.produced \in Int /\ closed \in Int
    BY <1>1
  <2> QED BY ONLY <2>1, <2>2, <2>3, <2>4
<1> QED BY <1>2, <1>3, <1>4, <1>5

\* The queue after a consumer's step.
LEMMA ServeQueue ==
  ASSUME IInv, NEW c \in Consumers, NEW was \in {0, 1}, NEW is \in {0, 1}, NEW got \in {0, 1}, NEW st \in {0, 1},
         Serves(c, was, is, got, st)
  PROVE  QueueInv'
<1>1. /\ Len(queue) \in Nat /\ Gets \in Int /\ metrics.produced \in Nat /\ closed \in Nat /\ call.queue_size \in Int
      /\ metrics.max_queue_depth \in Nat
  BY Numbers, CallTypes DEF IInv, TypeOK
<1>2. /\ Len(queue') = Len(queue) - got /\ Gets' = Gets + got
      /\ metrics'.produced = metrics.produced
      /\ metrics'.producer_pauses = metrics.producer_pauses
      /\ metrics'.max_queue_depth = metrics.max_queue_depth
  BY ServeNumbers
<1>3. QueueInv /\ TypeOK
  BY DEF IInv
<1>4. call' = call /\ closed' = closed /\ (Refused' <=> Refused)
  BY DEF Serves, Refused
<1>5. Gets' >= 0
  BY <1>1, <1>2, <1>3 DEF QueueInv
<1>6. ASSUME NEW n \in 1..Len(queue')
      PROVE  queue'[n] = IF Gets' + n <= metrics'.produced THEN Gets' + n ELSE Sentinel
  <2>1. CASE got = 0
    <3>1. queue' = queue /\ Gets' = Gets
      BY <1>1, <1>2, <2>1 DEF Serves
    <3> QED BY <1>2, <1>3, <3>1 DEF QueueInv
  <2>2. CASE got = 1
    <3>1. queue # <<>> /\ queue' = Tail(queue)
      BY <2>2 DEF Serves
    <3>2. n \in 1..Len(queue) - 1 /\ n + 1 \in 1..Len(queue) /\ n \in Nat
      BY <1>1, <1>2, <2>2
    <3>3. queue'[n] = queue[n + 1]
      BY <1>3, <3>1, <3>2, HeadIsNext
    <3>4. queue[n + 1] = IF Gets + (n + 1) <= metrics.produced THEN Gets + (n + 1) ELSE Sentinel
      BY <1>3, <3>2 DEF QueueInv
    <3>5. Gets + (n + 1) = Gets' + n
      BY <1>1, <1>2, <2>2, <3>2
    <3> QED BY <1>2, <3>3, <3>4, <3>5
  <2> QED BY <2>1, <2>2
<1>7. Len(queue') <= Len(queue)
  BY <1>1, <1>2
<1>8. (~Refused => Len(queue') <= call.queue_size) /\ (closed = 0 => Len(queue') <= metrics.max_queue_depth)
  <2>1. Len(queue') \in Nat
    BY ServeNumbers
  <2> QED BY <1>1, <1>3, <1>7, <2>1 DEF QueueInv
<1> QED BY <1>2, <1>3, <1>4, <1>5, <1>6, <1>8 DEF QueueInv

\* The counters after a consumer's step.
LEMMA ServeCounts ==
  ASSUME IInv, NEW c \in Consumers, NEW was \in {0, 1}, NEW is \in {0, 1}, NEW got \in {0, 1}, NEW st \in {0, 1},
         Serves(c, was, is, got, st)
  PROVE  CountInv'
<1>1. /\ Len(queue) \in Nat /\ Gets \in Int /\ metrics.produced \in Nat /\ closed \in Nat /\ unfinished \in Nat
      /\ metrics.consumed \in Nat
  BY Numbers DEF IInv
<1>2. /\ Len(queue') = Len(queue) - got /\ Gets' = Gets + got /\ Len(queue') \in Nat
      /\ metrics'.produced = metrics.produced /\ metrics'.consumed = metrics.consumed + st
      /\ is <= got /\ st <= was
  BY ServeNumbers
<1>3. CountInv /\ QueueInv /\ TypeOK /\ call \in Calls
  BY DEF IInv, TypeOK
<1>4. call' = call /\ closed' = closed /\ Consumers' = Consumers /\ unfinished' = unfinished - was + is - got
  BY DEF Serves, Consumers
<1>5. /\ IsFiniteSet(Calling) /\ Cardinality(Calling) \in Nat
      /\ IsFiniteSet(Through) /\ Cardinality(Through) \in Nat
  BY <1>3, FiniteConsumers
<1>11. was \in Int /\ is \in Int /\ got \in Int /\ st \in Int
  OBVIOUS
<1>12. /\ Len(queue) \in Int /\ metrics.produced \in Int /\ closed \in Int /\ unfinished \in Int
       /\ metrics.consumed \in Int /\ Cardinality(Calling) \in Int
       /\ was \in Int /\ is \in Int /\ got \in Int /\ st \in Int
  BY <1>1, <1>5, <1>11
<1>6. Cardinality(Calling') = Cardinality(Calling) - was + is
  <2>1. \A d \in Consumers \ {c} : d \in Calling' <=> d \in Calling
    BY <1>4 DEF Serves, Calling
  <2>2. (c \in Calling <=> was = 1) /\ (c \in Calling' <=> is = 1)
    BY <1>4 DEF Serves, Calling
  <2>3. Calling \subseteq Consumers /\ Calling' \subseteq Consumers
    BY <1>4 DEF Calling
  <2>4. CASE was = is
    <3>1. Calling' = Calling
      BY <2>1, <2>2, <2>3, <2>4
    <3> QED BY <1>5, <2>4, <3>1
  <2>5. CASE was = 1 /\ is = 0
    <3>1. Calling' = Calling \ {c} /\ c \in Calling
      BY <2>1, <2>2, <2>3, <2>5
    <3>2. Cardinality(Calling') = Cardinality(Calling) - 1
      BY <1>5, <3>1, FS_RemoveElement
    <3> QED BY <1>5, <2>5, <3>2
  <2>6. CASE was = 0 /\ is = 1
    <3>1. Calling' = Calling \cup {c} /\ c \notin Calling
      BY <2>1, <2>2, <2>3, <2>6
    <3>2. Cardinality(Calling') = Cardinality(Calling) + 1
      BY <1>5, <3>1, FS_AddElement
    <3> QED BY <1>5, <2>6, <3>2
  <2> QED BY <2>4, <2>5, <2>6
<1>7. TaskDoneMatchesGet'
  <2>1. unfinished = Len(queue) + Cardinality(Calling)
    BY <1>3 DEF CountInv, TaskDoneMatchesGet
  <2>2. unfinished' = Len(queue') + Cardinality(Calling')
    <3>1. unfinished' = (Len(queue) + Cardinality(Calling)) - was + is - got
          /\ Len(queue') = Len(queue) - got
      BY <1>2, <1>4, <2>1, Zenon
    <3> QED BY ONLY <1>6, <1>12, <3>1
  <2> QED BY <2>2 DEF TaskDoneMatchesGet
<1>8. ASSUME is = 1
      PROVE  got = 1 /\ ~failed /\ Gets + 1 <= metrics.produced /\ metrics.consumed + unfinished = metrics.produced + closed
  <2>1. got = 1
    BY <1>8, <1>2
  <2>2. queue # <<>> /\ Head(queue) # Sentinel /\ ~failed
    BY <1>8, <2>1 DEF Serves
  <2>3. Gets + 1 <= metrics.produced
    BY <1>3, <2>2, HeadIsNext
  <2>4. Gets <= metrics.produced
    BY <1>1, <2>3
  <2> QED BY <1>3, <2>1, <2>2, <2>3, <2>4 DEF CountInv
<1>9. /\ metrics'.consumed + unfinished' <= metrics'.produced + Len(queue')
      /\ metrics'.consumed + unfinished' <= metrics'.produced + closed'
  <2>1. /\ metrics.consumed + unfinished <= metrics.produced + Len(queue)
        /\ metrics.consumed + unfinished <= metrics.produced + closed
    BY <1>3 DEF CountInv
  <2>2. Gets = metrics.produced + closed - Len(queue)
    BY DEF Gets
  <2>3. PICK b \in Nat, p \in Nat, q \in Nat, d \in Nat :
          b = metrics.consumed + unfinished /\ p = metrics.produced /\ q = Len(queue) /\ d = closed
    BY <1>1
  <2>4. /\ metrics'.consumed + unfinished' = b + (st - was + is - got)
        /\ metrics'.produced + Len(queue') = p + (q - got)
        /\ metrics'.produced + closed' = p + d
    <3>1. /\ metrics'.consumed + unfinished' = (metrics.consumed + st) + (unfinished - was + is - got)
          /\ metrics'.produced + Len(queue') = metrics.produced + (Len(queue) - got)
          /\ metrics'.produced + closed' = metrics.produced + closed
      BY <1>2, <1>4, Zenon
    <3>2. (metrics.consumed + st) + (unfinished - was + is - got)
             = (metrics.consumed + unfinished) + (st - was + is - got)
      BY ONLY <1>12
    <3> QED BY <2>3, <3>1, <3>2, Zenon
  <2>5. b + (st - was + is - got) <= p + (q - got) /\ b + (st - was + is - got) <= p + d
    <3>1. CASE is = 0
      <4>1. b <= p + q /\ b <= p + d /\ is <= got /\ st <= was
        BY <1>2, <2>1, <2>3
      <4>2. b \in Int /\ p \in Int /\ q \in Int /\ d \in Int
        OBVIOUS
      <4> QED BY ONLY <1>12, <3>1, <4>1, <4>2
    <3>2. CASE is = 1
      <4>1. b = p + d /\ p + d - q + 1 <= p
        BY <1>8, <2>2, <2>3, <3>2
      <4> QED BY <1>2, <3>2, <4>1
    <3> QED BY <3>1, <3>2
  <2> QED BY <2>4, <2>5
<1>10. ASSUME ~failed'
       PROVE  /\ Gets' <= metrics'.produced =>
                   metrics'.consumed + unfinished' = metrics'.produced + closed' /\ Through' = {}
              /\ Gets' >= metrics'.produced =>
                   /\ metrics'.consumed + unfinished' = metrics'.produced + Len(queue')
                   /\ Cardinality(Through') = Gets' - metrics'.produced
  <2>1. ~failed /\ st = was
    BY <1>10 DEF Serves
  <2>2. /\ Gets <= metrics.produced => metrics.consumed + unfinished = metrics.produced + closed /\ Through = {}
        /\ Gets >= metrics.produced =>
             /\ metrics.consumed + unfinished = metrics.produced + Len(queue)
             /\ Cardinality(Through) = Gets - metrics.produced
    BY <1>3, <2>1 DEF CountInv
  <2>3. Gets = metrics.produced + closed - Len(queue)
    BY DEF Gets
  <2>4. \A d \in Consumers \ {c} : d \in Through' <=> d \in Through
    BY <1>4 DEF Serves, Through
  <2>5. Through \subseteq Consumers /\ Through' \subseteq Consumers /\ c \notin Through
    BY <1>4 DEF Serves, Through
  <2>6. CASE got = 0
    <3>1. c \notin Through'
      BY <2>6 DEF Serves, Through
    <3>2. Through' = Through
      BY <2>4, <2>5, <3>1
    <3>3. is = 0
      BY <1>2, <2>6
    <3>4. metrics'.consumed + unfinished' = metrics.consumed + unfinished
      BY <1>1, <1>2, <1>4, <2>1, <2>6, <3>3
    <3>5. Gets' = Gets /\ Len(queue') = Len(queue)
      BY <1>1, <1>2, <2>6
    <3> QED BY <1>2, <1>4, <2>2, <3>2, <3>4, <3>5
  <2>7. CASE got = 1 /\ Gets + 1 <= metrics.produced
    <3>1. queue # <<>> /\ Head(queue) # Sentinel
      BY <1>3, <2>7, HeadIsNext DEF Serves
    <3>2. pc'[c] = "calling" /\ is = 1
      BY <2>1, <2>7, <3>1 DEF Serves
    <3>3. Through' = Through
      BY <2>4, <2>5, <3>2 DEF Through, Settled
    <3>4. Gets <= metrics.produced
      BY <1>1, <2>7
    <3>5. metrics.consumed + unfinished = metrics.produced + closed /\ Through' = {}
      BY <2>2, <3>3, <3>4
    <3>6. metrics'.consumed + unfinished' = metrics'.produced + closed'
      <4>1. /\ metrics'.consumed + unfinished' = (metrics.consumed + was) + (unfinished - was + 1 - 1)
            /\ metrics'.produced + closed' = metrics.consumed + unfinished
        BY <1>2, <1>4, <2>1, <2>7, <3>2, <3>5, Zenon
      <4> QED BY ONLY <1>12, <4>1
    <3>7. Gets' >= metrics'.produced => Len(queue') = closed' /\ Gets' - metrics'.produced = 0
      <4>1. /\ Gets' = metrics.produced + closed - Len(queue) + 1 /\ Gets' <= metrics.produced
            /\ Len(queue') = Len(queue) - 1 /\ closed' = closed /\ metrics'.produced = metrics.produced
        BY <1>2, <1>4, <2>3, <2>7, Zenon
      <4> QED BY ONLY <1>12, <4>1
    <3> QED BY <3>5, <3>6, <3>7, FS_EmptySet
  <2>8. CASE got = 1 /\ ~ (Gets + 1 <= metrics.produced)
    <3>1. queue # <<>> /\ Head(queue) = Sentinel
      BY <1>3, <2>8, HeadIsNext DEF Serves
    <3>2. pc'[c] = "ended" /\ raised'[c] = "none" /\ is = 0
      BY <2>8, <3>1 DEF Serves
    <3>3. Through' = Through \cup {c}
      BY <1>4, <2>4, <2>5, <3>2 DEF Through, Settled
    <3>4. Cardinality(Through') = Cardinality(Through) + 1
      BY <1>5, <2>5, <3>3, FS_AddElement
    <3>5. Gets >= metrics.produced /\ ~ (Gets' <= metrics'.produced)
      BY <1>1, <1>2, <2>8
    <3>6. metrics.consumed + unfinished = metrics.produced + Len(queue) /\ Cardinality(Through) = Gets - metrics.produced
      BY <2>2, <3>5
    <3>7. metrics'.consumed + unfinished' = metrics'.produced + Len(queue')
      <4>1. /\ metrics'.consumed + unfinished' = (metrics.consumed + was) + (unfinished - was + 0 - 1)
            /\ metrics'.produced + Len(queue') = metrics.produced + (Len(queue) - 1)
        BY <1>2, <1>4, <2>1, <2>8, <3>2, Zenon
      <4>2. (metrics.consumed + was) + (unfinished - was + 0 - 1) = (metrics.consumed + unfinished) - 1
        BY ONLY <1>12
      <4>3. metrics.produced + (Len(queue) - 1) = (metrics.produced + Len(queue)) - 1
        BY ONLY <1>12
      <4> QED BY <3>6, <4>1, <4>2, <4>3, Zenon
    <3>8. Cardinality(Through') = Gets' - metrics'.produced
      <4>1. /\ Cardinality(Through') = (Gets - metrics.produced) + 1
            /\ Gets' - metrics'.produced = (Gets + 1) - metrics.produced
        BY <1>2, <2>8, <3>4, <3>6, Zenon
      <4>2. Gets \in Int
        BY <1>1
      <4> QED BY ONLY <1>12, <4>1, <4>2
    <3> QED BY <3>5, <3>7, <3>8
  <2> QED BY <2>6, <2>7, <2>8
<1> QED BY <1>7, <1>9, <1>10 DEF CountInv

\* The items after a consumer's step.
LEMMA ServeItems ==
  ASSUME IInv, NEW c \in Consumers, NEW was \in {0, 1}, NEW is \in {0, 1}, NEW got \in {0, 1}, NEW st \in {0, 1},
         Serves(c, was, is, got, st)
  PROVE  ItemInv' /\ results' \in [Items -> Seq(Verdicts)]
<1> DEFINE Now(k) == k <= Gets + got /\ k <= metrics.produced
<1>1. /\ call \in Calls /\ Gets \in Int /\ metrics.produced \in Nat /\ Items \subseteq Nat /\ Sentinel \notin Items
      /\ \A d \in Consumers : d \in Tasks
  BY CallTypes, Numbers DEF IInv, TypeOK
<1>2. /\ Gets' = Gets + got /\ metrics'.produced = metrics.produced /\ is <= got
  BY ServeNumbers
<1>3. ItemInv /\ QueueInv /\ TypeOK /\ PhaseInv
  BY DEF IInv
<1>4. call' = call /\ Consumers' = Consumers /\ Items' = Items
  BY DEF Serves, Consumers, Items
<1>5. /\ results \in [Items -> Seq(Verdicts)]
      /\ \A d \in Consumers : item[d] \in Items \cup {Sentinel} /\ item'[d] \in Items \cup {Sentinel}
  BY <1>1 DEF IInv, TypeOK, Serves
<1>6. \A k \in Nat : Taken(k) => Now(k)
  BY <1>1, <1>2 DEF Taken
<1>16. \A k : (k <= Gets' /\ k <= metrics'.produced) <=> Now(k)
  BY <1>2
<1>7. ASSUME got = 1, item'[c] # Sentinel
      PROVE  /\ item'[c] = Gets + 1 /\ pc'[c] = "calling" /\ Now(item'[c])
             /\ \A k \in Nat : Taken(k) => k # item'[c]
  <2>1. queue # <<>> /\ Head(queue) # Sentinel /\ pc'[c] = "calling" /\ item'[c] = Head(queue)
    BY <1>7 DEF Serves
  <2>2. Gets + 1 <= metrics.produced /\ Head(queue) = Gets + 1
    BY <1>3, <2>1, HeadIsNext
  <2> QED BY <1>1, <1>2, <1>7, <2>1, <2>2 DEF Taken
<1>8. ASSUME st = 1
      PROVE  /\ pc[c] = "calling" /\ item[c] \in Items /\ Taken(item[c]) /\ results[item[c]] = <<>>
             /\ \E v \in Verdicts : /\ v = "value" \/ call.return_exceptions
                                    /\ results' = [results EXCEPT ![item[c]] = <<v>>]
  <2>1. pc[c] = "calling"
    BY <1>8 DEF Serves
  <2>2. item[c] \in Items /\ Taken(item[c]) /\ results[item[c]] = <<>>
    BY <1>3, <1>5, <2>1 DEF ItemInv
  <2>3. PICK v \in Verdicts : /\ v = "value" \/ call.return_exceptions
                              /\ results' = [results EXCEPT ![item[c]] = Append(@, v)]
    BY <1>8 DEF Serves
  <2>4. Append(<<>>, v) = <<v>>
    OBVIOUS
  <2>5. results' = [results EXCEPT ![item[c]] = <<v>>]
    BY <2>2, <2>3, <2>4
  <2> QED BY <2>1, <2>2, <2>3, <2>5
<1>9. /\ results' \in [Items -> Seq(Verdicts)]
      /\ \A k \in Items :
           \/ results'[k] = results[k]
           \/ /\ st = 1 /\ k = item[c] /\ Taken(k) /\ results[k] = <<>>
              /\ \E v \in Verdicts : (v = "value" \/ call.return_exceptions) /\ results'[k] = <<v>>
  <2>1. CASE st = 0
    BY <1>5, <2>1 DEF Serves
  <2>2. CASE st = 1
    <3>1. PICK v \in Verdicts : /\ v = "value" \/ call.return_exceptions
                                /\ results' = [results EXCEPT ![item[c]] = <<v>>]
      BY <1>8, <2>2
    <3>2. <<v>> \in Seq(Verdicts)
      BY <3>1
    <3> QED BY <1>5, <1>8, <2>2, <3>1, <3>2
  <2> QED BY <2>1, <2>2
<1>10. \A v : <<v>> # <<>>
  OBVIOUS
<1>21. ASSUME st = 1 PROVE results'[item[c]] # <<>>
  <2>1. PICK v \in Verdicts : results' = [results EXCEPT ![item[c]] = <<v>>]
    BY <1>8, <1>21
  <2>2. item[c] \in Items
    BY <1>8, <1>21
  <2>3. results'[item[c]] = <<v>>
    BY <1>5, <2>1, <2>2
  <2> QED BY <1>10, <2>3
<1>11. ASSUME NEW d \in Consumers
       PROVE  /\ item'[d] # Sentinel => Now(item'[d])
              /\ pc'[d] = "calling" => item'[d] # Sentinel /\ results'[item'[d]] = <<>>
              /\ pc'[d] \in {"absent", "created"} => item'[d] = Sentinel
  <2>1. CASE d # c
    <3>1. pc'[d] = pc[d] /\ item'[d] = item[d]
      BY <2>1 DEF Serves
    <3>2. item[d] # Sentinel => Now(item[d])
      BY <1>1, <1>3, <1>5, <1>6 DEF ItemInv
    <3>3. ASSUME pc[d] = "calling"
          PROVE  item[d] # Sentinel /\ results'[item[d]] = <<>>
      <4>1. item[d] # Sentinel /\ item[d] # item[c] /\ results[item[d]] = <<>> /\ item[d] \in Items
        BY <1>3, <1>5, <2>1, <3>3 DEF ItemInv
      <4>2. results'[item[d]] = results[item[d]]
        BY <1>9, <4>1
      <4> QED BY <4>1, <4>2
    <3>4. pc[d] \in {"absent", "created"} => item[d] = Sentinel
      BY <1>3 DEF ItemInv
    <3> QED BY <3>1, <3>2, <3>3, <3>4
  <2>2. CASE d = c /\ got = 0
    <3>1. item'[c] = item[c] /\ pc'[c] # "calling" /\ pc'[c] \notin {"absent", "created"}
      BY <1>2, <2>2 DEF Serves
    <3>2. item[c] # Sentinel => Now(item[c])
      BY <1>1, <1>3, <1>5, <1>6 DEF ItemInv
    <3> QED BY <2>2, <3>1, <3>2
  <2>3. CASE d = c /\ got = 1
    <3>1. pc'[c] \notin {"absent", "created"}
      BY DEF Serves
    <3>2. item'[c] # Sentinel => Now(item'[c])
      BY <1>7, <2>3
    <3>3. ASSUME pc'[c] = "calling"
          PROVE  item'[c] # Sentinel /\ results'[item'[c]] = <<>>
      <4>1. Head(queue) # Sentinel /\ item'[c] = Head(queue)
        BY <2>3, <3>3 DEF Serves
      <4>2. item'[c] \in Items /\ ~Taken(item'[c])
        BY <1>1, <1>5, <1>7, <2>3, <4>1
      <4> QED BY <1>3, <1>9, <4>1, <4>2 DEF ItemInv
    <3> QED BY <2>3, <3>1, <3>2, <3>3
  <2> QED BY <2>1, <2>2, <2>3
<1>20. ASSUME NEW d \in Consumers, pc'[d] = "getting"
       PROVE  item'[d] = Sentinel \/ results'[item'[d]] # <<>>
  <2>1. CASE d # c
    <3>1. pc[d] = "getting" /\ item'[d] = item[d]
      BY <1>20, <2>1 DEF Serves
    <3>2. item[d] = Sentinel \/ (item[d] \in Items /\ results[item[d]] # <<>>)
      BY <1>3, <1>5, <3>1 DEF ItemInv
    <3> QED BY <1>9, <1>10, <3>1, <3>2
  <2>2. CASE d = c
    <3>1. item'[c] = item[c] /\ (st = 1 \/ pc[c] = "created")
      BY <1>20, <2>2 DEF Serves
    <3>2. pc[c] = "created" => item[c] = Sentinel
      BY <1>3 DEF ItemInv
    <3>3. st = 1 => results'[item[c]] # <<>>
      BY <1>21
    <3> QED BY <2>2, <3>1, <3>2, <3>3
  <2> QED BY <2>1, <2>2
<1>12. ASSUME NEW d \in Consumers, d # c, item'[c] = item'[d]
       PROVE  item'[c] = Sentinel
  <2>1. item'[d] = item[d]
    BY <1>12 DEF Serves
  <2>2. CASE got = 0
    <3>1. item'[c] = item[c]
      BY <2>2 DEF Serves
    <3> QED BY <1>3, <1>12, <2>1, <3>1 DEF ItemInv
  <2>3. CASE got = 1
    <3>1. item[d] # Sentinel => Taken(item[d]) /\ item[d] \in Nat
      BY <1>1, <1>3, <1>5 DEF ItemInv
    <3> QED BY <1>7, <1>12, <2>1, <2>3, <3>1
  <2> QED BY <2>2, <2>3
<1>13. \A d, e \in Consumers : item'[d] = item'[e] => d = e \/ item'[d] = Sentinel
  <2>1. \A d, e \in Consumers \ {c} : item'[d] = item'[e] => d = e \/ item'[d] = Sentinel
    BY <1>3 DEF ItemInv, Serves
  <2> QED BY <1>12, <2>1
<1>14. ASSUME NEW k \in Items
       PROVE  /\ results'[k] # <<>> => Now(k)
              /\ \/ results'[k] = <<>> \/ results'[k] = <<"value">>
                 \/ call.return_exceptions /\ \E v \in Verdicts : results'[k] = <<v>>
  <2>1. /\ results[k] # <<>> => Taken(k)
        /\ \/ results[k] = <<>> \/ results[k] = <<"value">>
           \/ call.return_exceptions /\ \E v \in Verdicts : results[k] = <<v>>
    BY <1>3 DEF ItemInv
  <2> QED BY <1>1, <1>6, <1>9, <2>1
<1>15. ASSUME NEW k \in Items, Now(k), ~failed'
       PROVE  results'[k] # <<>> \/ \E d \in Calling' : item'[d] = k
  <2>1. ~failed /\ st = was
    BY <1>15 DEF Serves
  <2>2. CASE Taken(k)
    <3>1. CASE results[k] # <<>>
      BY <1>9, <1>10, <3>1
    <3>2. ASSUME NEW d \in Calling, item[d] = k
          PROVE  results'[k] # <<>> \/ \E e \in Calling' : item'[e] = k
      <4>1. CASE d = c
        <5>1. st = 1
          BY <2>1, <3>2, <4>1 DEF Calling, Serves
        <5>2. results'[k] # <<>>
          BY <1>21, <3>2, <4>1, <5>1
        <5> QED BY <5>2
      <4>2. CASE d # c
        <5>1. d \in Calling' /\ item'[d] = k
          BY <1>4, <3>2, <4>2 DEF Calling, Serves
        <5> QED BY <5>1
      <4> QED BY <4>1, <4>2
    <3>3. results[k] # <<>> \/ \E d \in Calling : item[d] = k
      BY <1>3, <2>1, <2>2 DEF ItemInv
    <3> QED BY <3>1, <3>2, <3>3
  <2>3. CASE ~Taken(k)
    <3>1. got = 1 /\ k = Gets + 1 /\ Gets + 1 <= metrics.produced
      BY <1>1, <1>2, <1>15, <2>3 DEF Taken
    <3>2. queue # <<>>
      BY <3>1 DEF Serves
    <3>3. Head(queue) = k /\ Head(queue) # Sentinel
      BY <1>1, <1>3, <3>1, <3>2, HeadIsNext
    <3>4. pc'[c] = "calling" /\ item'[c] = k
      BY <2>1, <3>1, <3>3 DEF Serves
    <3> QED BY <1>4, <3>4 DEF Calling
  <2> QED BY <2>2, <2>3
<1> HIDE DEF Now
<1>17. \A d \in Consumers : /\ item'[d] # Sentinel => item'[d] <= Gets' /\ item'[d] <= metrics'.produced
                            /\ pc'[d] = "calling" => item'[d] # Sentinel /\ results'[item'[d]] = <<>>
                            /\ pc'[d] \in {"absent", "created"} => item'[d] = Sentinel
                            /\ pc'[d] = "getting" => item'[d] = Sentinel \/ results'[item'[d]] # <<>>
  BY <1>11, <1>16, <1>20
<1>18. \A k \in Items :
         /\ results'[k] # <<>> => k <= Gets' /\ k <= metrics'.produced
         /\ \/ results'[k] = <<>> \/ results'[k] = <<"value">>
            \/ call.return_exceptions /\ \E v \in Verdicts : results'[k] = <<v>>
         /\ (k <= Gets' /\ k <= metrics'.produced /\ ~failed') => results'[k] # <<>> \/ \E d \in Calling' : item'[d] = k
  BY <1>14, <1>15, <1>16
<1>19. ItemInv'
  BY <1>4, <1>13, <1>17, <1>18 DEF ItemInv, Taken, Verdicts, Outcomes
<1> QED BY <1>9, <1>19

\* A consumer's step keeps what is said of the data.
LEMMA ConsumerData ==
  ASSUME IInv, NEW c \in Consumers, NEW was \in {0, 1}, NEW is \in {0, 1}, NEW got \in {0, 1}, NEW st \in {0, 1},
         Serves(c, was, is, got, st)
  PROVE  Data' /\ UNCHANGED <<metrics.produced, metrics.producer_pauses>>
<1>1. /\ metrics'.produced = metrics.produced /\ metrics'.producer_pauses = metrics.producer_pauses
      /\ queue' \in Seq(Items \cup {Sentinel}) /\ metrics'.consumed = metrics.consumed + st
      /\ metrics.consumed \in Nat /\ metrics.produced \in 0..call.length /\ call.length \in Nat
  <2>1. /\ metrics'.produced = metrics.produced /\ metrics'.producer_pauses = metrics.producer_pauses
        /\ queue' \in Seq(Items \cup {Sentinel}) /\ metrics'.consumed = metrics.consumed + st
    BY ServeNumbers
  <2>2. TypeOK /\ call \in Calls /\ metrics.produced \in 0..call.length
    BY DEF IInv, TypeOK
  <2>3. metrics.consumed \in Nat /\ call.length \in Nat
    BY <2>2, Numbers, CallTypes
  <2> QED BY <2>1, <2>2, <2>3
<1>2. QueueInv' /\ CountInv' /\ ItemInv' /\ results' \in [Items -> Seq(Verdicts)]
  BY ServeQueue, ServeCounts, ServeItems
<1>3. call' = call /\ item' \in [Tasks -> Items \cup {Sentinel}] /\ Tasks' = Tasks /\ Items' = Items
  BY DEF Serves, Tasks, Consumers, Items
<1>4. unfinished' \in Nat
  <2>1. TaskDoneMatchesGet' /\ Len(queue') \in Nat
    BY <1>2, ServeNumbers DEF CountInv
  <2>2. call' \in Calls
    BY <1>3 DEF IInv, TypeOK
  <2>3. Cardinality(Calling') \in Nat
    <3>1. Calling' \subseteq Consumers /\ IsFiniteSet(Consumers)
      BY <1>3, CallTypes DEF Calling, Consumers, IInv, TypeOK
    <3> QED BY <3>1, FS_Subset, FS_CardinalityType
  <2> QED BY <2>1, <2>3 DEF TaskDoneMatchesGet
<1>5. metrics.consumed + st \in 0..call.length
  <2>1. metrics.consumed \in 0..call.length
    BY DEF IInv, TypeOK
  <2>2. CASE st = 0
    BY <1>1, <2>1, <2>2
  <2>3. CASE st = 1
    <3>1. metrics.consumed + unfinished <= metrics.produced + Len(queue) /\ unfinished = Len(queue) + Cardinality(Calling)
      BY DEF IInv, CountInv, TaskDoneMatchesGet
    <3>2. Calling # {} /\ IsFiniteSet(Calling) /\ Cardinality(Calling) \in Nat
      BY <2>3, FiniteConsumers DEF Serves, Calling, IInv, TypeOK
    <3>3. Cardinality(Calling) # 0
      BY <3>2, FS_EmptySet
    <3>4. Len(queue) \in Nat /\ unfinished \in Nat
      BY Numbers DEF IInv
    <3>5. PICK n \in Nat, q \in Nat, a \in Nat, p \in Nat, l \in Nat :
            n = Cardinality(Calling) /\ q = Len(queue) /\ a = metrics.consumed /\ p = metrics.produced /\ l = call.length
      BY <1>1, <3>2, <3>4
    <3>7. p <= l
      BY <1>1, <3>5
    <3>8. n # 0 /\ unfinished = q + n /\ a + unfinished <= p + q
      BY <3>1, <3>3, <3>5
    <3>9. n # 0 /\ a + (q + n) <= p + q
      BY <3>8
    <3>6. a + 1 \in 0..l
      BY ONLY <3>7, <3>9
    <3> QED BY <2>3, <3>5, <3>6
  <2> QED BY <2>2, <2>3
<1>6. metrics' \in [produced : 0..call.length, consumed : 0..call.length,
                    producer_pauses : 0..call.length, max_queue_depth : {0} \cup 1..call.queue_size]
  <2>1. CASE st = 0
    BY <2>1 DEF Serves, IInv, TypeOK
  <2>2. CASE st = 1
    BY <1>5, <2>2 DEF Serves, IInv, TypeOK
  <2> QED BY <2>1, <2>2
<1>7. DataTypes'
  BY <1>1, <1>2, <1>3, <1>4, <1>6 DEF DataTypes
<1> QED BY <1>1, <1>2, <1>7 DEF Data

-----------------------------------------------------------------------------
(* A consumer's steps.                                                     *)

ControlTypes ==
  /\ call \in Calls
  /\ status \in {"entry", "waiting", "refused", "returned", "errors", "cancelled"}
  /\ pc \in [Tasks -> Positions]
  /\ throw \in [Tasks -> BOOLEAN]
  /\ expired \in [Tasks -> BOOLEAN]
  /\ cancelling \in [Tasks -> Nat]
  /\ raised \in [Tasks -> Verdicts \cup {"none"}]
  /\ errors \subseteq Tasks
  /\ cancelled \in BOOLEAN /\ failed \in BOOLEAN
  /\ aborting \in BOOLEAN /\ requested \in BOOLEAN
  /\ wake \in BOOLEAN /\ propagate \in BOOLEAN

SourceTypes == pulled \in 0..call.length /\ started \in {0} \cup Consumers /\ closed \in 0..started

\* The types, by who changes what.
LEMMA TypeParts == (TypeOK <=> ControlTypes /\ SourceTypes /\ DataTypes)
BY DEF TypeOK, ControlTypes, SourceTypes, DataTypes

\* The parts of the invariant after a step make up the whole.
LEMMA Reassembled ==
  ASSUME ControlTypes', SourceTypes', Control', SourceInv', Data'
  PROVE  IInv'
<1>1. TypeOK'
  BY DEF TypeOK, ControlTypes, SourceTypes, DataTypes, Data
<1> QED BY <1>1 DEF IInv, Control, Data

\* The producer's progress is not a consumer's business.
LEMMA SourceStays ==
  ASSUME IInv, UNCHANGED <<call, source, metrics.produced, metrics.producer_pauses>>,
         pc'[Producer] = pc[Producer], raised'[Producer] = raised[Producer]
  PROVE  SourceInv' /\ SourceTypes'
<1>1. SourceInv /\ SourceTypes /\ UNCHANGED <<call, pulled, started, closed>>
  BY TypeParts DEF IInv, source
<1>2. metrics'.produced = metrics.produced /\ metrics'.producer_pauses = metrics.producer_pauses
  OBVIOUS
<1>3. SourceTypes'
  BY <1>1 DEF SourceTypes, Consumers
<1>4. SourceInv'
  BY <1>1, <1>2 DEF SourceInv
<1> QED BY <1>3, <1>4

\* A consumer's step, when it keeps what is said of the data.
LEMMA ConsumerMove ==
  ASSUME IInv, NEW c \in Consumers, pc[c] \in {"created", "getting", "calling"},
         UNCHANGED <<call, status, cancelled, source, group, metrics.produced, metrics.producer_pauses>>,
         pc' \in [Tasks -> Positions], raised' \in [Tasks -> Verdicts \cup {"none"}],
         throw' \in [Tasks -> BOOLEAN], cancelling' \in [Tasks -> Nat], expired' \in [Tasks -> BOOLEAN],
         \A u \in Tasks \ {c} : pc'[u] = pc[u] /\ raised'[u] = raised[u] /\ throw'[u] = throw[u],
         pc'[c] \in {"getting", "calling", "ended"},
         raised'[c] # "none" => pc'[c] = "ended",
         raised'[c] \in {"none", "cancelled"} \cup Failures,
         raised'[c] \in Failures => failed',
         raised'[c] = "cancelled" => Stopping,
         pc'[c] = "getting" => ~aborting /\ ~throw'[c],
         call.return_exceptions => raised'[c] \in {"none", "cancelled", "base"},
         failed' \in BOOLEAN, failed => failed',
         failed' => failed \/ raised'[c] \in Failures \/ raised'[c] = "cancelled",
         Data'
  PROVE  IInv'
<1>1. /\ call \in Calls /\ c \in Tasks /\ Producer \in Tasks /\ c # Producer
      /\ UNCHANGED <<call, status, cancelled, pulled, started, closed, aborting, errors, requested, wake, propagate>>
  BY CallTypes DEF IInv, TypeOK, source, group
<1>2. Tasks' = Tasks
  BY <1>1 DEF Tasks, Consumers
<1>3. ControlTypes'
  BY <1>1, <1>2 DEF ControlTypes, IInv, TypeOK
<1>4. SourceInv' /\ SourceTypes'
  <2>1. pc'[Producer] = pc[Producer] /\ raised'[Producer] = raised[Producer]
    BY <1>1
  <2> QED BY <2>1, SourceStays
<1>5. TypeOK'
  BY <1>3, <1>4 DEF TypeOK, ControlTypes, SourceTypes, DataTypes, Data
<1>6. Moves(c)
  BY <1>1 DEF Moves
<1>7. Control'
  <2>1. pc[c] \in Undone
    BY DEF Undone
  <2>2. throw'[c] /\ pc'[c] \in Parked => aborting
    BY DEF Parked
  <2>3. aborting /\ pc'[c] \in Parked => throw'[c]
    BY DEF Parked
  <2> QED BY <1>1, <1>5, <1>6, <2>1, <2>2, <2>3, MoveStep
<1> QED BY <1>3, <1>4, <1>7, Reassembled

\* What the top of the loop comes to.
LEMMA LoopTopServes ==
  ASSUME IInv, NEW c \in Consumers, pc[c] \in {"created", "getting", "calling"},
         NEW open, open = unfinished - IF pc[c] = "calling" THEN 1 ELSE 0,
         LoopTop(c, open) \/ Take(c, open), pc[c] = "getting" => Take(c, open),
         UNCHANGED <<call, closed, failed>>,
         pc[c] # "calling" => UNCHANGED <<results, metrics>>,
         pc[c] = "calling" =>
                    /\ \E v \in Verdicts : /\ v = "value" \/ call.return_exceptions
                                           /\ results' = [results EXCEPT ![item[c]] = Append(@, v)]
                    /\ metrics' = [metrics EXCEPT !.consumed = @ + 1]
  PROVE  /\ Data' /\ UNCHANGED <<metrics.produced, metrics.producer_pauses>>
         /\ pc' \in [Tasks -> Positions] /\ raised' \in [Tasks -> Verdicts \cup {"none"}]
         /\ \A u \in Tasks \ {c} : pc'[u] = pc[u] /\ raised'[u] = raised[u]
         /\ pc'[c] \in {"getting", "calling", "ended"}
         /\ raised'[c] \in {"none", "cancelled"}
         /\ raised'[c] # "none" => pc'[c] = "ended"
         /\ raised'[c] = "cancelled" => Stopping
         /\ pc'[c] = "getting" => ~Stopping
         /\ \E was, is, got \in {0, 1} : Serves(c, was, is, got, was)
<1>6. PICK was \in {0, 1} : (was = 1 <=> pc[c] = "calling") /\ open = unfinished - was
  OBVIOUS
<1>7. /\ was = 0 => UNCHANGED <<results, metrics>>
      /\ was = 1 => /\ \E v \in Verdicts : /\ v = "value" \/ call.return_exceptions
                                           /\ results' = [results EXCEPT ![item[c]] = Append(@, v)]
                    /\ metrics' = [metrics EXCEPT !.consumed = @ + 1]
  BY <1>6
<1>1. /\ call \in Calls /\ c \in Tasks /\ unfinished \in Nat /\ \A d \in Consumers : d \in Tasks
      /\ pc \in [Tasks -> Positions] /\ raised \in [Tasks -> Verdicts \cup {"none"}]
      /\ item \in [Tasks -> Items \cup {Sentinel}] /\ queue \in Seq(Items \cup {Sentinel})
  BY CallTypes, Numbers DEF IInv, TypeOK
<1>2. raised[c] = "none" /\ pc[c] \notin Settled
  BY <1>1 DEF IInv, TaskInv, Settled
<1>3. "cancelled" \in Verdicts
  BY DEF Verdicts, Outcomes
<1>4. CASE Take(c, open)
  <2>1. queue # <<>> /\ queue' = Tail(queue) /\ raised' = raised
    BY <1>4 DEF Take
  <2>2. CASE Head(queue) = Sentinel \/ failed
    <3>1. /\ unfinished' = unfinished - was - 1 /\ pc' = [pc EXCEPT ![c] = "ended"]
          /\ item' = [item EXCEPT ![c] = Sentinel]
      BY <1>4, <1>6, <2>2 DEF Take
    <3>2. item' \in [Tasks -> Items \cup {Sentinel}]
      BY <1>1, <3>1
    <3>3. unfinished' = unfinished - was + 0 - 1
      BY <1>1, <3>1
    <3>4. Serves(c, was, 0, 1, was)
      BY <1>1, <1>2, <1>6, <1>7, <2>1, <2>2, <3>1, <3>2, <3>3 DEF Serves
    <3>5. Data' /\ UNCHANGED <<metrics.produced, metrics.producer_pauses>>
      BY <3>4, ConsumerData
    <3> QED BY <1>1, <1>2, <1>6, <1>7, <2>1, <3>1, <3>4, <3>5 DEF Positions
  <2>3. CASE ~ (Head(queue) = Sentinel \/ failed)
    <3>1. /\ unfinished' = unfinished - was /\ pc' = [pc EXCEPT ![c] = "calling"]
          /\ item' = [item EXCEPT ![c] = Head(queue)]
      BY <1>4, <1>6, <2>3 DEF Take
    <3>2. item' \in [Tasks -> Items \cup {Sentinel}]
      <4>1. Head(queue) \in Items \cup {Sentinel}
        BY <1>1, <2>1, HeadTailProperties
      <4> QED BY <1>1, <3>1, <4>1
    <3>3. unfinished' = unfinished - was + 1 - 1
      BY <1>1, <3>1
    <3>4. Serves(c, was, 1, 1, was)
      BY <1>1, <1>2, <1>6, <1>7, <2>1, <2>3, <3>1, <3>2, <3>3 DEF Serves
    <3>5. Data' /\ UNCHANGED <<metrics.produced, metrics.producer_pauses>>
      BY <3>4, ConsumerData
    <3> QED BY <1>1, <1>2, <1>6, <1>7, <2>1, <3>1, <3>4, <3>5 DEF Positions, Undone
  <2> QED BY <2>2, <2>3
<1>5. CASE LoopTop(c, open) /\ ~Take(c, open)
  <2>1. /\ unfinished' = unfinished - was /\ queue' = queue /\ item' = item
        /\ \/ Stopping /\ pc' = [pc EXCEPT ![c] = "ended"] /\ raised' = [raised EXCEPT ![c] = "cancelled"]
           \/ ~Stopping /\ pc' = [pc EXCEPT ![c] = "getting"] /\ raised' = raised
    BY <1>5, <1>6 DEF LoopTop, Ends
  <2>2. unfinished' = unfinished - was + 0 - 0
    BY <1>1, <2>1
  <2>3. /\ pc'[c] \in {"ended", "getting"} /\ (pc'[c] = "ended" => raised'[c] = "cancelled")
        /\ \A d \in Tasks \ {c} : pc'[d] = pc[d] /\ raised'[d] = raised[d]
    BY <1>1, <2>1
  <2>7. pc'[c] = "getting" => was = 1 \/ pc[c] = "created"
    BY <1>5, <1>6
  <2>4. Serves(c, was, 0, 0, was)
    BY <1>1, <1>2, <1>6, <1>7, <2>1, <2>2, <2>3, <2>7 DEF Serves, Settled
  <2>5. Data' /\ UNCHANGED <<metrics.produced, metrics.producer_pauses>>
    BY <2>4, ConsumerData
  <2>6. pc' \in [Tasks -> Positions] /\ raised' \in [Tasks -> Verdicts \cup {"none"}]
    BY <1>1, <1>3, <2>1 DEF Positions, Undone
  <2> QED BY <1>1, <1>2, <1>6, <1>7, <2>1, <2>3, <2>4, <2>5, <2>6
<1> QED BY <1>4, <1>5

\* A consumer that starts, or gets an item.
LEMMA ConsumerTakes ==
  ASSUME IInv, NEW c \in Consumers, ConsumerStart(c) \/ GetUnblocks(c)
  PROVE  IInv'
<1>1. /\ call \in Calls /\ c \in Tasks /\ throw \in [Tasks -> BOOLEAN] /\ cancelling \in [Tasks -> Nat]
      /\ expired \in [Tasks -> BOOLEAN] /\ failed \in BOOLEAN /\ unfinished \in Nat
  BY CallTypes DEF IInv, TypeOK
<1>2. /\ UNCHANGED <<call, status, cancelled, throw, cancelling, expired, source, results, metrics, failed, group>>
      /\ pc[c] \in {"created", "getting"} /\ ~throw[c]
      /\ LoopTop(c, unfinished) \/ Take(c, unfinished)
      /\ pc[c] = "getting" => Take(c, unfinished)
  BY DEF ConsumerStart, GetUnblocks
<1>3. unfinished = unfinished - (IF pc[c] = "calling" THEN 1 ELSE 0) /\ closed' = closed
  BY <1>1, <1>2 DEF source
<1>5. /\ Data' /\ UNCHANGED <<metrics.produced, metrics.producer_pauses>>
      /\ pc' \in [Tasks -> Positions] /\ raised' \in [Tasks -> Verdicts \cup {"none"}]
      /\ \A u \in Tasks \ {c} : pc'[u] = pc[u] /\ raised'[u] = raised[u]
      /\ pc'[c] \in {"getting", "calling", "ended"}
      /\ raised'[c] \in {"none", "cancelled"}
      /\ raised'[c] # "none" => pc'[c] = "ended"
      /\ raised'[c] = "cancelled" => Stopping
      /\ pc'[c] = "getting" => ~Stopping
  BY <1>2, <1>3, LoopTopServes
<1>6. aborting => Stopping
  BY DEF IInv, GroupInv, Stopping, CallerCancelled
<1>7. raised'[c] \notin Failures
  BY <1>5 DEF Failures
<1> QED BY <1>1, <1>2, <1>5, <1>6, <1>7, ConsumerMove

\* A consumer that is cancelled while it waits.
LEMMA ConsumerCancels ==
  ASSUME IInv, NEW c \in Consumers, ConsumerCancelled(c)
  PROVE  IInv'
<1>1. /\ call \in Calls /\ c \in Tasks /\ throw \in [Tasks -> BOOLEAN] /\ cancelling \in [Tasks -> Nat]
      /\ expired \in [Tasks -> BOOLEAN] /\ failed \in BOOLEAN
      /\ pc \in [Tasks -> Positions] /\ raised \in [Tasks -> Verdicts \cup {"none"}]
  BY CallTypes DEF IInv, TypeOK
<1>2. /\ UNCHANGED <<call, status, cancelled, cancelling, expired, item, source, data, failed, group>>
      /\ pc[c] \in {"created", "getting"} /\ throw[c]
      /\ throw' = [throw EXCEPT ![c] = FALSE]
      /\ pc' = [pc EXCEPT ![c] = "ended"] /\ raised' = [raised EXCEPT ![c] = "cancelled"]
  BY DEF ConsumerCancelled, Ends
<1>3. pc' \in [Tasks -> Positions] /\ raised' \in [Tasks -> Verdicts \cup {"none"}] /\ throw' \in [Tasks -> BOOLEAN]
  BY <1>1, <1>2 DEF Positions, Verdicts, Outcomes
<1>4. /\ pc'[c] = "ended" /\ raised'[c] = "cancelled" /\ ~throw'[c] /\ raised[c] = "none"
      /\ \A u \in Tasks \ {c} : pc'[u] = pc[u] /\ raised'[u] = raised[u] /\ throw'[u] = throw[u]
  BY <1>1, <1>2 DEF IInv, TaskInv, Settled
<1>5. Stopping
  <2>1. aborting
    BY <1>1, <1>2 DEF IInv, TaskInv, Parked
  <2> QED BY <2>1 DEF IInv, GroupInv, Stopping, CallerCancelled
<1>6. ConsumersStay
  <2>1. \A d \in Consumers : d \in Tasks
    BY <1>1, CallTypes
  <2> QED BY <1>2, <1>4, <2>1 DEF ConsumersStay, Settled
<1>7. Data' /\ UNCHANGED <<metrics.produced, metrics.producer_pauses>>
  <2>1. UNCHANGED <<call, closed, data, item>> /\ metrics' = metrics /\ (failed => failed')
    BY <1>2 DEF source, data
  <2> QED BY <1>6, <2>1, QuietData
<1>8. raised'[c] \notin Failures
  BY <1>4 DEF Failures
<1> QED BY <1>1, <1>2, <1>3, <1>4, <1>5, <1>7, <1>8, ConsumerMove

\* What happens to a call of fn that goes on.
LEMMA FnGoesOn ==
  ASSUME IInv, NEW c \in Consumers, FnStep(c)
  PROVE  IInv'
<1>1. /\ call \in Calls /\ c \in Tasks /\ throw \in [Tasks -> BOOLEAN] /\ cancelling \in [Tasks -> Nat]
      /\ expired \in [Tasks -> BOOLEAN] /\ failed \in BOOLEAN
      /\ pc \in [Tasks -> Positions] /\ raised \in [Tasks -> Verdicts \cup {"none"}]
  BY CallTypes DEF IInv, TypeOK
<1>2. /\ UNCHANGED <<call, status, cancelled, pc, item, raised, source, data, failed, group>>
      /\ pc[c] = "calling"
  BY DEF FnStep, Deadline, FnAbsorbsCancel, FnLeaksCancelCount
<1>3. /\ throw' \in [Tasks -> BOOLEAN] /\ cancelling' \in [Tasks -> Nat] /\ expired' \in [Tasks -> BOOLEAN]
      /\ \A u \in Tasks \ {c} : throw'[u] = throw[u]
  <2>1. CASE Deadline(c)
    <3>1. /\ throw' = [throw EXCEPT ![c] = TRUE] /\ expired' = [expired EXCEPT ![c] = TRUE]
          /\ cancelling' = [cancelling EXCEPT ![c] = @ + 1]
      BY <2>1 DEF Deadline
    <3>2. cancelling[c] + 1 \in Nat
      BY <1>1
    <3> QED BY <1>1, <3>1, <3>2
  <2>2. CASE FnAbsorbsCancel(c)
    BY <1>1, <2>2 DEF FnAbsorbsCancel
  <2>3. CASE FnLeaksCancelCount(c)
    BY <1>1, <2>3 DEF FnLeaksCancelCount
  <2> QED BY <2>1, <2>2, <2>3 DEF FnStep
<1>4. raised[c] = "none"
  BY <1>1, <1>2 DEF IInv, TaskInv, Settled
<1>5. ConsumersStay
  BY <1>2 DEF ConsumersStay
<1>6. Data' /\ UNCHANGED <<metrics.produced, metrics.producer_pauses>>
  <2>1. UNCHANGED <<call, closed, data, item>> /\ metrics' = metrics /\ (failed => failed')
    BY <1>2 DEF source, data
  <2> QED BY <1>5, <2>1, QuietData
<1>7. raised'[c] \notin Failures
  BY <1>2, <1>4 DEF Failures
<1> QED BY <1>1, <1>2, <1>3, <1>4, <1>6, <1>7, ConsumerMove

\* A call of fn that ends.
LEMMA FnIsSettled ==
  ASSUME IInv, NEW c \in Consumers, NEW out \in FnOutcomes, Settle(c, out)
  PROVE  IInv'
<1> DEFINE verdict == Verdict(out, expired[c], cancelling[c], Stopping)
<1>1. /\ call \in Calls /\ c \in Tasks /\ throw \in [Tasks -> BOOLEAN] /\ cancelling \in [Tasks -> Nat]
      /\ expired \in [Tasks -> BOOLEAN] /\ failed \in BOOLEAN /\ unfinished \in Nat
      /\ pc \in [Tasks -> Positions] /\ raised \in [Tasks -> Verdicts \cup {"none"}]
      /\ cancelled \in BOOLEAN /\ requested \in BOOLEAN /\ item \in [Tasks -> Items \cup {Sentinel}]
      /\ \A d \in Consumers : d \in Tasks
  BY CallTypes DEF IInv, TypeOK
<1>2. /\ UNCHANGED <<call, status, cancelled, source, group>> /\ pc[c] = "calling"
      /\ throw' = [throw EXCEPT ![c] = FALSE] /\ cancelling' = [cancelling EXCEPT ![c] = 0]
      /\ expired' = [expired EXCEPT ![c] = FALSE] /\ closed' = closed
  BY DEF Settle, source
<1>3. /\ throw' \in [Tasks -> BOOLEAN] /\ cancelling' \in [Tasks -> Nat] /\ expired' \in [Tasks -> BOOLEAN]
      /\ ~throw'[c] /\ \A u \in Tasks \ {c} : throw'[u] = throw[u]
  BY <1>1, <1>2
<1>4. PICK v \in Verdicts : v = verdict
  <2>1. out \in Outcomes /\ expired[c] \in BOOLEAN
    BY <1>1, OutcomesAssumption
  <2> QED BY <2>1, VerdictType
<1>5. v = "cancelled" => Stopping
  <2>1. Stopping \in BOOLEAN
    BY <1>1 DEF Stopping, CallerCancelled
  <2> QED BY <1>4, <2>1, CancelledVerdict
<1>6. aborting => Stopping
  BY DEF IInv, GroupInv, Stopping, CallerCancelled
<1> DEFINE stored == v = "value" \/ (call.return_exceptions /\ IsException(v))
<1>7. CASE stored
  <2>1. /\ results' = [results EXCEPT ![item[c]] = Append(@, v)]
        /\ metrics' = [metrics EXCEPT !.consumed = @ + 1]
        /\ LoopTop(c, unfinished - 1) /\ failed' = failed
    BY <1>4, <1>7 DEF Settle
  <2>2. /\ Data' /\ UNCHANGED <<metrics.produced, metrics.producer_pauses>>
        /\ pc' \in [Tasks -> Positions] /\ raised' \in [Tasks -> Verdicts \cup {"none"}]
        /\ \A u \in Tasks \ {c} : pc'[u] = pc[u] /\ raised'[u] = raised[u]
        /\ pc'[c] \in {"getting", "calling", "ended"}
        /\ raised'[c] \in {"none", "cancelled"}
        /\ raised'[c] # "none" => pc'[c] = "ended"
        /\ raised'[c] = "cancelled" => Stopping
        /\ pc'[c] = "getting" => ~Stopping
    <3>1. \E w \in Verdicts : /\ w = "value" \/ call.return_exceptions
                              /\ results' = [results EXCEPT ![item[c]] = Append(@, w)]
      BY <1>7, <2>1
    <3>2. unfinished - 1 = unfinished - (IF pc[c] = "calling" THEN 1 ELSE 0)
      BY <1>2
    <3> QED BY <1>2, <2>1, <3>1, <3>2, LoopTopServes
  <2>3. raised'[c] \notin Failures
    BY <2>2 DEF Failures
  <2> QED BY <1>1, <1>2, <1>3, <1>6, <2>1, <2>2, <2>3, ConsumerMove
<1>8. CASE ~stored
  <2>1. /\ pc' = [pc EXCEPT ![c] = "ended"] /\ raised' = [raised EXCEPT ![c] = v]
        /\ unfinished' = unfinished - 1 /\ failed' = TRUE
        /\ UNCHANGED <<queue, item, results, metrics>>
    BY <1>4, <1>8 DEF Settle, Ends
  <2>2. v \in Failures \cup {"cancelled"} /\ (call.return_exceptions => v \in {"cancelled", "base"})
    BY <1>8, UnstoredVerdict
  <2>3. /\ pc' \in [Tasks -> Positions] /\ raised' \in [Tasks -> Verdicts \cup {"none"}]
        /\ pc'[c] = "ended" /\ raised'[c] = v
        /\ \A u \in Tasks \ {c} : pc'[u] = pc[u] /\ raised'[u] = raised[u]
    BY <1>1, <2>1 DEF Positions
  <2>4. v # "none"
    BY <2>2 DEF Failures
  <2>5. unfinished' = unfinished - 1 + 0 - 0
    BY <1>1, <2>1
  <2>6. Serves(c, 1, 0, 0, 0)
    BY <1>1, <1>2, <2>1, <2>3, <2>4, <2>5 DEF Serves, Settled
  <2>7. Data' /\ UNCHANGED <<metrics.produced, metrics.producer_pauses>>
    BY <2>6, ConsumerData
  <2> QED BY <1>1, <1>2, <1>3, <1>5, <2>1, <2>2, <2>3, <2>7, ConsumerMove
<1> QED BY <1>7, <1>8

-----------------------------------------------------------------------------
(* The producer's steps.                                                   *)

\* A step of the producer, when it keeps what is said of the data and of its
\* own progress.
LEMMA ProducerMove ==
  ASSUME IInv, pc[Producer] \in {"created", "pulling", "putting", "closing"},
         UNCHANGED <<call, status, cancelled, cancelling, expired, group>>,
         pc' \in [Tasks -> Positions], raised' \in [Tasks -> Verdicts \cup {"none"}],
         throw' \in [Tasks -> BOOLEAN],
         Moves(Producer),
         pc'[Producer] \in {"created", "pulling", "putting", "closing", "ended"},
         raised'[Producer] # "none" => pc'[Producer] = "ended",
         raised'[Producer] \in {"none", "cancelled"} \cup Failures,
         raised'[Producer] \in Failures => failed',
         raised'[Producer] = "cancelled" => Stopping,
         pc'[Producer] \in Parked => ~throw'[Producer] /\ ~aborting,
         failed' \in BOOLEAN,
         failed' => failed \/ raised'[Producer] \in Failures \/ raised'[Producer] = "cancelled",
         Data', SourceInv', SourceTypes'
  PROVE  IInv'
<1>1. /\ call \in Calls /\ Producer \in Tasks /\ pc[Producer] \in Undone
      /\ UNCHANGED <<call, status, cancelled, aborting, errors, requested, wake, propagate>>
  BY CallTypes DEF IInv, TypeOK, group, Undone
<1>2. Tasks' = Tasks
  BY <1>1 DEF Tasks, Consumers
<1>3. ControlTypes'
  BY <1>1, <1>2 DEF ControlTypes, IInv, TypeOK
<1>4. TypeOK'
  BY <1>3 DEF TypeOK, ControlTypes, SourceTypes, DataTypes, Data
<1>5. Control'
  <2>1. throw'[Producer] /\ pc'[Producer] \in Parked => aborting
    OBVIOUS
  <2>2. aborting /\ pc'[Producer] \in Parked => throw'[Producer]
    OBVIOUS
  <2> QED BY <1>1, <1>4, <2>1, <2>2, MoveStep
<1> QED BY <1>3, <1>5, Reassembled

\* While nothing stops the pipeline, the group has cancelled nothing.
LEMMA AbortShows ==
  ASSUME IInv
  PROVE  aborting => Stopping
BY DEF IInv, GroupInv, Stopping, CallerCancelled

\* The consumers do not notice a step of the producer that starts none of them.
LEMMA ConsumersUnmoved ==
  ASSUME IInv, \A u \in Tasks \ {Producer} : pc'[u] = pc[u] /\ raised'[u] = raised[u]
  PROVE  ConsumersStay
<1>1. \A d \in Consumers : d \in Tasks /\ d # Producer
  BY CallTypes DEF IInv, TypeOK
<1> QED BY <1>1 DEF ConsumersStay

\* The producer ends with an exception: an item in its hand is dropped.
LEMMA ProducerFails ==
  ASSUME IInv, pc[Producer] \in {"pulling", "putting"},
         NEW exc \in Outcomes \ {"value"}, ProducerRaises(exc), DeliveredToProducer,
         UNCHANGED <<call, status, cancelled, cancelling, expired, item, started, closed, data, group>>,
         pulled' = pulled \/ (pulled' = pulled + 1 /\ pc[Producer] = "pulling" /\ pulled < call.length)
  PROVE  IInv'
<1>1. /\ call \in Calls /\ Producer \in Tasks /\ call.length \in Nat /\ pulled \in Nat /\ metrics.produced \in Nat
      /\ metrics.producer_pauses \in Nat /\ pulled <= call.length /\ throw \in [Tasks -> BOOLEAN]
      /\ pc \in [Tasks -> Positions] /\ raised \in [Tasks -> Verdicts \cup {"none"}]
      /\ call' = call /\ started' = started /\ closed' = closed
      /\ \A c \in Consumers : c \in Tasks /\ c # Producer
  BY CallTypes, Numbers DEF IInv, TypeOK
<1>2. PICK r : r = StrayCancellationAsError(exc, Stopping)
  OBVIOUS
<1>3. r \in Failures \cup {"cancelled"} /\ r \in Verdicts /\ (r = "cancelled" => Stopping) /\ r # "none"
  BY <1>2 DEF StrayCancellationAsError, Failures, Outcomes, Verdicts
<1>4. /\ pc' = [pc EXCEPT ![Producer] = "ended"] /\ raised' = [raised EXCEPT ![Producer] = r]
      /\ failed' = TRUE /\ throw' = [throw EXCEPT ![Producer] = FALSE]
  BY <1>2 DEF ProducerRaises, ProducerEnds, DeliveredToProducer
<1>5. /\ pc' \in [Tasks -> Positions] /\ raised' \in [Tasks -> Verdicts \cup {"none"}]
      /\ throw' \in [Tasks -> BOOLEAN]
      /\ pc'[Producer] = "ended" /\ raised'[Producer] = r
      /\ \A u \in Tasks \ {Producer} : pc'[u] = pc[u] /\ raised'[u] = raised[u] /\ throw'[u] = throw[u]
  BY <1>1, <1>3, <1>4 DEF Positions
<1>6. Moves(Producer)
  BY <1>1, <1>4, <1>5 DEF Moves
<1>7. Data' /\ metrics' = metrics
  <2>1. ConsumersStay
    BY <1>5, ConsumersUnmoved
  <2>2. metrics' = metrics
    BY DEF data
  <2> QED BY <1>1, <1>4, <2>1, <2>2, QuietData
<1>8. SourceTypes'
  BY <1>1 DEF SourceTypes, Consumers, IInv, TypeOK
<1>9. SourceInv'
  <2>1. /\ metrics.produced <= pulled /\ pulled <= metrics.produced + 1
        /\ metrics.producer_pauses <= pulled
        /\ pc[Producer] = "pulling" => metrics.produced = pulled
        /\ started = 0 => metrics.produced = 0
    BY DEF IInv, SourceInv
  <2>2. /\ metrics.produced <= pulled' /\ pulled' <= metrics.produced + 1
        /\ metrics.producer_pauses <= pulled'
    BY <1>1, <2>1
  <2> QED BY <1>1, <1>3, <1>5, <1>7, <2>1, <2>2 DEF SourceInv
<1>10. pc'[Producer] \notin Parked
  BY <1>5 DEF Parked
<1> QED BY <1>3, <1>4, <1>5, <1>6, <1>7, <1>8, <1>9, <1>10, ProducerMove

\* The producer is cancelled before its first step, or behind its sentinels.
LEMMA ProducerCancels ==
  ASSUME IInv, ProducerCancelled
  PROVE  IInv'
<1>1. /\ call \in Calls /\ Producer \in Tasks /\ throw \in [Tasks -> BOOLEAN] /\ failed \in BOOLEAN
      /\ pc \in [Tasks -> Positions] /\ raised \in [Tasks -> Verdicts \cup {"none"}]
      /\ \A c \in Consumers : c \in Tasks /\ c # Producer
  BY CallTypes DEF IInv, TypeOK
<1>2. /\ UNCHANGED <<call, status, cancelled, cancelling, expired, item, source, data, failed, group>>
      /\ pc[Producer] \in {"created", "closing"} /\ throw[Producer]
      /\ pc' = [pc EXCEPT ![Producer] = "ended"] /\ raised' = [raised EXCEPT ![Producer] = "cancelled"]
      /\ throw' = [throw EXCEPT ![Producer] = FALSE]
  BY DEF ProducerCancelled, ProducerEnds, DeliveredToProducer
<1>3. /\ pc' \in [Tasks -> Positions] /\ raised' \in [Tasks -> Verdicts \cup {"none"}]
      /\ throw' \in [Tasks -> BOOLEAN]
      /\ pc'[Producer] = "ended" /\ raised'[Producer] = "cancelled"
      /\ \A u \in Tasks \ {Producer} : pc'[u] = pc[u] /\ raised'[u] = raised[u] /\ throw'[u] = throw[u]
  BY <1>1, <1>2 DEF Positions, Verdicts, Outcomes
<1>4. Stopping
  <2>1. aborting
    BY <1>1, <1>2 DEF IInv, TaskInv, Parked
  <2> QED BY <2>1, AbortShows
<1>5. UNCHANGED <<call, closed, started, pulled, metrics>>
  BY <1>2 DEF source, data
<1>6. Moves(Producer)
  BY <1>1, <1>2, <1>3, <1>5 DEF Moves
<1>7. Data'
  <2>1. ConsumersStay
    BY <1>3, ConsumersUnmoved
  <2> QED BY <1>2, <1>5, <2>1, QuietData
<1>8. SourceTypes'
  BY <1>1, <1>5 DEF SourceTypes, Consumers, IInv, TypeOK
<1>9. SourceInv'
  BY <1>3, <1>5 DEF IInv, SourceInv
<1>10. pc'[Producer] \notin Parked /\ raised'[Producer] \notin Failures
  BY <1>3 DEF Parked, Failures
<1> QED BY <1>1, <1>2, <1>3, <1>4, <1>6, <1>7, <1>8, <1>9, <1>10, ProducerMove

\* The producer's first step, and a cancellation that the source absorbs.
LEMMA ProducerGoesOn ==
  ASSUME IInv, ProducerStart \/ SourceAbsorbsCancel
  PROVE  IInv'
<1>1. /\ call \in Calls /\ Producer \in Tasks /\ throw \in [Tasks -> BOOLEAN] /\ failed \in BOOLEAN
      /\ pc \in [Tasks -> Positions] /\ raised \in [Tasks -> Verdicts \cup {"none"}]
      /\ \A c \in Consumers : c \in Tasks /\ c # Producer
  BY CallTypes DEF IInv, TypeOK
<1>2. /\ UNCHANGED <<call, status, cancelled, cancelling, expired, item, raised, source, data, failed, group>>
      /\ pc[Producer] \in {"created", "pulling"}
      /\ pc' = [pc EXCEPT ![Producer] = "pulling"]
      /\ throw' = throw \/ throw' = [throw EXCEPT ![Producer] = FALSE]
  BY <1>1 DEF ProducerStart, SourceAbsorbsCancel, DeliveredToProducer
<1>3. /\ pc' \in [Tasks -> Positions] /\ throw' \in [Tasks -> BOOLEAN]
      /\ pc'[Producer] = "pulling" /\ raised' = raised /\ raised[Producer] = "none"
      /\ \A u \in Tasks \ {Producer} : pc'[u] = pc[u] /\ raised'[u] = raised[u] /\ throw'[u] = throw[u]
  <2>1. raised[Producer] = "none"
    BY <1>1, <1>2 DEF IInv, TaskInv, Settled
  <2> QED BY <1>1, <1>2, <2>1 DEF Positions, Undone
<1>5. UNCHANGED <<call, closed, started, pulled, metrics>>
  BY <1>2 DEF source, data
<1>6. Moves(Producer)
  BY <1>1, <1>2, <1>3, <1>5 DEF Moves
<1>7. Data'
  <2>1. ConsumersStay
    BY <1>3, ConsumersUnmoved
  <2> QED BY <1>2, <1>5, <2>1, QuietData
<1>8. SourceTypes'
  BY <1>1, <1>5 DEF SourceTypes, Consumers, IInv, TypeOK
<1>9. SourceInv'
  BY <1>2, <1>3, <1>5 DEF IInv, SourceInv, Settled
<1>10. pc'[Producer] \notin Parked /\ raised'[Producer] \notin Failures
  BY <1>3 DEF Parked, Failures
<1> QED BY <1>1, <1>2, <1>3, <1>6, <1>7, <1>8, <1>9, <1>10, ProducerMove

\* The blocked put finds room.
LEMMA PutIsUnblocked ==
  ASSUME IInv, PutUnblocks
  PROVE  IInv'
<1>1. /\ call \in Calls /\ Producer \in Tasks /\ throw \in [Tasks -> BOOLEAN] /\ failed \in BOOLEAN
      /\ pc \in [Tasks -> Positions] /\ raised \in [Tasks -> Verdicts \cup {"none"}]
      /\ \A c \in Consumers : c \in Tasks /\ c # Producer
      /\ pulled \in Nat /\ metrics.produced \in Nat /\ metrics.producer_pauses \in Nat
      /\ call.length \in Nat /\ pulled <= call.length
  BY CallTypes, Numbers DEF IInv, TypeOK
<1>2. /\ UNCHANGED <<call, status, cancelled, throw, cancelling, expired, item, raised, source, results, failed, group>>
      /\ pc[Producer] = "putting" /\ ~throw[Producer] /\ ~Full /\ Enqueue(pulled, 0)
      /\ pc' = [pc EXCEPT ![Producer] = "pulling"]
  BY DEF PutUnblocks
<1>3. /\ pc' \in [Tasks -> Positions] /\ pc'[Producer] = "pulling" /\ raised[Producer] = "none"
      /\ \A u \in Tasks \ {Producer} : pc'[u] = pc[u] /\ raised'[u] = raised[u] /\ throw'[u] = throw[u]
  <2>1. raised[Producer] = "none"
    BY <1>1, <1>2 DEF IInv, TaskInv, Settled
  <2> QED BY <1>1, <1>2, <2>1 DEF Positions, Undone
<1>4. ~Refused
  BY <1>1, <1>2, TaskWaits DEF Undone
<1>5. UNCHANGED <<call, closed, started, pulled>>
  BY <1>2 DEF source
<1>6. Moves(Producer)
  BY <1>1, <1>2, <1>3, <1>5 DEF Moves
<1>7. /\ metrics.produced < pulled /\ pulled <= metrics.produced + 1 /\ closed = 0
      /\ metrics.producer_pauses <= pulled /\ (started = 0 => pc[Producer] # "putting")
  BY <1>2 DEF IInv, SourceInv
<1>8. pulled = metrics.produced + 1 /\ metrics.produced < call.length
  BY <1>1, <1>7
<1>9. Data' /\ metrics'.produced = metrics.produced + 1 /\ metrics'.producer_pauses = metrics.producer_pauses
  <2>1. ConsumersStay
    BY <1>3, ConsumersUnmoved
  <2>2. Enqueue(metrics.produced + 1, 0)
    BY <1>2, <1>8
  <2> QED BY <1>2, <1>4, <1>5, <1>7, <1>8, <2>1, <2>2, EnqueueData
<1>10. SourceTypes'
  BY <1>1, <1>5 DEF SourceTypes, Consumers, IInv, TypeOK
<1>11. SourceInv'
  <2>1. metrics'.produced = pulled /\ started # 0
    BY <1>2, <1>7, <1>8, <1>9
  <2>2. /\ metrics'.produced <= pulled /\ pulled <= metrics'.produced + 1 /\ metrics'.producer_pauses <= pulled
    BY <1>1, <1>7, <1>9, <2>1
  <2> QED BY <1>3, <1>5, <1>7, <2>1, <2>2 DEF SourceInv, Settled
<1>12. pc'[Producer] \notin Parked
  BY <1>3 DEF Parked
<1> QED BY <1>1, <1>2, <1>3, <1>6, <1>9, <1>10, <1>11, <1>12, ProducerMove DEF Failures

\* The sentinels, as many as there is room for.
LEMMA SentinelsArePut ==
  ASSUME IInv, PutSentinels, pc[Producer] \in {"pulling", "closing"}, pulled = call.length, ~aborting,
         throw' \in [Tasks -> BOOLEAN], ~throw'[Producer], \A u \in Tasks \ {Producer} : throw'[u] = throw[u],
         UNCHANGED <<call, status, cancelled, cancelling, expired, item, raised, pulled, started, results,
                     metrics, failed, group>>
  PROVE  IInv'
<1>1. /\ call \in Calls /\ Producer \in Tasks /\ failed \in BOOLEAN
      /\ pc \in [Tasks -> Positions] /\ raised \in [Tasks -> Verdicts \cup {"none"}]
      /\ \A c \in Consumers : c \in Tasks /\ c # Producer
  BY CallTypes DEF IInv, TypeOK
<1>2. pc' = [pc EXCEPT ![Producer] = pc'[Producer]] /\ pc'[Producer] \in {"ended", "closing"}
  BY <1>1 DEF PutSentinels
<1>3. /\ pc' \in [Tasks -> Positions] /\ raised[Producer] = "none"
      /\ \A u \in Tasks \ {Producer} : pc'[u] = pc[u] /\ raised'[u] = raised[u] /\ throw'[u] = throw[u]
  <2>1. raised[Producer] = "none"
    BY <1>1 DEF IInv, TaskInv, Settled
  <2> QED BY <1>1, <1>2, <2>1 DEF Positions, Undone
<1>4. ~Refused
  BY <1>1, TaskWaits DEF Undone
<1>5. Moves(Producer)
  BY <1>1, <1>3 DEF Moves
<1>6. /\ Data' /\ closed' \in 0..started
      /\ \/ pc'[Producer] = "ended" /\ closed' = started
         \/ pc'[Producer] = "closing"
  <2>1. ConsumersStay
    BY <1>3, ConsumersUnmoved
  <2> QED BY <1>4, <2>1, SentinelData
<1>7. SourceTypes'
  BY <1>6 DEF SourceTypes, Consumers, IInv, TypeOK
<1>8. SourceInv'
  <2>1. SourceInv /\ metrics.produced = pulled
    BY DEF IInv, SourceInv
  <2> QED BY <1>2, <1>6, <2>1 DEF SourceInv, Settled
<1>9. raised'[Producer] = "none"
  BY <1>3
<1> QED BY <1>1, <1>2, <1>3, <1>5, <1>6, <1>7, <1>8, <1>9, ProducerMove DEF Failures

\* A sentinel's put finds room.
LEMMA ClosingIsUnblocked ==
  ASSUME IInv, ClosingUnblocks
  PROVE  IInv'
<1>1. /\ PutSentinels /\ pc[Producer] = "closing" /\ ~throw[Producer] /\ throw' = throw
      /\ UNCHANGED <<call, status, cancelled, cancelling, expired, item, raised, pulled, started, results,
                     metrics, failed, group>>
  BY DEF ClosingUnblocks
<1>2. throw \in [Tasks -> BOOLEAN] /\ Producer \in Tasks
  BY CallTypes DEF IInv, TypeOK
<1>3. pulled = call.length /\ ~aborting
  BY <1>1, <1>2 DEF IInv, SourceInv, TaskInv, Parked
<1> QED BY <1>1, <1>2, <1>3, SentinelsArePut

\* The source ends.
LEMMA SourceIsExhausted ==
  ASSUME IInv, SourceEnds
  PROVE  IInv'
<1>1. throw \in [Tasks -> BOOLEAN] /\ Producer \in Tasks
  BY CallTypes DEF IInv, TypeOK
<1>2. /\ pc[Producer] = "pulling" /\ pulled = call.length /\ DeliveredToProducer
      /\ UNCHANGED <<call, status, cancelled, cancelling, expired, item, pulled, started, results, metrics, group>>
      /\ IF Stopping
         THEN ProducerRaises("cancelled") /\ UNCHANGED <<queue, unfinished, closed>>
         ELSE PutSentinels /\ UNCHANGED <<raised, failed>>
  BY DEF SourceEnds
<1>3. CASE Stopping
  <2>1. ProducerRaises("cancelled") /\ UNCHANGED <<data, closed>>
    BY <1>2, <1>3 DEF data
  <2>2. "cancelled" \in Outcomes \ {"value"}
    BY DEF Outcomes
  <2> QED BY <1>2, <2>1, <2>2, ProducerFails
<1>4. CASE ~Stopping
  <2>1. PutSentinels /\ UNCHANGED <<raised, failed>> /\ ~aborting
    BY <1>2, <1>4, AbortShows
  <2>2. throw' = [throw EXCEPT ![Producer] = FALSE]
    BY <1>2 DEF DeliveredToProducer
  <2>3. throw' \in [Tasks -> BOOLEAN] /\ ~throw'[Producer] /\ \A u \in Tasks \ {Producer} : throw'[u] = throw[u]
    BY <1>1, <2>2
  <2> QED BY <1>2, <2>1, <2>3, SentinelsArePut
<1> QED BY <1>3, <1>4

\* The source yields an item that is put, or kept in hand for want of room.
LEMMA ItemIsPut ==
  ASSUME IInv, SourceYields, ~Stopping
  PROVE  IInv'
<1> DEFINE spawns == started < call.concurrency
           where == IF Full THEN "putting" ELSE "pulling"
<1>1. /\ call \in Calls /\ Producer \in Tasks /\ throw \in [Tasks -> BOOLEAN] /\ failed \in BOOLEAN
      /\ pc \in [Tasks -> Positions] /\ raised \in [Tasks -> Verdicts \cup {"none"}]
      /\ \A c \in Consumers : c \in Tasks /\ c # Producer
      /\ pulled \in Nat /\ metrics.produced \in Nat /\ metrics.producer_pauses \in Nat /\ started \in Nat
      /\ call.length \in Nat /\ pulled <= call.length /\ call.concurrency \in Int
  BY CallTypes, Numbers DEF IInv, TypeOK
<1>2. ~aborting
  BY AbortShows
<1>3. /\ pc[Producer] = "pulling" /\ pulled < call.length /\ pulled' = pulled + 1
      /\ throw' = [throw EXCEPT ![Producer] = FALSE]
      /\ started' = IF spawns THEN started + 1 ELSE started
      /\ pc' = [t \in Tasks |-> IF t = Producer THEN where
                                ELSE IF spawns /\ t = started' THEN "created"
                                ELSE pc[t]]
      /\ UNCHANGED <<raised, failed, call, status, cancelled, cancelling, expired, item, closed, results, group>>
  BY <1>2 DEF SourceYields, DeliveredToProducer
<1>4. IF Full THEN /\ metrics' = [metrics EXCEPT !.producer_pauses = @ + 1]
                   /\ UNCHANGED <<queue, unfinished>>
              ELSE Enqueue(pulled', 0)
  BY <1>2 DEF SourceYields
<1>5. ~Refused /\ call.concurrency > 0
  <2>1. ~Refused
    BY <1>1, <1>3, TaskWaits DEF Undone
  <2> QED BY <1>1, <2>1 DEF Refused
<1>6. raised[Producer] = "none" /\ throw' \in [Tasks -> BOOLEAN] /\ ~throw'[Producer]
      /\ \A u \in Tasks \ {Producer} : throw'[u] = throw[u]
  BY <1>1, <1>3 DEF IInv, TaskInv, Settled
<1>7. metrics.produced = pulled /\ closed = 0 /\ metrics.producer_pauses <= pulled
  BY <1>3 DEF IInv, SourceInv
<1>8. /\ pc' \in [Tasks -> Positions] /\ pc'[Producer] = where
      /\ \A t \in Tasks \ {Producer} : pc'[t] = IF spawns /\ t = started' THEN "created" ELSE pc[t]
  BY <1>1, <1>3 DEF Positions, Undone
<1>9. started' \in Nat /\ started' # 0 /\ started' \in Consumers /\ (spawns => started' = started + 1)
      /\ (~spawns => started' = started)
  <2>1. started \in {0} \cup Consumers
    BY DEF IInv, TypeOK
  <2> QED BY <1>1, <1>3, <1>5, <2>1 DEF Consumers
<1>10. Moves(Producer)
  <2>1. CASE spawns
    <3>1. pc'[started'] = "created" /\ \A u \in Tasks \ {Producer, started'} : pc'[u] = pc[u]
      BY <1>1, <1>8, <1>9, <2>1
    <3> QED BY <1>1, <1>2, <1>3, <1>6, <1>9, <2>1, <3>1 DEF Moves
  <2>2. CASE ~spawns
    <3>1. \A u \in Tasks \ {Producer} : pc'[u] = pc[u]
      BY <1>8, <2>2
    <3> QED BY <1>1, <1>3, <1>6, <1>9, <2>2, <3>1 DEF Moves
  <2> QED BY <2>1, <2>2
<1>11. ConsumersStay
  <2> SUFFICES ASSUME NEW c \in Consumers
               PROVE  /\ pc'[c] = "calling" <=> pc[c] = "calling"
                      /\ pc'[c] \in {"absent", "created"} => pc[c] \in {"absent", "created"}
                      /\ pc'[c] = "getting" => pc[c] = "getting"
                      /\ (pc'[c] \in Settled /\ raised'[c] = "none") <=> (pc[c] \in Settled /\ raised[c] = "none")
    BY DEF ConsumersStay
  <2>1. CASE pc'[c] = pc[c]
    BY <1>3, <2>1
  <2>2. CASE pc'[c] # pc[c]
    <3>1. pc'[c] = "created" /\ c = started + 1
      BY <1>1, <1>8, <1>9, <2>2
    <3>2. pc[c] = "absent"
      BY <1>1, <3>1 DEF IInv, PhaseInv
    <3> QED BY <3>1, <3>2 DEF Settled
  <2> QED BY <2>1, <2>2
<1>12. SourceTypes'
  <2>1. pulled' \in 0..call.length /\ closed' \in 0..started'
    BY <1>1, <1>3, <1>7, <1>9
  <2> QED BY <1>3, <1>9, <2>1 DEF SourceTypes, Consumers
<1>13. CASE Full
  <2>1. Data' /\ metrics'.produced = metrics.produced /\ metrics'.producer_pauses = metrics.producer_pauses + 1
    <3>1. /\ metrics' = [metrics EXCEPT !.producer_pauses = @ + 1]
          /\ UNCHANGED <<call, closed, queue, unfinished, results, item>>
      BY <1>3, <1>4, <1>13
    <3>2. metrics.producer_pauses < call.length
      BY <1>1, <1>3, <1>7
    <3> QED BY <1>3, <1>5, <1>7, <1>11, <1>13, <3>1, <3>2, PauseData
  <2>2. pc'[Producer] = "putting"
    BY <1>8, <1>13
  <2>3. /\ metrics'.produced <= pulled' /\ pulled' <= metrics'.produced + 1 /\ metrics'.producer_pauses <= pulled'
        /\ metrics'.produced < pulled'
    BY <1>1, <1>3, <1>7, <2>1
  <2>4. SourceInv'
    BY <1>3, <1>7, <1>9, <2>2, <2>3 DEF SourceInv, Settled
  <2> QED BY <1>1, <1>2, <1>3, <1>6, <1>8, <1>10, <1>12, <2>1, <2>2, <2>4, ProducerMove DEF Failures
<1>14. CASE ~Full
  <2>1. Data' /\ metrics'.produced = metrics.produced + 1 /\ metrics'.producer_pauses = metrics.producer_pauses
    <3>1. metrics.produced < call.length /\ Enqueue(metrics.produced + 1, 0)
      BY <1>3, <1>4, <1>7, <1>14
    <3> QED BY <1>3, <1>5, <1>7, <1>11, <1>14, <3>1, EnqueueData
  <2>2. pc'[Producer] = "pulling"
    BY <1>8, <1>14
  <2>3. /\ metrics'.produced <= pulled' /\ pulled' <= metrics'.produced + 1 /\ metrics'.producer_pauses <= pulled'
        /\ metrics'.produced = pulled'
    BY <1>1, <1>3, <1>7, <2>1
  <2>4. SourceInv'
    BY <1>3, <1>7, <1>9, <2>2, <2>3 DEF SourceInv, Settled
  <2>5. pc'[Producer] \notin Parked
    BY <2>2 DEF Parked
  <2> QED BY <1>1, <1>3, <1>6, <1>8, <1>10, <1>12, <2>1, <2>2, <2>4, <2>5, ProducerMove DEF Failures
<1> QED BY <1>13, <1>14

\* The source's steps: it yields, ends, or raises.
LEMMA SourceSteps ==
  ASSUME IInv, SourceStep
  PROVE  IInv'
<1>1. CASE SourceYields
  <2>1. CASE ~Stopping
    BY <1>1, <2>1, ItemIsPut
  <2>2. CASE Stopping
    <3>1. /\ ProducerRaises("cancelled") /\ DeliveredToProducer /\ pc[Producer] = "pulling" /\ "cancelled" \in Outcomes \ {"value"}
          /\ UNCHANGED <<call, status, cancelled, cancelling, expired, item, started, closed, data, group>>
          /\ pulled' = pulled + 1 /\ pulled < call.length
      BY <1>1, <2>2 DEF SourceYields, data, Outcomes
    <3> QED BY <3>1, ProducerFails
  <2> QED BY <2>1, <2>2
<1>2. CASE SourceEnds
  BY <1>2, SourceIsExhausted
<1>3. ASSUME NEW exc \in FnOutcomes \ {"value"}, SourceRaises(exc)
      PROVE  IInv'
  <2>1. /\ ProducerRaises(exc) /\ DeliveredToProducer /\ pc[Producer] = "pulling" /\ exc \in Outcomes \ {"value"}
        /\ UNCHANGED <<call, status, cancelled, cancelling, expired, item, started, closed, data, group>>
        /\ pulled' = pulled
    BY <1>3, OutcomesAssumption DEF SourceRaises, source
  <2> QED BY <2>1, ProducerFails
<1> QED BY <1>1, <1>2, <1>3 DEF SourceStep

\* The producer's own steps.
LEMMA ProducerSteps ==
  ASSUME IInv, ProducerStep
  PROVE  IInv'
<1>1. CASE PutCancelled
  <2>1. /\ ProducerRaises("cancelled") /\ DeliveredToProducer /\ pc[Producer] = "putting" /\ "cancelled" \in Outcomes \ {"value"}
        /\ UNCHANGED <<call, status, cancelled, cancelling, expired, item, started, closed, data, group>>
        /\ pulled' = pulled
    BY <1>1 DEF PutCancelled, source, Outcomes
  <2> QED BY <2>1, ProducerFails
<1> QED BY <1>1, PutIsUnblocked, ClosingIsUnblocked, ProducerCancels, ProducerGoesOn DEF ProducerStep

-----------------------------------------------------------------------------
(* The calling task and the group.                                         *)

\* What leaves every task where it is, but for being collected, keeps what is
\* said of the source and of the data.
LEMMA DataStays ==
  ASSUME IInv, UNCHANGED <<call, source, data, item, raised, failed>>,
         \A t \in Tasks : pc'[t] = pc[t] \/ (pc[t] = "ended" /\ pc'[t] = "reaped")
  PROVE  Data' /\ SourceInv' /\ SourceTypes'
<1>1. /\ Producer \in Tasks /\ \A c \in Consumers : c \in Tasks
      /\ UNCHANGED <<pulled, started, closed, queue, unfinished, results, metrics>>
  BY CallTypes DEF IInv, TypeOK, source, data
<1>2. ConsumersStay
  BY <1>1 DEF ConsumersStay, Settled
<1>3. Data'
  BY <1>1, <1>2, QuietData
<1>4. SourceTypes'
  BY <1>1 DEF SourceTypes, Consumers, IInv, TypeOK
<1>5. SourceInv'
  BY <1>1 DEF IInv, SourceInv, Settled
<1> QED BY <1>3, <1>4, <1>5

\* What _abort() does to the tasks.
LEMMA AbortFacts ==
  ASSUME IInv, Abort \/ NoAbort
  PROVE  /\ throw' \in [Tasks -> BOOLEAN] /\ cancelling' \in [Tasks -> Nat] /\ aborting' \in BOOLEAN
         /\ Abort => aborting' /\ \A t \in Tasks : throw'[t] <=> throw[t] \/ pc[t] \in Undone
         /\ NoAbort => aborting' = aborting /\ throw' = throw
<1>1. throw \in [Tasks -> BOOLEAN] /\ cancelling \in [Tasks -> Nat] /\ aborting \in BOOLEAN
  BY DEF IInv, TypeOK
<1>2. CASE Abort
  <2>1. cancelling' \in [Tasks -> Nat]
    <3>1. cancelling' = [t \in Tasks |-> cancelling[t] + IF pc[t] = "calling" THEN 1 ELSE 0]
      BY <1>2 DEF Abort
    <3>2. \A t \in Tasks : (cancelling[t] + IF pc[t] = "calling" THEN 1 ELSE 0) \in Nat
      BY <1>1
    <3> QED BY <3>1, <3>2
  <2>2. throw' \in [Tasks -> BOOLEAN] /\ \A t \in Tasks : throw'[t] <=> throw[t] \/ pc[t] \in Undone
    BY <1>1, <1>2 DEF Abort
  <2> QED BY <1>1, <1>2, <2>1, <2>2 DEF Abort, NoAbort
<1>3. CASE NoAbort /\ ~Abort
  BY <1>1, <1>3 DEF NoAbort
<1> QED BY <1>2, <1>3

\* What the tasks are due stays in step with the group when it shuts down.
LEMMA ShutdownKeepsTasks ==
  ASSUME IInv, Abort \/ NoAbort, UNCHANGED <<call, raised, failed>>,
         aborting => aborting', Stopping => Stopping',
         \A t \in Tasks : pc'[t] = pc[t] \/ (pc[t] = "ended" /\ pc'[t] = "reaped")
  PROVE  TaskInv'
<1>1. Tasks' = Tasks
  BY DEF Tasks, Consumers
<1> SUFFICES ASSUME NEW u \in Tasks
             PROVE /\ raised'[u] # "none" => pc'[u] \in Settled
                   /\ raised'[u] \in {"none", "cancelled"} \cup Failures
                   /\ raised'[u] \in Failures => failed'
                   /\ raised'[u] = "cancelled" => Stopping'
                   /\ (throw'[u] /\ pc'[u] \in Parked \cup {"absent"}) => aborting'
                   /\ (aborting' /\ pc'[u] \in Parked) => throw'[u]
                   /\ (call.return_exceptions /\ u # Producer) => raised'[u] \in {"none", "cancelled", "base"}
  BY <1>1 DEF TaskInv, Failures
<1>2. /\ raised[u] # "none" => pc[u] \in Settled
      /\ raised[u] \in {"none", "cancelled"} \cup Failures
      /\ raised[u] \in Failures => failed
      /\ raised[u] = "cancelled" => Stopping
      /\ (throw[u] /\ pc[u] \in Parked \cup {"absent"}) => aborting
      /\ (aborting /\ pc[u] \in Parked) => throw[u]
      /\ (call.return_exceptions /\ u # Producer) => raised[u] \in {"none", "cancelled", "base"}
  BY DEF IInv, TaskInv
<1>3. /\ Abort => aborting' /\ (throw'[u] <=> throw[u] \/ pc[u] \in Undone)
      /\ NoAbort => aborting' = aborting /\ throw' = throw
  BY AbortFacts
<1>4. (pc'[u] \in Settled <=> pc[u] \in Settled)
      /\ (pc'[u] \in Parked <=> pc[u] \in Parked) /\ (pc'[u] = "absent" <=> pc[u] = "absent")
  BY DEF Settled, Parked
<1>5. pc[u] \in Parked => pc[u] \in Undone
  BY DEF Parked, Undone
<1> QED BY <1>2, <1>3, <1>4, <1>5

\* A task's end is collected.
LEMMA TaskIsReaped ==
  ASSUME IInv, NEW t \in Tasks, Reap(t)
  PROVE  IInv'
<1> DEFINE isError == raised[t] \notin {"none", "cancelled"}
<1>1. /\ call \in Calls /\ Producer \in Tasks /\ \A c \in Consumers : c \in Tasks
      /\ pc \in [Tasks -> Positions] /\ errors \subseteq Tasks /\ requested \in BOOLEAN /\ wake \in BOOLEAN
  BY CallTypes DEF IInv, TypeOK
<1>2. /\ UNCHANGED <<call, status, cancelled, expired, item, raised, source, data, failed, propagate>>
      /\ pc[t] = "ended" /\ pc' = [pc EXCEPT ![t] = "reaped"]
      /\ errors' = IF isError THEN errors \cup {t} ELSE errors
      /\ \/ isError /\ Abort /\ requested' = TRUE /\ wake' = TRUE
         \/ (~isError \/ aborting \/ requested) /\ NoAbort /\ UNCHANGED <<requested, wake>>
  BY DEF Reap
<1>3. /\ pc' \in [Tasks -> Positions] /\ pc'[t] = "reaped" /\ \A u \in Tasks \ {t} : pc'[u] = pc[u]
      /\ Tasks' = Tasks /\ Consumers' = Consumers
  BY <1>1, <1>2 DEF Positions, Tasks, Consumers
<1>4. isError <=> raised[t] \in Failures
  BY DEF IInv, TaskInv, Failures
<1>5. /\ throw' \in [Tasks -> BOOLEAN] /\ cancelling' \in [Tasks -> Nat] /\ aborting' \in BOOLEAN
      /\ Abort => aborting'
      /\ NoAbort => aborting' = aborting
  BY <1>2, AbortFacts
<1>6. status = "waiting" /\ ~Done /\ status' = "waiting" /\ ~Done'
  BY <1>2, TaskWaits DEF Done
<1>7. ControlTypes'
  BY <1>1, <1>2, <1>3, <1>5 DEF ControlTypes, IInv, TypeOK
<1>8. PhaseInv'
  <2>1. pc'[Producer] # "absent" /\ pc'[Producer] \in Settled \cup {"absent", "created", "pulling", "putting", "closing"}
    BY <1>1, <1>3, <1>6 DEF IInv, PhaseInv, Settled
  <2>2. ASSUME NEW c \in Consumers
        PROVE  /\ pc'[c] \in Settled \cup {"absent", "created", "getting", "calling"}
               /\ pc'[c] = "absent" <=> c > started
    <3>1. /\ pc[c] \in Settled \cup {"absent", "created", "getting", "calling"}
          /\ pc[c] = "absent" <=> c > started
      BY DEF IInv, PhaseInv
    <3> QED BY <1>1, <1>2, <1>3, <3>1 DEF Settled
  <2>3. started' = started /\ (Refused' <=> Refused)
    BY <1>2 DEF source, Refused
  <2>4. ~Refused
    BY <1>6 DEF IInv, PhaseInv
  <2> QED BY <1>3, <1>6, <2>1, <2>2, <2>3, <2>4 DEF PhaseInv
<1>9. GroupInv'
  <2>1. errors' = {u \in Tasks' : pc'[u] = "reaped" /\ raised'[u] \in Failures}
    <3>1. errors = {u \in Tasks : pc[u] = "reaped" /\ raised[u] \in Failures}
      BY DEF IInv, GroupInv
    <3> QED BY <1>2, <1>3, <1>4, <3>1
  <2>2. /\ requested => aborting /\ errors # {}
        /\ propagate => aborting /\ cancelled
        /\ aborting => propagate \/ requested
        /\ wake => cancelled \/ requested
        /\ cancelled => wake \/ propagate \/ errors # {}
    BY <1>6 DEF IInv, GroupInv
  <2>3. errors \subseteq errors' /\ (isError => errors' # {})
    BY <1>2
  <2>4. aborting => aborting'
    BY <1>2, <1>5
  <2> QED BY <1>2, <1>5, <1>6, <2>1, <2>2, <2>3, <2>4 DEF GroupInv, Failures
<1>10. Stopping => Stopping'
  BY <1>2 DEF Stopping, CallerCancelled
<1>11. \A u \in Tasks : pc'[u] = pc[u] \/ (pc[u] = "ended" /\ pc'[u] = "reaped")
  BY <1>2, <1>3
<1>12. TaskInv'
  <2>1. Abort \/ NoAbort
    BY <1>2
  <2>2. aborting => aborting'
    BY <1>2, <1>5
  <2> QED BY <1>2, <1>10, <1>11, <2>1, <2>2, ShutdownKeepsTasks
<1>13. LatchInv'
  BY <1>2, <1>3 DEF IInv, LatchInv, Failures
<1>14. Data' /\ SourceInv' /\ SourceTypes'
  BY <1>2, <1>11, DataStays
<1> QED BY <1>7, <1>8, <1>9, <1>12, <1>13, <1>14, Reassembled DEF Control

\* Somebody cancels the calling task.
LEMMA CallerIsCancelled ==
  ASSUME IInv, CancelCaller
  PROVE  IInv'
<1>1. /\ UNCHANGED <<call, status, pc, throw, cancelling, expired, item, raised, source, data, failed,
                     aborting, errors, requested, propagate>>
      /\ status = "waiting" /\ cancelled' = TRUE /\ wake' = TRUE
  BY DEF CancelCaller, tasks
<1>2. Tasks' = Tasks /\ Consumers' = Consumers /\ started' = started /\ (Refused' <=> Refused) /\ (Done' <=> Done) /\ ~Done
  BY <1>1 DEF Tasks, Consumers, source, Refused, Done
<1>3. ControlTypes'
  BY <1>1, <1>2 DEF ControlTypes, IInv, TypeOK
<1>4. PhaseInv'
  BY <1>1, <1>2 DEF IInv, PhaseInv
<1>5. GroupInv'
  BY <1>1, <1>2 DEF IInv, GroupInv, Failures
<1>6. TaskInv'
  <2>1. Stopping'
    BY <1>1 DEF Stopping, CallerCancelled
  <2> QED BY <1>1, <1>2, <2>1 DEF IInv, TaskInv, Failures
<1>7. LatchInv'
  BY <1>1, <1>2 DEF LatchInv
<1>8. Data' /\ SourceInv' /\ SourceTypes'
  BY <1>1, DataStays
<1> QED BY <1>3, <1>4, <1>5, <1>6, <1>7, <1>8, Reassembled DEF Control

\* The calling task runs, in TaskGroup.__aexit__.
LEMMA CallerRuns ==
  ASSUME IInv, CallerResume
  PROVE  IInv'
<1> DEFINE held == propagate \/ (wake /\ ~aborting)
<1>1. /\ UNCHANGED <<call, cancelled, pc, expired, item, raised, source, data, failed, errors, requested>>
      /\ status = "waiting" /\ wake' = FALSE /\ propagate' = held
      /\ status' = (IF AllReaped THEN Ending(held) ELSE "waiting")
      /\ \/ wake /\ ~aborting /\ Abort
         \/ ~ (wake /\ ~aborting) /\ NoAbort
  BY DEF CallerResume
<1>2. /\ call \in Calls /\ wake \in BOOLEAN /\ propagate \in BOOLEAN /\ aborting \in BOOLEAN /\ Tasks' = Tasks /\ Consumers' = Consumers
      /\ started' = started /\ (Refused' <=> Refused)
  BY <1>1 DEF IInv, TypeOK, Tasks, Consumers, source, Refused
<1>3. /\ throw' \in [Tasks -> BOOLEAN] /\ cancelling' \in [Tasks -> Nat] /\ aborting' \in BOOLEAN
      /\ aborting => aborting'
      /\ aborting' => aborting \/ (wake /\ ~aborting)
      /\ (wake /\ ~aborting) => aborting'
  BY <1>1, <1>2, AbortFacts
<1>4. status' \in {"waiting", "errors", "cancelled", "returned"}
      /\ (status' # "waiting" => AllReaped)
      /\ (status' = "returned" => errors = {} /\ ~held)
  BY <1>1 DEF Ending
<1>5. ControlTypes'
  BY <1>1, <1>2, <1>3, <1>4 DEF ControlTypes, IInv, TypeOK
<1>6. PhaseInv'
  <2>1. Done' => \A u \in Tasks : pc[u] \in {"absent", "reaped"}
    BY <1>4 DEF Done, AllReaped
  <2> QED BY <1>1, <1>2, <1>4, <2>1 DEF IInv, PhaseInv
<1>7. GroupInv'
  <2>1. /\ errors = {u \in Tasks : pc[u] = "reaped" /\ raised[u] \in Failures}
        /\ requested => aborting /\ errors # {}
        /\ propagate => aborting /\ cancelled
        /\ aborting => propagate \/ requested
        /\ wake => cancelled \/ requested
        /\ cancelled => wake \/ propagate \/ errors # {}
    BY <1>1 DEF IInv, GroupInv
  <2>2. /\ requested => aborting' /\ errors # {}
        /\ held => aborting' /\ cancelled
        /\ aborting' => held \/ requested
        /\ cancelled => held \/ errors # {}
    BY <1>3, <2>1
  <2>3. status' = "returned" => ~cancelled /\ errors = {} /\ ~aborting'
    BY <1>3, <1>4, <2>2
  <2> QED BY <1>1, <1>2, <2>1, <2>2, <2>3 DEF GroupInv, Failures
<1>8. TaskInv'
  <2>1. Stopping => Stopping'
    BY <1>1 DEF Stopping, CallerCancelled
  <2> QED BY <1>1, <1>3, <2>1, ShutdownKeepsTasks
<1>9. LatchInv'
  BY <1>1, <1>2 DEF IInv, LatchInv, Failures
<1>10. Data' /\ SourceInv' /\ SourceTypes'
  BY <1>1, DataStays
<1> QED BY <1>5, <1>6, <1>7, <1>8, <1>9, <1>10, Reassembled DEF Control

\* The call begins, or its guards refuse it.
LEMMA CallBegins ==
  ASSUME IInv, Refuse \/ Spawn
  PROVE  IInv'
<1>1. /\ status = "entry"
      /\ UNCHANGED <<call, cancelled, throw, cancelling, expired, item, raised, source, data, failed,
                     aborting, errors, requested, propagate>>
      /\ \/ status' = "refused" /\ pc' = pc /\ wake' = wake
         \/ ~Refused /\ status' = "waiting" /\ pc' = [pc EXCEPT ![Producer] = "created"] /\ wake' = cancelled
  BY DEF Refuse, Spawn, tasks, group
<1>2. /\ call \in Calls /\ Producer \in Tasks /\ \A c \in Consumers : c \in Tasks /\ c # Producer
      /\ pc \in [Tasks -> Positions] /\ cancelled \in BOOLEAN
  BY CallTypes DEF IInv, TypeOK
<1>3. /\ Tasks' = Tasks /\ Consumers' = Consumers /\ started' = started /\ closed' = closed /\ pulled' = pulled
      /\ metrics' = metrics /\ (Refused' <=> Refused)
  BY <1>1 DEF Tasks, Consumers, source, data, Refused
<1>4. ~failed /\ ~aborting /\ \A t \in Tasks : pc[t] = "absent"
  BY <1>1 DEF IInv, PhaseInv
<1>5. /\ pc' \in [Tasks -> Positions] /\ (\A t \in Tasks \ {Producer} : pc'[t] = pc[t])
      /\ pc'[Producer] \in {"absent", "created"}
      /\ status' = "waiting" => pc'[Producer] = "created" /\ ~Refused
      /\ status' \in {"refused", "waiting"} /\ (status' = "refused" => pc' = pc)
  BY <1>1, <1>2, <1>4 DEF Positions, Undone
<1>6. ControlTypes'
  BY <1>1, <1>2, <1>3, <1>5 DEF ControlTypes, IInv, TypeOK
<1>7. PhaseInv'
  <2>1. \A c \in Consumers : /\ pc'[c] \in Settled \cup {"absent", "created", "getting", "calling"}
                             /\ pc'[c] = "absent" <=> c > started
    BY <1>2, <1>5 DEF IInv, PhaseInv
  <2>2. Done' => \A t \in Tasks : pc'[t] \in {"absent", "reaped"}
    BY <1>4, <1>5 DEF Done
  <2> QED BY <1>3, <1>5, <2>1, <2>2 DEF PhaseInv
<1>8. GroupInv'
  <2>1. /\ errors = {} /\ ~requested /\ ~propagate
    <3>1. errors = {u \in Tasks : pc[u] = "reaped" /\ raised[u] \in Failures}
      BY DEF IInv, GroupInv
    <3>2. errors = {}
      BY <1>4, <3>1
    <3> QED BY <1>4, <3>2 DEF IInv, GroupInv
  <2>2. {u \in Tasks : pc'[u] = "reaped" /\ raised'[u] \in Failures} = {}
    BY <1>2, <1>4, <1>5
  <2>3. wake' => cancelled
    BY <1>1, <2>1 DEF IInv, GroupInv
  <2>4. (status' = "waiting" /\ cancelled) => wake'
    BY <1>1
  <2> QED BY <1>1, <1>3, <1>4, <1>5, <2>1, <2>2, <2>3, <2>4 DEF GroupInv, Failures
<1>9. TaskInv'
  <2> SUFFICES ASSUME NEW u \in Tasks
               PROVE  raised'[u] = "none" /\ ~ (throw'[u] /\ pc'[u] \in Parked \cup {"absent"})
    BY <1>1, <1>3, <1>4 DEF TaskInv, Failures
  <2>1. raised[u] = "none" /\ ~throw[u]
    BY <1>4 DEF IInv, TaskInv, Settled
  <2> QED BY <1>1, <2>1
<1>10. LatchInv'
  BY <1>1, <1>4 DEF LatchInv
<1>11. SourceInv' /\ SourceTypes'
  BY <1>1, <1>3, <1>4, <1>5, <1>2 DEF IInv, SourceInv, SourceTypes, TypeOK, Settled
<1>12. Data'
  <2>1. ConsumersStay
    BY <1>1, <1>2, <1>5 DEF ConsumersStay
  <2> QED BY <1>1, <1>3, <2>1, QuietData
<1> QED BY <1>6, <1>7, <1>8, <1>9, <1>10, <1>11, <1>12, Reassembled DEF Control

-----------------------------------------------------------------------------
(* The invariant.                                                          *)

\* Nothing has happened before the call.
LEMMA InitInv == Init => IInv
<1> SUFFICES ASSUME Init PROVE IInv
  OBVIOUS
<1>1. /\ call \in Calls /\ call.length \in Nat /\ Producer \in Tasks /\ \A c \in Consumers : c \in Tasks
      /\ Consumers \subseteq Nat /\ Items \subseteq Nat /\ Sentinel \notin Items
  BY CallTypes DEF Init
<1>2. /\ status = "entry" /\ cancelled \in BOOLEAN /\ \A t \in Tasks : pc[t] = "absent" /\ ~throw[t] /\ raised[t] = "none"
      /\ \A c \in Consumers : item[c] = Sentinel
      /\ pulled = 0 /\ started = 0 /\ closed = 0 /\ queue = <<>> /\ unfinished = 0
      /\ \A k \in Items : results[k] = <<>>
      /\ metrics.produced = 0 /\ metrics.consumed = 0 /\ metrics.producer_pauses = 0 /\ metrics.max_queue_depth = 0
      /\ ~failed /\ ~aborting /\ errors = {} /\ ~requested /\ ~wake /\ ~propagate
  BY <1>1 DEF Init
<1>3. ControlTypes
  BY <1>1 DEF Init, ControlTypes, Positions
<1>4. SourceTypes
  BY <1>1, <1>2 DEF SourceTypes
<1>5. DataTypes
  <2>1. metrics \in [produced : 0..call.length, consumed : 0..call.length,
                     producer_pauses : 0..call.length, max_queue_depth : {0} \cup 1..call.queue_size]
    <3>1. 0 \in 0..call.length
      BY <1>1
    <3> QED BY <3>1 DEF Init
  <2>2. <<>> \in Seq(Items \cup {Sentinel}) /\ <<>> \in Seq(Verdicts)
    BY EmptySeq
  <2> QED BY <2>1, <2>2 DEF Init, DataTypes
<1>6. PhaseInv
  <2>1. \A c \in Consumers : c > started
    BY <1>1, <1>2 DEF Consumers
  <2> QED BY <1>1, <1>2, <2>1 DEF PhaseInv, Done
<1>7. GroupInv
  BY <1>2 DEF GroupInv
<1>8. TaskInv
  BY <1>2 DEF TaskInv, Failures
<1>9. LatchInv /\ SourceInv
  <2>1. LatchInv
    BY <1>2 DEF LatchInv
  <2>2. pc[Producer] = "absent"
    BY <1>1, <1>2
  <2>3. SourceInv
    BY <1>2, <2>2 DEF SourceInv, Settled
  <2> QED BY <2>1, <2>3
<1>10. Len(queue) = 0 /\ Gets = 0
  <2>1. Len(queue) = 0
    BY <1>2
  <2>2. metrics.produced = 0 /\ closed = 0
    BY <1>2
  <2> QED BY ONLY <2>1, <2>2 DEF Gets
<1>11. QueueInv
  <2>1. ~Refused => 0 <= call.queue_size
    <3>1. call.queue_size \in Int
      BY <1>1, CallTypes
    <3> QED BY <3>1 DEF Refused
  <2> QED BY <1>2, <1>10, <2>1 DEF QueueInv
<1>12. ItemInv
  <2>1. \A k \in Items : ~Taken(k)
    BY <1>1, <1>2, <1>10 DEF Taken, Items
  <2> QED BY <1>1, <1>2, <2>1 DEF ItemInv
<1>13. CountInv
  <2>1. Calling = {} /\ Through = {}
    BY <1>1, <1>2 DEF Calling, Through, Settled
  <2>2. Cardinality(Calling) = 0 /\ Cardinality(Through) = 0
    BY <2>1, FS_EmptySet
  <2> QED BY <1>2, <1>10, <2>1, <2>2 DEF CountInv, TaskDoneMatchesGet
<1> QED BY <1>3, <1>4, <1>5, <1>6, <1>7, <1>8, <1>9, <1>11, <1>12, <1>13, TypeParts DEF IInv

\* A stuttering step changes nothing.
LEMMA StutterInv ==
  ASSUME IInv, UNCHANGED vars
  PROVE  IInv'
<1>1. UNCHANGED <<call, status, cancelled, pc, throw, cancelling, expired, item, raised, pulled, started, closed,
                  queue, unfinished, results, metrics, failed, aborting, errors, requested, wake, propagate>>
  BY DEF vars, tasks, source, data, group
<1>2. Data' /\ SourceInv' /\ SourceTypes'
  BY <1>1, DataStays DEF source, data
<1>3. Tasks' = Tasks /\ Consumers' = Consumers /\ (Refused' <=> Refused) /\ (Done' <=> Done) /\ (Stopping' <=> Stopping)
  BY <1>1 DEF Tasks, Consumers, Refused, Done, Stopping, CallerCancelled
<1>4. ControlTypes'
  BY <1>1, <1>3 DEF ControlTypes, IInv, TypeOK
<1>5. Control'
  BY <1>1, <1>3 DEF Control, IInv, PhaseInv, GroupInv, TaskInv, LatchInv, Failures
<1> QED BY <1>2, <1>4, <1>5, Reassembled

\* Every step keeps the invariant.
LEMMA NextInv == IInv /\ [Next]_vars => IInv'
<1> SUFFICES ASSUME IInv, [Next]_vars PROVE IInv'
  OBVIOUS
<1>1. CASE CallStep
  BY <1>1, CallBegins, CallerRuns DEF CallStep
<1>2. CASE CancelCaller
  BY <1>2, CallerIsCancelled
<1>3. CASE ProducerStep
  BY <1>3, ProducerSteps
<1>4. CASE SourceStep
  BY <1>4, SourceSteps
<1>5. CASE SourceAbsorbsCancel
  BY <1>5, ProducerGoesOn
<1>6. ASSUME NEW c \in Consumers, ConsumerStep(c)
      PROVE  IInv'
  BY <1>6, ConsumerTakes, ConsumerCancels DEF ConsumerStep
<1>7. ASSUME NEW c \in Consumers, FnStep(c)
      PROVE  IInv'
  BY <1>7, FnGoesOn
<1>8. ASSUME NEW c \in Consumers, FnEnds(c)
      PROVE  IInv'
  BY <1>8, FnIsSettled DEF FnEnds
<1>9. ASSUME NEW t \in Tasks, Reap(t)
      PROVE  IInv'
  BY <1>9, TaskIsReaped
<1>10. CASE Terminated \/ UNCHANGED vars
  BY <1>10, StutterInv DEF Terminated
<1> QED BY <1>1, <1>2, <1>3, <1>4, <1>5, <1>6, <1>7, <1>8, <1>9, <1>10 DEF Next

\* The invariant holds in every state of every call of stream().
THEOREM StreamInvariance == Spec => []IInv
BY InitInv, NextInv, PTL DEF Spec

-----------------------------------------------------------------------------
(* What follows from it.                                                   *)

\* Every variable of the model of stream() stays within its type.
THEOREM StreamTyped == Spec => []TypeOK
<1>1. IInv => TypeOK
  BY DEF IInv
<1> QED BY <1>1, StreamInvariance, PTL

\* Whenever the TaskGroup cancels stream()'s tasks, the signal by which fn's
\* and the source's CancelledErrors are judged says that it is stopping.
THEOREM AbortAlwaysVisible == Spec => []AbortIsVisible
<1>1. IInv => AbortIsVisible
  BY AbortShows DEF AbortIsVisible
<1> QED BY <1>1, StreamInvariance, PTL

\* No producer and no consumer is parked on the queue during the teardown
\* without the TaskGroup's cancellation still due to it.
THEOREM NobodyLeftParked == Spec => []NoneLeftParked
<1>1. IInv => NoneLeftParked
  BY DEF IInv, TaskInv, NoneLeftParked, Parked
<1> QED BY <1>1, StreamInvariance, PTL

\* Each get of stream()'s queue has its task_done(), whichever way the
\* consumer that took the item leaves it.
THEOREM EveryGetIsMarkedDone == Spec => []TaskDoneMatchesGet
<1>1. IInv => TaskDoneMatchesGet
  BY DEF IInv, CountInv
<1> QED BY <1>1, StreamInvariance, PTL

\* The source of stream() is never more than queue_size items and the one in
\* the producer's hand ahead of its consumers.
THEOREM BackpressureHolds == Spec => []Backpressure
<1>1. ASSUME IInv, ~Refused PROVE Len(queue) <= call.queue_size /\ Untaken <= call.queue_size + 1
  <2>1. /\ Len(queue) <= call.queue_size /\ Len(queue) \in Nat /\ queue \in Seq(Items \cup {Sentinel})
        /\ pulled \in Nat /\ metrics.produced \in Nat /\ pulled <= metrics.produced + 1 /\ call.queue_size \in Int
    BY <1>1, Numbers, CallTypes DEF IInv, TypeOK, QueueInv, SourceInv
  <2>2. DOMAIN queue = 1..Len(queue)
    BY <2>1, LenProperties
  <2>3. IsFiniteSet(1..Len(queue)) /\ Cardinality(1..Len(queue)) = Len(queue)
    <3>1. 1 \in Int /\ Len(queue) \in Int
      BY <2>1
    <3>2. Cardinality(1..Len(queue)) = IF 1 > Len(queue) THEN 0 ELSE Len(queue) - 1 + 1
      BY <3>1, FS_Interval
    <3>3. (IF 1 > Len(queue) THEN 0 ELSE Len(queue) - 1 + 1) = Len(queue)
      BY <2>1
    <3>4. IsFiniteSet(1..Len(queue))
      BY <3>1, FS_Interval
    <3> QED BY <3>2, <3>3, <3>4
  <2>4. PICK S : S = {n \in DOMAIN queue : queue[n] # Sentinel}
    OBVIOUS
  <2>5. Cardinality(S) \in Nat /\ Cardinality(S) <= Len(queue)
    <3>1. S \subseteq 1..Len(queue)
      BY <2>2, <2>4
    <3>2. IsFiniteSet(S) /\ Cardinality(S) <= Cardinality(1..Len(queue))
      BY <2>3, <3>1, FS_Subset
    <3> QED BY <2>3, <3>2, FS_CardinalityType
  <2>6. Untaken = Cardinality(S) + (pulled - metrics.produced)
    BY <2>4 DEF Untaken
  <2> QED BY <2>1, <2>5, <2>6
<1>2. IInv => Backpressure
  BY <1>1 DEF Backpressure
<1> QED BY <1>2, StreamInvariance, PTL

\* With return_exceptions a bad item, a deadline or a stray CancelledError of
\* fn never fails the batch of stream().
THEOREM CollectingKeepsBatch == Spec => []CollectKeepsBatch
<1>1. ASSUME IInv, call.return_exceptions, failed, ~cancelled, raised[Producer] \notin Failures
      PROVE  \E c \in Consumers : raised[c] = "base"
  <2>1. PICK t \in Tasks : raised[t] \in Failures
    BY <1>1 DEF IInv, LatchInv
  <2>2. t \in Consumers /\ t # Producer
    BY <1>1, <2>1 DEF Tasks
  <2>3. raised[t] \in {"none", "cancelled", "base"}
    BY <1>1, <2>1, <2>2 DEF IInv, TaskInv
  <2> QED BY <2>1, <2>2, <2>3 DEF Failures
<1>2. IInv => CollectKeepsBatch
  BY <1>1 DEF CollectKeepsBatch
<1> QED BY <1>2, StreamInvariance, PTL

\* What is left once every task is collected and nothing speaks against a
\* clean end: the source is exhausted, every consumer got its sentinel, the
\* queue is empty, and every item is kept.
LEMMA CleanEnd ==
  ASSUME IInv, AllReaped, pc[Producer] # "absent", ~cancelled, errors = {}, ~aborting
  PROVE  /\ ~failed /\ Len(queue) = 0 /\ closed = started /\ Calling = {}
         /\ metrics.produced = call.length /\ metrics.consumed = call.length
         /\ \A k \in Items : results[k] # <<>>
<1>1. /\ call \in Calls /\ Producer \in Tasks /\ \A c \in Consumers : c \in Tasks /\ c # Producer
      /\ started \in Nat /\ closed \in Nat /\ Len(queue) \in Nat /\ unfinished \in Nat /\ Gets \in Int
      /\ metrics.produced \in Nat /\ metrics.consumed \in Nat /\ Consumers \subseteq Nat
      /\ requested \in BOOLEAN /\ call.concurrency \in Int
  BY CallTypes, Numbers DEF IInv, TypeOK
<1>2. \A t \in Tasks : pc[t] \in {"absent", "reaped"}
  BY DEF AllReaped
<1>3. ~requested
  BY DEF IInv, GroupInv
<1>4. \A t \in Tasks : raised[t] \notin Failures
  <2>1. errors = {t \in Tasks : pc[t] = "reaped" /\ raised[t] \in Failures}
    BY DEF IInv, GroupInv
  <2>2. \A t \in Tasks : raised[t] # "none" => pc[t] = "reaped"
    BY <1>2 DEF IInv, TaskInv, Settled
  <2>3. "none" \notin Failures
    BY DEF Failures
  <2> QED BY <1>3, <2>1, <2>2, <2>3
<1>5. ~failed /\ ~Stopping
  BY <1>3, <1>4 DEF IInv, LatchInv, Stopping, CallerCancelled
<1>6. \A t \in Tasks : raised[t] = "none"
  BY <1>4, <1>5 DEF IInv, TaskInv
<1>7. metrics.produced = call.length /\ closed = started /\ (started = 0 => metrics.produced = 0)
  BY <1>1, <1>2, <1>6 DEF IInv, SourceInv, Settled
<1>8. Calling = {} /\ unfinished = Len(queue)
  <2>1. Calling = {}
    BY <1>1, <1>2 DEF Calling
  <2>2. Cardinality(Calling) = 0
    BY <2>1, FS_EmptySet
  <2> QED BY <1>1, <2>1, <2>2 DEF IInv, CountInv, TaskDoneMatchesGet
<1>9. Cardinality(Through) = started /\ (Through = {} => started = 0)
  <2>1. \A c \in Consumers : c \in Through <=> ~ (c > started)
    BY <1>1, <1>2, <1>6 DEF Through, Settled, IInv, PhaseInv
  <2>2. started = 0 \/ started \in Consumers
    BY DEF IInv, TypeOK
  <2>3. Through = 1..started
    <3>1. Through \subseteq Consumers
      BY DEF Through
    <3>2. \A c \in Consumers : c \in 1..started <=> ~ (c > started)
      BY <1>1 DEF Consumers
    <3>3. 1..started \subseteq Consumers
      BY <1>1, <2>2 DEF Consumers
    <3> QED BY <2>1, <3>1, <3>2, <3>3
  <2>4. Cardinality(1..started) = started
    <3>1. Cardinality(1..started) = IF 1 > started THEN 0 ELSE started - 1 + 1
      BY <1>1, FS_Interval
    <3> QED BY <1>1, <3>1
  <2>5. Through = {} => started = 0
    BY <2>3, <2>4, FS_EmptySet
  <2> QED BY <2>3, <2>4, <2>5
<1>10. /\ Gets <= metrics.produced => metrics.consumed + unfinished = metrics.produced + closed /\ Through = {}
       /\ Gets >= metrics.produced =>
            /\ metrics.consumed + unfinished = metrics.produced + Len(queue)
            /\ Cardinality(Through) = Gets - metrics.produced
       /\ Gets >= 0
  BY <1>5 DEF IInv, CountInv, QueueInv
<1>11. Gets = metrics.produced + closed - Len(queue)
  BY DEF Gets
<1>12. Len(queue) = 0 /\ metrics.consumed = metrics.produced /\ Gets >= metrics.produced
  <2>1. CASE Gets >= metrics.produced
    <3>1. Len(queue) = 0
      BY <1>1, <1>7, <1>9, <1>10, <1>11, <2>1
    <3> QED BY <1>1, <1>8, <1>10, <2>1, <3>1
  <2>2. CASE ~ (Gets >= metrics.produced)
    <3>1. started = 0 /\ metrics.produced = 0
      BY <1>1, <1>7, <1>9, <1>10, <2>2
    <3> QED BY <1>1, <1>10, <2>2, <3>1
  <2> QED BY <2>1, <2>2
<1>13. ASSUME NEW k \in Items PROVE results[k] # <<>>
  <2>1. Taken(k)
    <3>1. k \in Nat /\ k <= call.length
      BY <1>1, CallTypes DEF Items
    <3> QED BY <1>1, <1>7, <1>12, <3>1 DEF Taken
  <2> QED BY <1>5, <1>8, <2>1 DEF IInv, ItemInv
<1> QED BY <1>5, <1>7, <1>8, <1>12, <1>13

\* So it is when stream() returns.
LEMMA ReturnFacts ==
  ASSUME IInv, status = "returned"
  PROVE  /\ ~cancelled /\ ~failed /\ Len(queue) = 0 /\ closed = started /\ Calling = {}
         /\ metrics.produced = call.length /\ metrics.consumed = call.length
         /\ \A k \in Items : results[k] # <<>>
<1>1. AllReaped /\ pc[Producer] # "absent"
  BY DEF IInv, PhaseInv, Done, AllReaped
<1>2. ~cancelled /\ errors = {} /\ ~aborting
  BY DEF IInv, GroupInv
<1> QED BY <1>1, <1>2, CleanEnd


\* What the invariants say of the counters.
LEMMA MetricsFromInv ==
  ASSUME IInv
  PROVE  MetricsTell
<1>1. metrics.consumed <= metrics.produced
  <2>1. metrics.consumed + unfinished <= metrics.produced + Len(queue) /\ unfinished = Len(queue) + Cardinality(Calling)
    BY DEF IInv, CountInv, TaskDoneMatchesGet
  <2>2. /\ metrics.consumed \in Nat /\ metrics.produced \in Nat /\ Len(queue) \in Nat
        /\ unfinished \in Nat /\ Cardinality(Calling) \in Nat
    BY Numbers, FiniteConsumers DEF IInv, TypeOK
  <2> QED BY <2>1, <2>2
<1> QED BY <1>1, ReturnFacts DEF MetricsTell, IInv, QueueInv

\* The StreamMetrics counters tell the truth: a pause is counted only against
\* a queue that was full, nothing is finished before it is put, and when
\* stream() returns every item has been counted at both ends.
THEOREM MetricsAlwaysTell == Spec => []MetricsTell
BY MetricsFromInv, StreamInvariance, PTL

\* When stream() returns nobody has cancelled its caller and neither side has
\* failed; nothing is left in the queue; and each item of the source has been
\* put through fn exactly once, with a value unless exceptions are returned.
THEOREM EveryReturnIsClean == Spec => []CleanReturn
<1>1. ASSUME IInv, status = "returned", NEW k \in Items
      PROVE  Len(results[k]) = 1 /\ (call.return_exceptions \/ results[k] = <<"value">>)
  <2>1. results[k] # <<>>
    BY <1>1, ReturnFacts
  <2>2. \/ results[k] = <<"value">>
        \/ call.return_exceptions /\ \E v \in Verdicts : results[k] = <<v>>
    BY <1>1, <2>1 DEF IInv, ItemInv
  <2> QED BY <2>2
<1>2. ASSUME IInv, status = "returned" PROVE ~cancelled /\ ~failed /\ queue = <<>> /\ closed = started
  <2>1. ~cancelled /\ ~failed /\ Len(queue) = 0 /\ closed = started
    BY <1>2, ReturnFacts
  <2>2. queue \in Seq(Items \cup {Sentinel})
    BY <1>2, Numbers DEF IInv
  <2> QED BY <2>1, <2>2, EmptySeq
<1>3. IInv => CleanReturn
  BY <1>1, <1>2 DEF CleanReturn
<1> QED BY <1>3, StreamInvariance, PTL

-----------------------------------------------------------------------------
(* The stream of the backpressure demo: its source never waits.            *)

\* Until it is first suspended the producer puts what it pulls and no consumer
\* runs; from then on each pause is for an item the queue did not hold at first.
FillInv ==
  /\ pc[Producer] \in {"absent", "created"} => metrics.max_queue_depth = 0
  /\ metrics.producer_pauses = 0 =>
       /\ metrics.max_queue_depth = metrics.produced
       /\ pc[Producer] # "putting"
       /\ pc[Producer] = "pulling" => Gets = 0
  /\ metrics.producer_pauses > 0 => metrics.producer_pauses + call.queue_size <= pulled

\* The numbers in it.
LEMMA FillTypes ==
  ASSUME IInv
  PROVE  /\ pulled \in Int /\ metrics.produced \in Int /\ metrics.producer_pauses \in Int
         /\ metrics.max_queue_depth \in Int /\ call.queue_size \in Int /\ Len(queue) \in Int
         /\ closed \in Int /\ call.length \in Int
         /\ metrics.producer_pauses >= 0 /\ metrics.max_queue_depth >= 0
         /\ metrics.produced >= 0 /\ Len(queue) >= 0
<1>1. TypeOK /\ call \in Calls
  BY DEF IInv, TypeOK
<1>2. \A n \in Nat : n \in Int /\ n >= 0
  OBVIOUS
<1> QED BY <1>1, <1>2, CallTypes, Numbers

\* A step that leaves the source and the counters alone, and does not send the
\* producer back to either, changes nothing of this.
LEMMA FillStays ==
  ASSUME FillInv, call' = call, pulled' = pulled,
         metrics'.producer_pauses = metrics.producer_pauses,
         metrics'.max_queue_depth = metrics.max_queue_depth,
         metrics'.produced = metrics.produced,
         pc'[Producer] # "pulling",
         pc'[Producer] = "putting" => pc[Producer] = "putting",
         pc'[Producer] \in {"absent", "created"} => metrics.max_queue_depth = 0
  PROVE  FillInv'
BY DEF FillInv

\* The source yields.
LEMMA FillByYield ==
  ASSUME IInv, FillInv, SourceYields
  PROVE  FillInv'
<1>1. /\ pc[Producer] = "pulling" /\ pulled' = pulled + 1 /\ UNCHANGED <<call, closed>>
      /\ Producer \in Tasks /\ pc \in [Tasks -> Positions]
  BY CallTypes DEF SourceYields, IInv, TypeOK
<1>2. metrics.produced = pulled /\ closed = 0 /\ ~Refused
  BY <1>1, TaskWaits DEF IInv, SourceInv, Undone, TypeOK
<1>3. CASE metrics' = metrics /\ pc'[Producer] = "ended"
  <2>1. metrics.producer_pauses > 0 => metrics.producer_pauses + call.queue_size <= pulled + 1
    BY FillTypes DEF FillInv
  <2> QED BY <1>1, <1>3, <2>1 DEF FillInv
<1>4. CASE /\ Full /\ pc'[Producer] = "putting"
           /\ metrics' = [metrics EXCEPT !.producer_pauses = @ + 1]
  <2>1. /\ metrics'.producer_pauses = metrics.producer_pauses + 1
        /\ metrics'.max_queue_depth = metrics.max_queue_depth /\ metrics'.produced = metrics.produced
    BY <1>4 DEF IInv, TypeOK
  <2>2. metrics.producer_pauses = 0 => call.queue_size <= pulled
    <3>1. call.queue_size <= Len(queue)
      BY <1>4, FillTypes DEF Full
    <3>2. metrics.producer_pauses = 0 => metrics.produced + closed - Len(queue) = 0
      BY <1>1 DEF FillInv, Gets
    <3> QED BY <1>2, <3>1, <3>2, FillTypes
  <2>3. metrics.producer_pauses > 0 => metrics.producer_pauses + call.queue_size <= pulled
    BY DEF FillInv
  <2>4. metrics.producer_pauses + 1 > 0 /\ metrics.producer_pauses + 1 # 0
        /\ metrics.producer_pauses + 1 + call.queue_size <= pulled + 1
    <3> DEFINE n == metrics.producer_pauses
    <3>1. PICK p, q, b \in Int : p = n /\ q = call.queue_size /\ b = pulled /\ p >= 0
      BY FillTypes
    <3>2. (p = 0 => q <= b) /\ (p > 0 => p + q <= b)
      BY <2>2, <2>3, <3>1
    <3>3. p + 1 > 0 /\ p + 1 # 0 /\ p + 1 + q <= b + 1
      BY ONLY p \in Int, q \in Int, b \in Int, <3>1, <3>2
    <3> QED BY <3>1, <3>3, Zenon
  <2> QED BY <1>1, <1>4, <2>1, <2>4 DEF FillInv
<1>5. CASE ~Full /\ pc'[Producer] = "pulling" /\ Enqueue(pulled', 0)
  <2>1. /\ metrics'.producer_pauses = metrics.producer_pauses + 0
        /\ metrics'.max_queue_depth = IF Len(queue) + 1 > metrics.max_queue_depth
                                      THEN Len(queue) + 1 ELSE metrics.max_queue_depth
        /\ metrics'.produced = metrics.produced + 1
        /\ queue' = Append(queue, pulled')
    BY <1>5 DEF Enqueue, IInv, TypeOK
  <2>2. metrics'.producer_pauses = metrics.producer_pauses /\ Len(queue') = Len(queue) + 1
    <3>1. queue \in Seq(Items \cup {Sentinel})
      BY DEF IInv, TypeOK
    <3>2. pulled \in Nat /\ call.length \in Nat /\ pulled < call.length
      BY CallTypes, Numbers DEF IInv, TypeOK, SourceYields
    <3>3. pulled' \in Items
      BY <1>1, <3>2 DEF Items
    <3> QED BY <2>1, <3>1, <3>3, AppendProperties, FillTypes
  <2>3. ASSUME metrics.producer_pauses = 0
        PROVE  metrics'.max_queue_depth = metrics'.produced /\ Gets' = 0
    <3>1. metrics.max_queue_depth = metrics.produced /\ metrics.produced + closed - Len(queue) = 0
      BY <1>1, <2>3 DEF FillInv, Gets
    <3>2. Gets' = metrics.produced + 1 + closed - (Len(queue) + 1)
      BY <1>1, <2>1, <2>2 DEF Gets
    <3>3. Len(queue) = metrics.produced
      BY <1>2, <3>1, FillTypes
    <3> QED BY <1>2, <2>1, <3>1, <3>2, <3>3, FillTypes
  <2>4. metrics.producer_pauses > 0 => metrics.producer_pauses + call.queue_size <= pulled + 1
    BY FillTypes DEF FillInv
  <2> QED BY <1>1, <1>5, <2>2, <2>3, <2>4 DEF FillInv
<1> QED BY <1>1, <1>3, <1>4, <1>5 DEF SourceYields, ProducerRaises, ProducerEnds

\* Every step with a source that never waits.
LEMMA FillStep ==
  ASSUME IInv, Ready, FillInv, [SourcesNext]_vars
  PROVE  FillInv'
<1>1. /\ Producer \in Tasks /\ \A c \in Consumers : c \in Tasks /\ c # Producer
      /\ pc \in [Tasks -> Positions]
      /\ metrics \in [produced : 0..call.length, consumed : 0..call.length,
                      producer_pauses : 0..call.length, max_queue_depth : {0} \cup 1..call.queue_size]
  BY CallTypes DEF IInv, TypeOK
<1>2. pc[Producer] \in {"absent", "created"} => metrics.max_queue_depth = 0
  BY DEF FillInv
<1>3. CASE UNCHANGED vars
  BY <1>3 DEF vars, tasks, source, data, FillInv, Gets
<1>4. CASE pc[Producer] = "pulling" /\ SourceYields
  BY <1>4, FillByYield
<1>5. CASE pc[Producer] = "pulling" /\ SourceEnds
  <2>1. call' = call /\ pulled' = pulled /\ metrics' = metrics
        /\ pc'[Producer] \in {"ended", "closing"}
    BY <1>1, <1>5 DEF SourceEnds, ProducerRaises, ProducerEnds, PutSentinels
  <2> QED BY <2>1, FillStays
<1>6. CASE pc[Producer] # "pulling" /\ Next
  <2>1. CASE ProducerStart
    <3>1. /\ UNCHANGED <<call, pulled, metrics, queue, closed>>
          /\ pc[Producer] = "created" /\ pc'[Producer] = "pulling"
      BY <1>1, <2>1 DEF ProducerStart, source, data
    <3>2. /\ metrics.produced = pulled /\ pulled = 0 /\ closed = 0 /\ metrics.producer_pauses <= pulled
          /\ Gets >= 0 /\ metrics.max_queue_depth = 0
      BY <1>2, <3>1 DEF IInv, SourceInv, QueueInv
    <3>3. metrics.producer_pauses = 0 /\ metrics.max_queue_depth = metrics.produced /\ Gets = 0
      BY <3>2, FillTypes DEF Gets
    <3>4. Gets' = Gets
      BY <3>1 DEF Gets
    <3> QED BY <3>1, <3>3, <3>4 DEF FillInv
  <2>2. CASE PutUnblocks
    <3>1. /\ UNCHANGED <<call, pulled>> /\ pc[Producer] = "putting" /\ pc'[Producer] = "pulling"
          /\ Enqueue(pulled, 0)
      BY <1>1, <2>2 DEF PutUnblocks, source
    <3>2. metrics'.producer_pauses = metrics.producer_pauses + 0
      BY <1>1, <3>1 DEF Enqueue
    <3>3. metrics'.producer_pauses = metrics.producer_pauses /\ metrics.producer_pauses # 0
      BY <3>1, <3>2, FillTypes DEF FillInv
    <3> QED BY <3>1, <3>3 DEF FillInv
  <2>3. CASE PutCancelled \/ ClosingUnblocks \/ ProducerCancelled
    <3>1. UNCHANGED <<call, pulled, metrics>> /\ pc'[Producer] \in {"ended", "closing"}
      BY <1>1, <2>3 DEF PutCancelled, ClosingUnblocks, ProducerCancelled, ProducerRaises,
                        ProducerEnds, PutSentinels, source, data
    <3> QED BY <3>1, FillStays
  <2>4. CASE Spawn
    <3>1. UNCHANGED <<call, pulled, metrics>> /\ pc'[Producer] = "created" /\ pc[Producer] = "absent"
      BY <1>1, <2>4 DEF Spawn, source, data, IInv, PhaseInv
    <3> QED BY <1>2, <3>1, FillStays
  <2>5. CASE Refuse \/ CallerResume \/ CancelCaller \/ Terminated
    <3>1. UNCHANGED <<call, pulled, metrics, pc>>
      BY <2>5 DEF Refuse, CallerResume, CancelCaller, Terminated, vars, tasks, source, data
    <3> QED BY <1>2, <1>6, <3>1, FillStays
  <2>6. ASSUME NEW t \in Tasks, Reap(t) PROVE FillInv'
    <3>1. UNCHANGED <<call, pulled, metrics>> /\ pc'[Producer] \in {pc[Producer], "reaped"}
      BY <1>1, <2>6 DEF Reap, source, data
    <3> QED BY <1>2, <1>6, <3>1, FillStays
  <2>7. ASSUME NEW c \in Consumers, ConsumerStep(c) \/ FnStep(c) \/ FnEnds(c) PROVE FillInv'
    <3>1. UNCHANGED <<call, pulled>> /\ pc'[Producer] = pc[Producer]
      BY <1>1, <2>7 DEF ConsumerStep, FnStep, FnEnds, ConsumerStart, GetUnblocks, ConsumerCancelled,
           Deadline, FnAbsorbsCancel, FnLeaksCancelCount, Settle, LoopTop, Take, Ends, source, data
    <3>2. metrics' = metrics \/ metrics' = [metrics EXCEPT !.consumed = @ + 1]
      BY <2>7 DEF ConsumerStep, FnStep, FnEnds, ConsumerStart, GetUnblocks, ConsumerCancelled,
           Deadline, FnAbsorbsCancel, FnLeaksCancelCount, Settle, data
    <3>3. /\ metrics'.producer_pauses = metrics.producer_pauses
          /\ metrics'.max_queue_depth = metrics.max_queue_depth /\ metrics'.produced = metrics.produced
      BY <1>1, <3>2
    <3> QED BY <1>2, <1>6, <3>1, <3>3, FillStays
  <2>8. ~SourceStep /\ ~SourceAbsorbsCancel
    BY <1>6 DEF SourceStep, SourceYields, SourceEnds, SourceRaises, SourceAbsorbsCancel
  <2> QED BY <1>6, <2>1, <2>2, <2>3, <2>4, <2>5, <2>6, <2>7, <2>8 DEF Next, CallStep, ProducerStep
<1> QED BY <1>3, <1>4, <1>5, <1>6 DEF SourcesNext

\* The arguments stay.
LEMMA SameCall ==
  ASSUME [Next]_vars
  PROVE  call' = call
<1>1. CASE CallStep \/ CancelCaller \/ Terminated \/ UNCHANGED vars \/ \E t \in Tasks : Reap(t)
  BY <1>1 DEF CallStep, Refuse, Spawn, CallerResume, CancelCaller, Terminated, Reap, vars
<1>2. CASE ProducerStep \/ SourceStep \/ SourceAbsorbsCancel
  BY <1>2 DEF ProducerStep, ProducerStart, PutUnblocks, PutCancelled, ClosingUnblocks, ProducerCancelled,
       SourceStep, SourceYields, SourceEnds, SourceRaises, SourceAbsorbsCancel
<1>3. CASE \E c \in Consumers : ConsumerStep(c) \/ FnStep(c) \/ FnEnds(c)
  BY <1>3 DEF ConsumerStep, FnStep, FnEnds, ConsumerStart, GetUnblocks, ConsumerCancelled,
       Deadline, FnAbsorbsCancel, FnLeaksCancelCount, Settle
<1> QED BY <1>1, <1>2, <1>3 DEF Next

\* With a source that never waits, what stream() reports when it returns is one
\* of the rows that the backpressure demo's report is computed from.
THEOREM DemoRowsAreStreams == SourcesSpec => []ReportTells
<1>1. Init => IInv /\ (Ready => FillInv)
  <2> SUFFICES ASSUME Init PROVE FillInv
    BY InitInv
  <2>1. /\ metrics.producer_pauses = 0 /\ metrics.max_queue_depth = 0 /\ metrics.produced = 0
        /\ pc[Producer] = "absent"
    BY CallTypes DEF Init
  <2> QED BY <2>1 DEF FillInv
<1>2. IInv /\ (Ready => FillInv) /\ [SourcesNext]_vars => IInv' /\ (Ready => FillInv)'
  BY NextInv, FillStep, SameCall DEF SourcesNext, Ready
<1>3. ASSUME IInv, FillInv, status = "returned"
      PROVE  /\ metrics.max_queue_depth = Depth(call.length, call.queue_size)
             /\ metrics.producer_pauses \in PauseCounts(call.length, call.queue_size)
  <2>1. metrics.produced = call.length /\ pulled <= call.length /\ call.queue_size > 0
    <3>1. metrics.produced = call.length /\ ~Refused
      BY <1>3, ReturnFacts DEF IInv, PhaseInv
    <3> QED BY <1>3, <3>1, Numbers, FillTypes DEF IInv, Refused
  <2>2. CASE metrics.producer_pauses = 0
    <3>1. metrics.max_queue_depth = call.length
      BY <1>3, <2>1, <2>2 DEF FillInv
    <3>2. metrics.max_queue_depth \in {0} \cup 1..call.queue_size
      BY <1>3 DEF IInv, TypeOK
    <3>3. ~ (call.length > call.queue_size)
      BY <1>3, <2>1, <3>1, <3>2, FillTypes
    <3> QED BY <2>2, <3>1, <3>3 DEF Depth, PauseCounts
  <2>3. CASE metrics.producer_pauses > 0
    <3>1. metrics.producer_pauses + call.queue_size <= pulled /\ metrics.max_queue_depth = call.queue_size
      BY <1>3, <2>3 DEF FillInv, IInv, QueueInv
    <3>2. call.length > call.queue_size
          /\ metrics.producer_pauses \in 1..(call.length - call.queue_size)
      BY <1>3, <2>1, <2>3, <3>1, FillTypes
    <3> QED BY <3>1, <3>2 DEF Depth, PauseCounts
  <2> QED BY <1>3, <2>2, <2>3, FillTypes
<1>4. IInv /\ (Ready => FillInv) => RunOneRow
  BY <1>3 DEF RunOneRow
<1>5. IInv /\ (Ready => FillInv) => ReportTells
  BY <1>4, MetricsFromInv DEF ReportTells
<1> QED BY <1>1, <1>2, <1>5, PTL DEF SourcesSpec

-----------------------------------------------------------------------------
(* stream implements BoundedFanOut.                                        *)

\* The mapping's phase and doom.
Phase == IF ~Done THEN "open" ELSE IF status = "returned" THEN "returned" ELSE "raised"
Doomed == failed \/ aborting

\* The abstract variables, written out.
LEMMA FanActions ==
  /\ Fan!vars = <<call.concurrency, Work, Doomed, Phase>>
  /\ DOMAIN Work = Items
  /\ Work \in [Items -> {"pending", "running", "kept", "lost"}]
BY DEF Fan!vars, Doomed, Phase, Work

\* They are functions of what they are read from.
LEMMA FanStutter ==
  ASSUME UNCHANGED <<call, status>>, Work' = Work, Doomed' = Doomed
  PROVE  UNCHANGED Fan!vars
BY DEF Fan!vars, Doomed, Done

\* An item's work, case by case.
LEMMA WorkOf ==
  ASSUME NEW k \in Items
  PROVE  /\ results[k] # <<>> <=> Work[k] = "kept"
         /\ results[k] = <<>> => (Work[k] = "running" <=> \E d \in Calling : item[d] = k)
         /\ (results[k] = <<>> /\ \A d \in Consumers : item[d] # k) => Work[k] = "pending"
BY DEF Work, Calling

\* What leaves the calls of fn, their items and the results alone leaves the
\* work alone.
LEMMA WorkStays ==
  ASSUME UNCHANGED <<call, item, results>>, \A c \in Consumers : pc'[c] = "calling" <=> pc[c] = "calling"
  PROVE  Work' = Work
<1>1. Consumers' = Consumers /\ Items' = Items
  BY DEF Consumers, Items
<1>2. Calling' = Calling
  BY <1>1 DEF Calling
<1> QED BY <1>1, <1>2 DEF Work

\* A consumer that is in no call of fn has room to begin one.
LEMMA RoomToBegin ==
  ASSUME IInv, NEW c \in Consumers, pc[c] # "calling"
  PROVE  Cardinality(Fan!In("running")) < call.concurrency
<1>1. /\ call \in Calls /\ call.concurrency \in Int /\ IsFiniteSet(Consumers)
      /\ IsFiniteSet(Calling) /\ Cardinality(Calling) \in Nat
  BY CallTypes, FiniteConsumers DEF IInv, TypeOK
<1>2. PICK T : T = {item[d] : d \in Calling}
  OBVIOUS
<1>3. IsFiniteSet(T) /\ Cardinality(T) <= Cardinality(Calling)
  <2>1. [d \in Calling |-> item[d]] \in Surjection(Calling, T)
    BY <1>2 DEF Surjection
  <2> QED BY <1>1, <2>1, FS_Surjection
<1>4. PICK R : R = Fan!In("running")
  OBVIOUS
<1>5. R \subseteq T
  <2>1. ASSUME NEW k \in R PROVE k \in T
    <3>1. k \in Items /\ Work[k] = "running"
      BY <1>4, FanActions DEF Fan!In
    <3>2. \E d \in Calling : item[d] = k
      BY <3>1, WorkOf
    <3> QED BY <1>2, <3>2
  <2> QED BY <2>1
<1>6. Cardinality(R) \in Nat /\ Cardinality(T) \in Nat /\ Cardinality(R) <= Cardinality(T)
  BY <1>3, <1>5, FS_Subset, FS_CardinalityType
<1>7. Cardinality(Calling) <= Cardinality(Consumers \ {c})
  <2>1. Calling \subseteq Consumers \ {c} /\ IsFiniteSet(Consumers \ {c})
    BY <1>1, FS_RemoveElement DEF Calling
  <2> QED BY <2>1, FS_Subset
<1>8. Cardinality(Consumers \ {c}) = call.concurrency - 1
  <2>1. Cardinality(Consumers \ {c}) = Cardinality(Consumers) - 1
    BY <1>1, FS_RemoveElement
  <2>2. 1 <= call.concurrency
    BY <1>1 DEF Consumers
  <2>3. Cardinality(Consumers) = call.concurrency
    <3>1. \A b \in Int : 1 <= b => Cardinality(1..b) = b
      BY FS_Interval
    <3> QED BY <1>1, <2>2, <3>1 DEF Consumers
  <2> QED BY <1>1, <2>1, <2>2, <2>3
<1> QED BY <1>1, <1>3, <1>4, <1>6, <1>7, <1>8

\* A consumer's step begins a call of fn, keeps or loses one's item, does both
\* at once, or is invisible.
LEMMA ServeIsFan ==
  ASSUME IInv, NEW c \in Consumers, NEW was \in {0, 1}, NEW is \in {0, 1}, NEW got \in {0, 1}, NEW st \in {0, 1},
         Serves(c, was, is, got, st), pc[c] \in {"created", "getting", "calling"},
         status' = status, aborting' = aborting, is = 1 => ~aborting, st = was => failed' = failed
  PROVE  Fan!Next \/ UNCHANGED Fan!vars
<1>1. /\ call' = call /\ Items' = Items /\ Consumers' = Consumers /\ ~Done /\ ~Done' /\ c \in Tasks
      /\ Items \subseteq Nat /\ Sentinel \notin Items /\ Gets \in Int
      /\ \A d \in Consumers : d \in Tasks
  <2>1. call' = call /\ call \in Calls
    BY DEF Serves, IInv, TypeOK
  <2>2. c \in Tasks /\ Gets \in Int /\ Items \subseteq Nat /\ Sentinel \notin Items /\ \A d \in Consumers : d \in Tasks
    BY <2>1, CallTypes, Numbers DEF IInv
  <2>3. ~Done
    BY <2>2, TaskWaits DEF Undone
  <2> QED BY <2>1, <2>2, <2>3 DEF Items, Consumers, Done
<1>2. ItemInv /\ ItemInv' /\ is <= got /\ st <= was
  BY ServeItems, ServeNumbers DEF IInv
<1>3. Work \in [Items -> {"pending", "running", "kept", "lost"}]
      /\ Work' \in [Items -> {"pending", "running", "kept", "lost"}]
  BY <1>1, FanActions DEF Work
<1>4. ASSUME NEW k \in Items, NEW w, Work'[k] = w, \A j \in Items \ {k} : Work'[j] = Work[j]
      PROVE  Work' = [Work EXCEPT ![k] = w]
  BY <1>3, <1>4
<1>5. (c \in Calling <=> was = 1) /\ (c \in Calling' <=> is = 1)
      /\ \A d \in Consumers \ {c} : (d \in Calling' <=> d \in Calling) /\ item'[d] = item[d]
  BY <1>1 DEF Serves, Calling
<1>6. /\ item[c] \in Items \cup {Sentinel} /\ item'[c] \in Items \cup {Sentinel}
      /\ is = 0 => item'[c] \in {item[c], Sentinel}
      /\ was = 1 => item[c] \in Items /\ results[item[c]] = <<>>
      /\ was = 0 => item[c] = Sentinel \/ results[item[c]] # <<>>
  <2>1. item[c] \in Items \cup {Sentinel} /\ item'[c] \in Items \cup {Sentinel}
    BY <1>1 DEF Serves, IInv, TypeOK
  <2>2. is = 0 => item'[c] \in {item[c], Sentinel}
    BY DEF Serves
  <2>3. was = 1 <=> pc[c] = "calling"
    BY DEF Serves
  <2> QED BY <1>2, <2>1, <2>2, <2>3 DEF ItemInv
<1>7. /\ \A k \in Items : k # item[c] => results'[k] = results[k]
      /\ st = 0 => results' = results
      /\ \A k \in Items : results[k] # <<>> => results'[k] # <<>>
      /\ st = 1 => was = 1 /\ results'[item[c]] # <<>>
  <2>1. CASE st = 0
    <3>1. results' = results
      BY <2>1 DEF Serves
    <3> QED BY <2>1, <3>1
  <2>2. CASE st = 1
    <3>1. PICK v \in Verdicts : results' = [results EXCEPT ![item[c]] = Append(@, v)]
      BY <2>2 DEF Serves
    <3>2. results \in [Items -> Seq(Verdicts)] /\ was = 1
      BY <2>2 DEF Serves, IInv, TypeOK
    <3>3. Append(<<>>, v) # <<>>
      OBVIOUS
    <3> QED BY <1>6, <2>2, <3>1, <3>2, <3>3
  <2> QED BY <2>1, <2>2
<1>8. ASSUME NEW k \in Items, results[k] # <<>> \/ (k # item[c] /\ k # item'[c])
      PROVE  Work'[k] = Work[k]
  <2>1. CASE results[k] # <<>>
    <3>1. results'[k] # <<>>
      BY <1>7, <2>1
    <3> QED BY <1>1, <2>1, <3>1 DEF Work
  <2>2. CASE results[k] = <<>> /\ k # item[c] /\ k # item'[c]
    <3>1. results'[k] = <<>>
      BY <1>7, <2>2
    <3>2. (\E d \in Calling' : item'[d] = k) <=> (\E d \in Calling : item[d] = k)
      <4>1. Calling \subseteq Consumers /\ Calling' \subseteq Consumers
        BY <1>1 DEF Calling
      <4> QED BY <1>5, <2>2, <4>1
    <3>3. (\E d \in Consumers : item'[d] = k) <=> (\E d \in Consumers : item[d] = k)
      BY <1>5, <2>2
    <3> QED BY <1>1, <2>2, <3>1, <3>2, <3>3 DEF Work
  <2> QED BY <1>8, <2>1, <2>2
<1>9. ASSUME is = 1
      PROVE  /\ item'[c] \in Items /\ item'[c] # item[c]
             /\ Work[item'[c]] = "pending" /\ Work'[item'[c]] = "running"
             /\ ~failed
  <2>1. pc'[c] = "calling" /\ got = 1
    BY <1>2, <1>9 DEF Serves
  <2>2. queue # <<>> /\ Head(queue) # Sentinel /\ ~failed /\ item'[c] = Head(queue)
    BY <2>1 DEF Serves
  <2>3. Head(queue) = Gets + 1
    BY <2>2, HeadIsNext DEF IInv
  <2>4. item'[c] \in Items /\ item'[c] = Gets + 1
    BY <1>6, <2>2, <2>3
  <2>5. ~ (Gets + 1 <= Gets)
    BY <1>1
  <2>6. ~Taken(item'[c])
    BY <2>4, <2>5 DEF Taken
  <2>7. results[item'[c]] = <<>> /\ \A d \in Consumers : item[d] # item'[c]
    BY <1>1, <1>2, <2>4, <2>6 DEF ItemInv
  <2>8. results'[item'[c]] = <<>> /\ c \in Calling'
    BY <1>2, <1>5, <1>7, <1>9, <2>4, <2>7
  <2>9. Work[item'[c]] = "pending"
    BY <2>4, <2>7, WorkOf
  <2>10. Work'[item'[c]] = "running"
    BY <1>1, <2>4, <2>8 DEF Work
  <2> QED BY <2>2, <2>4, <2>7, <2>9, <2>10
<1>10. was = 1 => Work[item[c]] = "running"
  BY <1>5, <1>6, WorkOf
<1>11. CASE was = 0 /\ is = 0
  <2>1. st = 0
    BY <1>2, <1>11
  <2>2. \A k \in Items : Work'[k] = Work[k]
    BY <1>1, <1>6, <1>8, <1>11
  <2>3. Work' = Work
    BY <1>3, <2>2
  <2> QED BY <1>1, <1>11, <2>1, <2>3, FanStutter DEF Doomed
<1>12. CASE was = 0 /\ is = 1
  <2>1. st = 0 /\ failed' = failed
    BY <1>2, <1>12
  <2>2. \A k \in Items \ {item'[c]} : Work'[k] = Work[k]
    BY <1>1, <1>6, <1>8, <1>12
  <2>3. Work' = [Work EXCEPT ![item'[c]] = "running"]
    BY <1>4, <1>9, <1>12, <2>2
  <2>4. Cardinality(Fan!In("running")) < call.concurrency
    BY <1>5, <1>12, RoomToBegin DEF Calling
  <2>5. Fan!Cardinality(Fan!In("running")) = Cardinality(Fan!In("running"))
    BY DEF Fan!Cardinality, Cardinality
  <2>6. Fan!Begin(item'[c])
    BY <1>1, <1>9, <1>12, <2>1, <2>3, <2>4, <2>5 DEF Fan!Begin, Done
  <2> QED BY <1>9, <1>12, <2>6, FanActions DEF Fan!Next
<1>13. CASE was = 1 /\ st = 1 /\ is = 0
  <2>1. Work'[item[c]] = "kept"
    BY <1>1, <1>6, <1>7, <1>13 DEF Work
  <2>2. \A k \in Items \ {item[c]} : Work'[k] = Work[k]
    BY <1>1, <1>6, <1>8, <1>13
  <2>3. Work' = [Work EXCEPT ![item[c]] = "kept"]
    BY <1>4, <1>6, <1>13, <2>1, <2>2
  <2>4. Fan!Keep(item[c])
    BY <1>1, <1>10, <1>13, <2>3 DEF Fan!Keep, Done
  <2> QED BY <1>6, <1>13, <2>4, FanActions DEF Fan!Next
<1>14. CASE was = 1 /\ st = 1 /\ is = 1
  <2>1. Work'[item[c]] = "kept"
    BY <1>1, <1>6, <1>7, <1>14 DEF Work
  <2>2. \A k \in Items \ {item[c], item'[c]} : Work'[k] = Work[k]
    BY <1>8
  <2>3. Work' = [Work EXCEPT ![item[c]] = "kept", ![item'[c]] = "running"]
    <3>1. \A k \in Items : Work'[k] = [Work EXCEPT ![item[c]] = "kept", ![item'[c]] = "running"][k]
      BY <1>3, <1>6, <1>9, <1>14, <2>1, <2>2
    <3>2. [Work EXCEPT ![item[c]] = "kept", ![item'[c]] = "running"] \in [Items -> {"pending", "running", "kept", "lost"}]
      BY <1>3
    <3> QED BY <1>3, <3>1, <3>2
  <2>4. Fan!Relay(item[c], item'[c])
    BY <1>1, <1>9, <1>10, <1>14, <2>3 DEF Fan!Relay, Done
  <2> QED BY <1>6, <1>9, <1>14, <2>4, FanActions DEF Fan!Next
<1>15. CASE was = 1 /\ st = 0
  <2>1. got = 0 /\ is = 0 /\ failed'
    BY <1>2, <1>15 DEF Serves
  <2>2. item'[c] = item[c] /\ results' = results
    BY <1>7, <1>15, <2>1 DEF Serves
  <2>3. Work'[item[c]] = "lost"
    <3>1. ~ \E d \in Calling' : item'[d] = item[c]
      <4>1. \A d \in Consumers \ {c} : item[d] # item[c]
        BY <1>1, <1>2, <1>6, <1>15 DEF ItemInv
      <4>2. Calling' \subseteq Consumers
        BY <1>1 DEF Calling
      <4> QED BY <1>5, <2>1, <4>1, <4>2
    <3> QED BY <1>1, <1>6, <1>15, <2>2, <3>1 DEF Work
  <2>4. \A k \in Items \ {item[c]} : Work'[k] = Work[k]
    BY <1>8, <2>2
  <2>5. Work' = [Work EXCEPT ![item[c]] = "lost"]
    BY <1>4, <1>6, <1>15, <2>3, <2>4
  <2>6. Fan!Lose(item[c])
    BY <1>1, <1>10, <1>15, <2>1, <2>5 DEF Fan!Lose, Done
  <2> QED BY <1>6, <1>15, <2>6, FanActions DEF Fan!Next
<1> QED BY <1>2, <1>11, <1>12, <1>13, <1>14, <1>15


\* A consumer's step is a step of its items' work, or invisible.
LEMMA ConsumerIsFan ==
  ASSUME IInv, NEW c \in Consumers, ConsumerStep(c) \/ FnStep(c) \/ FnEnds(c)
  PROVE  Fan!Next \/ UNCHANGED Fan!vars
<1>1. /\ call \in Calls /\ c \in Tasks /\ \A d \in Consumers : d \in Tasks
      /\ pc \in [Tasks -> Positions] /\ raised \in [Tasks -> Verdicts \cup {"none"}]
      /\ item \in [Tasks -> Items \cup {Sentinel}] /\ unfinished \in Nat
  BY CallTypes, Numbers DEF IInv, TypeOK
<1>2. /\ UNCHANGED <<call, status, cancelled, source, group>>
      /\ closed' = closed /\ aborting' = aborting /\ requested' = requested
  BY DEF ConsumerStep, FnStep, FnEnds, ConsumerStart, GetUnblocks, ConsumerCancelled, Deadline,
         FnAbsorbsCancel, FnLeaksCancelCount, Settle, source, group
<1>4. CASE ConsumerStart(c) \/ GetUnblocks(c)
  <2>1. /\ pc[c] \in {"created", "getting"} /\ ~throw[c] /\ failed' = failed
        /\ UNCHANGED <<call, closed, failed, results, metrics>>
        /\ LoopTop(c, unfinished) \/ Take(c, unfinished)
        /\ pc[c] = "getting" => Take(c, unfinished)
    BY <1>2, <1>4 DEF ConsumerStart, GetUnblocks
  <2>2. unfinished = unfinished - IF pc[c] = "calling" THEN 1 ELSE 0
    BY <1>1, <2>1
  <2>3. PICK was, is, got \in {0, 1} : Serves(c, was, is, got, was)
    BY <2>1, <2>2, LoopTopServes
  <2>4. ~aborting
    BY <1>1, <2>1 DEF IInv, TaskInv, Parked
  <2> QED BY <1>2, <2>1, <2>3, <2>4, ServeIsFan
<1>5. CASE ConsumerCancelled(c)
  <2>1. /\ pc[c] \in {"created", "getting"} /\ pc' = [pc EXCEPT ![c] = "ended"]
        /\ UNCHANGED <<call, status, item, results, failed, aborting>>
    BY <1>2, <1>5 DEF ConsumerCancelled, Ends, data
  <2>2. Work' = Work
    BY <1>1, <2>1, WorkStays
  <2> QED BY <2>1, <2>2, FanStutter DEF Doomed
<1>6. CASE FnStep(c)
  <2>1. UNCHANGED <<call, status, pc, item, results, failed, aborting>>
    BY <1>2, <1>6 DEF FnStep, Deadline, FnAbsorbsCancel, FnLeaksCancelCount, data
  <2>2. Work' = Work
    BY <2>1, WorkStays
  <2> QED BY <2>1, <2>2, FanStutter DEF Doomed
<1>7. ASSUME NEW out \in FnOutcomes, Settle(c, out)
      PROVE  Fan!Next \/ UNCHANGED Fan!vars
  <2>1. PICK v \in Verdicts : v = Verdict(out, expired[c], cancelling[c], Stopping)
    <3>1. out \in Outcomes /\ expired[c] \in BOOLEAN
      BY <1>1, OutcomesAssumption DEF IInv, TypeOK
    <3> QED BY <3>1, VerdictType
  <2>2. pc[c] = "calling"
    BY <1>7 DEF Settle
  <2>3. CASE v = "value" \/ (call.return_exceptions /\ IsException(v))
    <3>1. /\ results' = [results EXCEPT ![item[c]] = Append(@, v)]
          /\ metrics' = [metrics EXCEPT !.consumed = @ + 1]
          /\ LoopTop(c, unfinished - 1) /\ failed' = failed
      BY <1>7, <2>1, <2>3 DEF Settle
    <3>2. \E w \in Verdicts : /\ w = "value" \/ call.return_exceptions
                              /\ results' = [results EXCEPT ![item[c]] = Append(@, w)]
      BY <2>3, <3>1
    <3>3. unfinished - 1 = unfinished - (IF pc[c] = "calling" THEN 1 ELSE 0)
      BY <2>2
    <3>4. PICK was, is, got \in {0, 1} : Serves(c, was, is, got, was)
      BY <1>2, <2>2, <3>1, <3>2, <3>3, LoopTopServes
    <3>5. is = 1 => ~aborting
      <4>1. is = 1 => pc'[c] = "calling"
        BY <3>4 DEF Serves
      <4>2. Stopping => pc'[c] = "ended"
        BY <1>1, <3>1 DEF LoopTop, Ends
      <4> QED BY <4>1, <4>2, AbortShows
    <3> QED BY <1>2, <2>2, <3>1, <3>4, <3>5, ServeIsFan
  <2>4. CASE ~ (v = "value" \/ (call.return_exceptions /\ IsException(v)))
    <3>1. /\ pc' = [pc EXCEPT ![c] = "ended"] /\ raised' = [raised EXCEPT ![c] = v]
          /\ unfinished' = unfinished - 1 /\ failed' = TRUE
          /\ UNCHANGED <<queue, item, results, metrics>>
      BY <1>7, <2>1, <2>4 DEF Settle, Ends
    <3>2. v # "none"
      BY <2>4, UnstoredVerdict DEF Failures
    <3>3. /\ pc'[c] = "ended" /\ raised'[c] = v /\ item' \in [Tasks -> Items \cup {Sentinel}]
          /\ \A u \in Tasks \ {c} : pc'[u] = pc[u] /\ raised'[u] = raised[u]
          /\ unfinished' = unfinished - 1 + 0 - 0
      BY <1>1, <3>1
    <3>4. Serves(c, 1, 0, 0, 0)
      BY <1>1, <1>2, <2>2, <3>1, <3>2, <3>3 DEF Serves, Settled
    <3> QED BY <1>2, <2>2, <3>4, ServeIsFan
  <2> QED BY <2>3, <2>4
<1> QED BY <1>4, <1>5, <1>6, <1>7 DEF ConsumerStep, FnEnds

\* A step of the producer leaves the items' work alone; one by which it fails
\* dooms the call.
LEMMA ProducerIsFan ==
  ASSUME IInv, ProducerStep \/ SourceStep \/ SourceAbsorbsCancel
  PROVE  Fan!Next \/ UNCHANGED Fan!vars
<1>1. /\ call \in Calls /\ Producer \in Tasks /\ \A d \in Consumers : d \in Tasks /\ d # Producer
      /\ pc \in [Tasks -> Positions] /\ started \in Nat /\ Consumers \subseteq Nat
  BY CallTypes, Numbers DEF IInv, TypeOK
<1>2. /\ UNCHANGED <<call, status, item, results>> /\ aborting' = aborting
      /\ failed' = failed \/ failed' = TRUE
      /\ pc[Producer] \in Undone
  BY DEF ProducerStep, SourceStep, ProducerStart, PutUnblocks, PutCancelled, ClosingUnblocks, ProducerCancelled,
         SourceYields, SourceEnds, SourceRaises, SourceAbsorbsCancel, ProducerRaises, group, data, Undone
<1>3. \A c \in Consumers : pc'[c] = "calling" <=> pc[c] = "calling"
  <2>1. CASE \E where : pc' = [pc EXCEPT ![Producer] = where]
    BY <1>1, <2>1
  <2>2. CASE ~ \E where : pc' = [pc EXCEPT ![Producer] = where]
    <3>1. SourceYields /\ ~Stopping
      <4>1. pc' = pc => pc' = [pc EXCEPT ![Producer] = pc[Producer]]
        BY <1>1
      <4> QED BY <2>2, <4>1 DEF ProducerStep, SourceStep, ProducerStart, PutUnblocks, PutCancelled, ClosingUnblocks,
                   ProducerCancelled, SourceYields, SourceEnds, SourceRaises, SourceAbsorbsCancel, ProducerRaises,
                   ProducerEnds, PutSentinels
    <3>2. ~aborting
      BY <3>1, AbortShows
    <3>3. \A c \in Consumers : pc'[c] = pc[c] \/ (pc'[c] = "created" /\ c = started + 1)
      BY <1>1, <3>1, <3>2 DEF SourceYields
    <3>4. \A c \in Consumers : c = started + 1 => pc[c] = "absent"
      BY <1>1 DEF IInv, PhaseInv
    <3> QED BY <3>3, <3>4
  <2> QED BY <2>1, <2>2
<1>4. Work' = Work
  BY <1>2, <1>3, WorkStays
<1>5. CASE failed' = failed
  BY <1>2, <1>4, <1>5, FanStutter DEF Doomed
<1>6. CASE failed' = TRUE
  <2>1. ~Done /\ ~Done'
    <3>1. ~Done
      BY <1>1, <1>2, TaskWaits
    <3> QED BY <1>2, <3>1 DEF Done
  <2>2. Fan!Doom
    BY <1>2, <1>4, <1>6, <2>1 DEF Fan!Doom
  <2> QED BY <2>2 DEF Fan!Next
<1> QED BY <1>2, <1>5, <1>6

\* Collecting a task's end is invisible: a failure has doomed the call before.
LEMMA ReapIsFan ==
  ASSUME IInv, NEW t \in Tasks, Reap(t)
  PROVE  UNCHANGED Fan!vars
<1>1. /\ pc \in [Tasks -> Positions] /\ \A d \in Consumers : d \in Tasks
      /\ UNCHANGED <<call, status, item, results, failed>>
      /\ pc[t] = "ended" /\ pc' = [pc EXCEPT ![t] = "reaped"]
  BY CallTypes DEF IInv, TypeOK, Reap, data
<1>2. Work' = Work
  BY <1>1, WorkStays
<1>3. Doomed' = Doomed
  <2>1. CASE raised[t] \in {"none", "cancelled"} \/ aborting
    BY <1>1, <2>1 DEF Doomed, Reap, NoAbort
  <2>2. CASE raised[t] \notin {"none", "cancelled"}
    BY <1>1, <2>2 DEF Doomed, IInv, TaskInv
  <2> QED BY <2>1, <2>2
<1> QED BY <1>1, <1>2, <1>3, FanStutter

\* A step of the call itself opens or closes the promise, or dooms it.
LEMMA CallIsFan ==
  ASSUME IInv, CallStep \/ CancelCaller
  PROVE  Fan!Next \/ UNCHANGED Fan!vars
<1>1. call' = call /\ Items' = Items
  BY DEF CallStep, CancelCaller, Refuse, Spawn, CallerResume, Items
<1>2. CASE CancelCaller
  <2>1. UNCHANGED <<call, status, pc, item, results, failed, aborting>>
    BY <1>2 DEF CancelCaller, tasks, data
  <2> QED BY <2>1, WorkStays, FanStutter DEF Doomed
<1>3. CASE Spawn
  <2>1. /\ UNCHANGED <<item, results, failed, aborting>>
        /\ status = "entry" /\ status' = "waiting"
        /\ pc' = [pc EXCEPT ![Producer] = "created"]
        /\ pc \in [Tasks -> Positions] /\ \A c \in Consumers : c \in Tasks /\ c # Producer
    BY <1>3, CallTypes DEF Spawn, IInv, TypeOK, data
  <2>2. \A c \in Consumers : pc'[c] = pc[c]
    BY <2>1
  <2>3. Work' = Work
    BY <1>1, <2>1, <2>2, WorkStays
  <2> QED BY <1>1, <2>1, <2>3 DEF Fan!vars, Done
<1>4. ASSUME Work' = Work, UNCHANGED <<failed, aborting>>, ~Done, Done',
             \A k \in Items : Work[k] # "running",
             status' = "returned" => ~failed /\ ~aborting /\ \A k \in Items : Work[k] = "kept"
      PROVE  Fan!Next
  <2>1. Fan!In("running") = {}
    BY <1>4, FanActions DEF Fan!In
  <2>2. CASE status' = "returned"
    <3>1. Fan!In("kept") = DOMAIN Work
      BY <1>4, <2>2, FanActions DEF Fan!In
    <3>2. Fan!Return
      BY <1>1, <1>4, <2>2, <3>1 DEF Fan!Return
    <3> QED BY <3>2 DEF Fan!Next
  <2>3. CASE status' # "returned"
    <3>1. Fan!Raise
      BY <1>1, <1>4, <2>1, <2>3 DEF Fan!Raise
    <3> QED BY <3>1 DEF Fan!Next
  <2> QED BY <2>2, <2>3
<1>5. ASSUME \A t \in Tasks : pc[t] \in {"absent", "reaped"}
      PROVE  \A k \in Items : Work[k] # "running"
  <2>1. Calling = {}
    BY <1>5 DEF Calling, Tasks
  <2> QED BY <2>1 DEF Work
<1>6. CASE Refuse
  <2>1. /\ UNCHANGED <<call, pc, item, results, failed, aborting>>
        /\ status = "entry" /\ status' = "refused"
    BY <1>6 DEF Refuse, tasks, data, group
  <2>2. \A t \in Tasks : pc[t] = "absent"
    BY <2>1 DEF IInv, PhaseInv
  <2>3. Work' = Work /\ \A k \in Items : Work[k] # "running"
    BY <1>5, <2>1, <2>2, WorkStays
  <2> QED BY <1>4, <2>1, <2>3 DEF Done
<1>7. CASE CallerResume
  <2> DEFINE held == propagate \/ (wake /\ ~aborting)
  <2>1. /\ UNCHANGED <<call, pc, item, results, failed>>
        /\ status = "waiting" /\ ~Done
        /\ \/ AllReaped /\ status' = Ending(held)
           \/ ~AllReaped /\ status' = "waiting"
        /\ \/ wake /\ ~aborting /\ aborting'
           \/ (~wake \/ aborting) /\ aborting' = aborting
    BY <1>7 DEF CallerResume, NoAbort, Abort, Done, data
  <2>2. Work' = Work
    BY <2>1, WorkStays
  <2>3. CASE ~AllReaped
    <3>1. ~Done'
      BY <2>1, <2>3 DEF Done
    <3>2. CASE aborting' = aborting
      BY <2>1, <2>2, <2>3, <3>2, FanStutter DEF Doomed
    <3>3. CASE ~aborting /\ aborting'
      <4>1. Fan!Doom
        BY <1>1, <2>1, <2>2, <3>1, <3>3 DEF Fan!Doom
      <4> QED BY <4>1 DEF Fan!Next
    <3> QED BY <2>1, <3>2, <3>3
  <2>4. CASE AllReaped
    <3>1. Done' /\ \A k \in Items : Work[k] # "running"
      BY <1>5, <2>1, <2>4 DEF Done, Ending, AllReaped
    <3>2. CASE wake /\ ~aborting /\ aborting'
      <4>1. status' # "returned"
        BY <2>1, <2>4, <3>2 DEF Ending
      <4>2. Fan!In("running") = {}
        BY <3>1, FanActions DEF Fan!In
      <4>3. Fan!Raise
        BY <1>1, <2>1, <2>2, <3>1, <3>2, <4>1, <4>2 DEF Fan!Raise
      <4> QED BY <4>3 DEF Fan!Next
    <3>3. CASE (~wake \/ aborting) /\ aborting' = aborting
      <4>1. ASSUME status' = "returned"
            PROVE  ~failed /\ ~aborting /\ \A k \in Items : Work[k] = "kept"
        <5>1. errors = {} /\ ~held
          BY <2>1, <2>4, <4>1 DEF Ending
        <5>2. ~aborting /\ ~cancelled
          BY <2>1, <5>1 DEF IInv, GroupInv
        <5>3. pc[Producer] # "absent"
          BY <2>1 DEF IInv, PhaseInv
        <5>4. ~failed /\ \A k \in Items : results[k] # <<>>
          BY <2>4, <5>1, <5>2, <5>3, CleanEnd
        <5> QED BY <5>2, <5>4, WorkOf
      <4> QED BY <1>4, <2>1, <2>2, <3>1, <3>3, <4>1
    <3> QED BY <2>1, <3>2, <3>3
  <2> QED BY <2>3, <2>4
<1> QED BY <1>2, <1>3, <1>6, <1>7 DEF CallStep

\* The call starts out as the promise does.
LEMMA InitIsFan ==
  ASSUME Init
  PROVE  Fan!Init
<1>1. /\ call.concurrency \in Int /\ Sentinel \notin Items /\ \A c \in Consumers : c \in Tasks
      /\ \A k \in Items : results[k] = <<>>
      /\ \A c \in Consumers : item[c] = Sentinel
  BY CallTypes DEF Init
<1>2. \A k \in Items : Work[k] = "pending"
  BY <1>1, WorkOf
<1> QED BY <1>1, <1>2, FanActions DEF Init, Fan!Init, Done

\* stream() keeps the promise of BoundedFanOut, for every source, every number
\* of consumers and every queue: fn runs at most once for an item, within the
\* concurrency, for none once the batch is bound to fail, and stream() returns
\* only with a result for every item and nothing left running.
THEOREM StreamIsFanOut == Spec => ImplementsFanOut
<1>1. Init => Fan!Init
  BY InitIsFan
<1>2. IInv /\ [Next]_vars => [Fan!Next]_Fan!vars
  <2> SUFFICES ASSUME IInv, [Next]_vars PROVE Fan!Next \/ UNCHANGED Fan!vars
    OBVIOUS
  <2>1. CASE UNCHANGED vars
    <3>1. UNCHANGED <<call, status, pc, item, results, failed, aborting>>
      BY <2>1 DEF vars, tasks, data, group
    <3> QED BY <3>1, WorkStays, FanStutter DEF Doomed
  <2>2. CASE Next
    BY <2>1, <2>2, CallIsFan, ProducerIsFan, ConsumerIsFan, ReapIsFan DEF Next, Terminated
  <2> QED BY <2>1, <2>2
<1> QED BY <1>1, <1>2, StreamInvariance, PTL DEF Spec, ImplementsFanOut, Fan!Spec

-----------------------------------------------------------------------------
(* What follows from it for a caller, by BoundedFanOut's own theorems.     *)

Promise == INSTANCE BoundedFanOut_proofs WITH
  limit  <- call.concurrency,
  work   <- Work,
  doomed <- failed \/ aborting,
  phase  <- IF ~Done THEN "open" ELSE IF status = "returned" THEN "returned" ELSE "raised"

\* A number of items is the same one in either instance of the promise.
LEMMA OneCardinality == \A S : Fan!Cardinality(S) = Promise!Cardinality(S)
BY DEF Fan!Cardinality, Promise!Cardinality

\* The specification they are proved of is the one implemented here.
LEMMA FanIsPromise == Fan!Spec => Promise!Spec
<1>1. Fan!Init => Promise!Init
  BY DEF Fan!Init, Promise!Init
<1>2. \A s : Fan!In(s) = Promise!In(s)
  BY DEF Fan!In, Promise!In
<1>3. \A i : /\ Fan!Begin(i) => Promise!Begin(i)
             /\ Fan!Keep(i) => Promise!Keep(i)
             /\ Fan!Lose(i) => Promise!Lose(i)
             /\ Fan!Drop(i) => Promise!Drop(i)
             /\ \A j : Fan!Relay(i, j) => Promise!Relay(i, j)
  BY <1>2, OneCardinality DEF Fan!Begin, Promise!Begin, Fan!Keep, Promise!Keep,
     Fan!Lose, Promise!Lose, Fan!Drop, Promise!Drop, Fan!Relay, Promise!Relay
<1>4. (Fan!Doom => Promise!Doom) /\ (Fan!Return => Promise!Return) /\ (Fan!Raise => Promise!Raise)
  BY <1>2 DEF Fan!Doom, Promise!Doom, Fan!Return, Promise!Return, Fan!Raise, Promise!Raise
<1>5. [Fan!Next]_Fan!vars => [Promise!Next]_Promise!vars
  BY <1>3, <1>4 DEF Fan!Next, Promise!Next, Fan!vars, Promise!vars
<1> QED BY <1>1, <1>5, PTL DEF Fan!Spec, Promise!Spec

\* So are the promises.
LEMMA PromiseIsFan == Promise!Promises => Fan!Promises
<1>1. \A s : Fan!In(s) = Promise!In(s)
  BY DEF Fan!In, Promise!In
<1>2. Promise!WithinLimit => Fan!WithinLimit
  BY <1>1, OneCardinality DEF Fan!WithinLimit, Promise!WithinLimit
<1>3. Promise!EndsWhole => Fan!EndsWhole
  BY <1>1 DEF Fan!EndsWhole, Promise!EndsWhole
<1>4. [Promise!OnlyOnce]_Promise!vars => [Fan!OnlyOnce]_Fan!vars
  BY DEF Fan!OnlyOnce, Promise!OnlyOnce, Fan!vars, Promise!vars, Fan!In, Promise!In
<1> QED BY <1>2, <1>3, <1>4, PTL DEF Fan!Promises, Promise!Promises

\* Of every call of stream: no more than `concurrency` calls of fn run at once;
\* no item's is begun twice and no outcome is taken back, whatever fails or is
\* cancelled meanwhile; and when the call ends nothing is left running, with a
\* result for every item of the source if it returned.
THEOREM StreamPromises == Spec => Fan!Promises
BY StreamIsFanOut, FanIsPromise, PromiseIsFan, Promise!PromisesKept, PTL DEF ImplementsFanOut
=============================================================================
