------------------------------ MODULE Stream ------------------------------
(***************************************************************************)
(* One call of stream(producer, fn, concurrency=, queue_size=, ...) of     *)
(* core.py: a producer task that pulls the source and puts into a bounded  *)
(* queue, and consumer tasks it starts one per item until `concurrency`    *)
(* run.  As in Process, an action is what one task runs between two        *)
(* awaits.  The two asyncio.Locks of a consumer are never contended (no    *)
(* await happens under them), so taking them suspends nothing.             *)
(*                                                                         *)
(* Tasks are numbered: 0 is the producer, 1..concurrency the consumers in  *)
(* the order they are started.                                             *)
(***************************************************************************)
EXTENDS Integers, Sequences, FiniteSets, FnOutcome

CONSTANTS
  Calls,        \* the calls to model: their arguments and the source's length
  FnOutcomes    \* what a call of fn may end with

\* Of the producer only what it makes the loop do is kept: whether an item is
\* always "ready" when it is asked for one (DemoStream's subject).
Arguments == [producer : {"any", "ready"}, length : Nat, concurrency : Int, queue_size : Int,
              return_exceptions : BOOLEAN, timeout : {"None", "finite", "invalid"}]

ASSUME CallsAssumption == Calls \subseteq Arguments
ASSUME OutcomesAssumption == FnOutcomes \subseteq Outcomes /\ FnOutcomes # {}

VARIABLES
  call,        \* the arguments; never change
  status,      \* where the calling task is, and how the call ended
  cancelled,   \* someone requested the calling task's cancellation
  pc,          \* task -> where it is
  throw,       \* task -> a CancelledError is due at its next step
  cancelling,  \* task -> what its cancelling() count gained in this call of fn
  expired,     \* task -> cm.expired() of the consumer's current call of fn
  item,        \* task -> the item a consumer works on
  raised,      \* task -> how it ended, "none" for a plain return
  pulled,      \* how many items the source has yielded; they are 1..pulled
  started,     \* how many consumers the producer has started
  closed,      \* how many sentinels the producer has put
  queue,       \* the items and sentinels in the queue
  unfinished,  \* queue._unfinished_tasks: puts not yet task_done()
  results,     \* item -> the values appended for it
  metrics,     \* the StreamMetrics counters
  failed, aborting, errors, requested, wake, propagate   \* as in Process

tasks  == <<pc, throw, cancelling, expired, item, raised>>
source == <<pulled, started, closed>>
data   == <<queue, unfinished, results, metrics>>
group  == <<aborting, errors, requested, wake, propagate>>
vars   == <<call, status, cancelled, tasks, source, data, failed, group>>

Producer  == 0
Consumers == 1..call.concurrency
Tasks     == {Producer} \cup Consumers
Items     == 1..call.length
Sentinel  == 0

Undone   == {"created", "pulling", "putting", "closing", "getting", "calling"}
Failures == {"error", "timeout", "base", "PipelineTimeoutError", "PipelineError"}

\* Defect: an off-by-one in the queue's limit.
FullOffByOne == Len(queue) > call.queue_size

\* queue.full(), and what it has room for.
Full == Len(queue) >= call.queue_size

Room == call.queue_size - Len(queue)

\* _CallerCancelProbe.cancelled().
CallerCancelled == cancelled \/ requested
\* Defect: only the latch is read, as if nobody ever cancelled the caller.
StoppingByLatch == failed

\* The signal every cancellation site takes.
Stopping == failed \/ CallerCancelled

\* TaskGroup._abort
Abort ==
  /\ aborting' = TRUE
  /\ throw' = [t \in Tasks |-> throw[t] \/ pc[t] \in Undone]
  /\ cancelling' = [t \in Tasks |-> cancelling[t] + IF pc[t] = "calling" THEN 1 ELSE 0]

NoAbort == UNCHANGED <<aborting, throw, cancelling>>

-----------------------------------------------------------------------------
Init ==
  /\ call \in Calls
  /\ cancelled \in BOOLEAN
  /\ status = "entry"
  /\ pc = [t \in Tasks |-> "absent"]
  /\ throw = [t \in Tasks |-> FALSE]
  /\ cancelling = [t \in Tasks |-> 0]
  /\ expired = [t \in Tasks |-> FALSE]
  /\ item = [t \in Tasks |-> Sentinel]
  /\ raised = [t \in Tasks |-> "none"]
  /\ pulled = 0 /\ started = 0 /\ closed = 0
  /\ queue = <<>>
  /\ unfinished = 0
  /\ results = [k \in Items |-> <<>>]
  /\ metrics = [produced |-> 0, consumed |-> 0, producer_pauses |-> 0, max_queue_depth |-> 0]
  /\ failed = FALSE
  /\ aborting = FALSE
  /\ errors = {}
  /\ requested = FALSE
  /\ wake = FALSE
  /\ propagate = FALSE

Refused == call.concurrency <= 0 \/ call.queue_size <= 0 \/ call.timeout = "invalid"

\* The guards raise before anything is scheduled.
Refuse ==
  /\ status = "entry"
  /\ Refused
  /\ status' = "refused"
  /\ UNCHANGED <<call, cancelled, tasks, source, data, failed, group>>

\* The producer's task is created and __aexit__ starts to wait.
Spawn ==
  /\ status = "entry"
  /\ ~Refused
  /\ status' = "waiting"
  /\ pc' = [pc EXCEPT ![Producer] = "created"]
  /\ wake' = cancelled
  /\ UNCHANGED <<call, cancelled, throw, cancelling, expired, item, raised, source, data, failed,
                 aborting, errors, requested, propagate>>

-----------------------------------------------------------------------------
(* The producer.  Whatever leaves its try block goes through one handler,  *)
(* which latches; the sentinels are put outside of it.                     *)

ProducerEnds(verdict) ==
  /\ pc' = [pc EXCEPT ![Producer] = "ended"]
  /\ raised' = [raised EXCEPT ![Producer] = verdict]

\* Defect (before #169): the source's own CancelledError ends the producer.
ProducerRaisesUnconverted(exc) ==
  /\ ProducerEnds(exc)
  /\ failed' = TRUE

\* except BaseException: a stray CancelledError of the source is converted.
ProducerRaises(exc) ==
  /\ ProducerEnds(StrayCancellationAsError(exc, Stopping))
  /\ failed' = TRUE

DeliveredToProducer == throw' = [throw EXCEPT ![Producer] = FALSE]

\* Defect: the depth is read before the put.
EnqueueDepthBefore(k, pauses) ==
  LET depth == Len(queue) IN
  /\ queue' = Append(queue, k)
  /\ unfinished' = unfinished + 1
  /\ metrics' = [metrics EXCEPT
       !.produced = @ + 1,
       !.producer_pauses = @ + pauses,
       !.max_queue_depth = IF depth > @ THEN depth ELSE @]

\* queue.put of an item, once there is room, and the metrics after it.
Enqueue(k, pauses) ==
  LET depth == Len(queue) + 1 IN
  /\ queue' = Append(queue, k)
  /\ unfinished' = unfinished + 1
  /\ metrics' = [metrics EXCEPT
       !.produced = @ + 1,
       !.producer_pauses = @ + pauses,
       !.max_queue_depth = IF depth > @ THEN depth ELSE @]

\* The task's first step asks the source for an item.
ProducerStart ==
  /\ pc[Producer] = "created"
  /\ ~throw[Producer]
  /\ pc' = [pc EXCEPT ![Producer] = "pulling"]
  /\ UNCHANGED <<call, status, cancelled, throw, cancelling, expired, item, raised, source, data,
                 failed, group>>

\* The source yields: start a consumer if fewer than `concurrency` run, then
\* put the item, or wait for room with the item in hand.  A source that
\* absorbed a cancellation does not get that far.  create_task refuses while
\* the group is shutting down.
SourceYields ==
  /\ pc[Producer] = "pulling"
  /\ pulled < call.length
  /\ pulled' = pulled + 1
  /\ DeliveredToProducer
  /\ IF Stopping
     THEN ProducerRaises("cancelled") /\ UNCHANGED <<started, queue, unfinished, metrics>>
     ELSE LET spawns == started < call.concurrency
              where == IF Full THEN "putting" ELSE "pulling"
          IN IF spawns /\ aborting
             THEN ProducerRaises("error") /\ UNCHANGED <<started, queue, unfinished, metrics>>
             ELSE /\ started' = IF spawns THEN started + 1 ELSE started
                  /\ pc' = [t \in Tasks |-> IF t = Producer THEN where
                                            ELSE IF spawns /\ t = started' THEN "created"
                                            ELSE pc[t]]
                  /\ IF Full
                     THEN /\ metrics' = [metrics EXCEPT !.producer_pauses = @ + 1]
                          /\ UNCHANGED <<queue, unfinished>>
                     ELSE Enqueue(pulled', 0)
                  /\ UNCHANGED <<raised, failed>>
  /\ UNCHANGED <<call, status, cancelled, cancelling, expired, item, closed, results, group>>

\* The blocked put finds room.
PutUnblocks ==
  /\ pc[Producer] = "putting"
  /\ ~throw[Producer]
  /\ ~Full
  /\ Enqueue(pulled, 0)
  /\ pc' = [pc EXCEPT ![Producer] = "pulling"]
  /\ UNCHANGED <<call, status, cancelled, throw, cancelling, expired, item, raised, source, results,
                 failed, group>>

\* Cancelled while its put waits: the item in hand is dropped.
PutCancelled ==
  /\ pc[Producer] = "putting"
  /\ throw[Producer]
  /\ DeliveredToProducer
  /\ ProducerRaises("cancelled")
  /\ UNCHANGED <<call, status, cancelled, cancelling, expired, item, source, data, group>>

\* The source raises, or lets the CancelledError delivered to it out.
SourceRaises(exc) ==
  /\ pc[Producer] = "pulling"
  /\ DeliveredToProducer
  /\ ProducerRaises(exc)
  /\ UNCHANGED <<call, status, cancelled, cancelling, expired, item, source, data, group>>

\* The source catches the CancelledError delivered to it and goes on.
SourceAbsorbsCancel ==
  /\ pc[Producer] = "pulling"
  /\ throw[Producer]
  /\ DeliveredToProducer
  /\ UNCHANGED <<call, status, cancelled, pc, cancelling, expired, item, raised, source, data,
                 failed, group>>

\* Defect (before #180): a sentinel for each of `concurrency` consumers.
PutSentinelsForAll ==
  LET left == call.concurrency - closed
      k    == IF left <= Room THEN left ELSE Room
  IN /\ queue' = queue \o [n \in 1..k |-> Sentinel]
     /\ unfinished' = unfinished + k
     /\ closed' = closed + k
     /\ pc' = [pc EXCEPT ![Producer] = IF k = left THEN "ended" ELSE "closing"]

\* Put sentinels while there is room: one for each consumer started.
PutSentinels ==
  LET left == started - closed
      k    == IF left <= Room THEN left ELSE Room
  IN /\ queue' = queue \o [n \in 1..k |-> Sentinel]
     /\ unfinished' = unfinished + k
     /\ closed' = closed + k
     /\ pc' = [pc EXCEPT ![Producer] = IF k = left THEN "ended" ELSE "closing"]

\* The source is exhausted.
SourceEnds ==
  /\ pc[Producer] = "pulling"
  /\ pulled = call.length
  /\ DeliveredToProducer
  /\ IF Stopping
     THEN ProducerRaises("cancelled") /\ UNCHANGED <<queue, unfinished, closed>>
     ELSE PutSentinels /\ UNCHANGED <<raised, failed>>
  /\ UNCHANGED <<call, status, cancelled, cancelling, expired, item, pulled, started, results,
                 metrics, group>>

\* A sentinel's put finds room.
ClosingUnblocks ==
  /\ pc[Producer] = "closing"
  /\ ~throw[Producer]
  /\ ~Full
  /\ PutSentinels
  /\ UNCHANGED <<call, status, cancelled, throw, cancelling, expired, item, raised, pulled, started,
                 results, metrics, failed, group>>

\* Cancelled before its first step, or while a sentinel's put waits.
ProducerCancelled ==
  /\ pc[Producer] \in {"created", "closing"}
  /\ throw[Producer]
  /\ DeliveredToProducer
  /\ ProducerEnds("cancelled")
  /\ UNCHANGED <<call, status, cancelled, cancelling, expired, item, source, data, failed, group>>

-----------------------------------------------------------------------------
(* A consumer.                                                             *)

Ends(c, verdict) ==
  /\ pc' = [pc EXCEPT ![c] = "ended"]
  /\ raised' = [raised EXCEPT ![c] = verdict]

\* Defect: an ended consumer's item is not marked done.
TakeNotDone(c, open) ==
  /\ queue # <<>>
  /\ queue' = Tail(queue)
  /\ UNCHANGED raised
  /\ unfinished' = open
  /\ IF Head(queue) = Sentinel \/ failed
     THEN /\ pc' = [pc EXCEPT ![c] = "ended"]
          /\ item' = [item EXCEPT ![c] = Sentinel]
     ELSE /\ pc' = [pc EXCEPT ![c] = "calling"]
          /\ item' = [item EXCEPT ![c] = Head(queue)]

\* Defect (before #171): no latch, the next item's fn is called whatever happened.
TakeUnlatched(c, open) ==
  /\ queue # <<>>
  /\ queue' = Tail(queue)
  /\ UNCHANGED raised
  /\ item' = [item EXCEPT ![c] = Head(queue)]
  /\ IF Head(queue) = Sentinel
     THEN unfinished' = open - 1 /\ pc' = [pc EXCEPT ![c] = "ended"]
     ELSE unfinished' = open /\ pc' = [pc EXCEPT ![c] = "calling"]

\* The queue's head goes to the consumer, with `open` puts not yet done: a
\* sentinel, or any item once the batch has failed, ends it.
Take(c, open) ==
  /\ queue # <<>>
  /\ queue' = Tail(queue)
  /\ UNCHANGED raised
  /\ IF Head(queue) = Sentinel \/ failed
     THEN /\ unfinished' = open - 1
          /\ pc' = [pc EXCEPT ![c] = "ended"]
          /\ item' = [item EXCEPT ![c] = Sentinel]
     ELSE /\ unfinished' = open
          /\ pc' = [pc EXCEPT ![c] = "calling"]
          /\ item' = [item EXCEPT ![c] = Head(queue)]

\* Defect (before #194): fn may absorb the cancellation, and the loop goes on.
LoopTopUnchecked(c, open) ==
  \/ Take(c, open)
  \/ /\ queue = <<>>
     /\ pc' = [pc EXCEPT ![c] = "getting"]
     /\ unfinished' = open
     /\ UNCHANGED <<queue, item, raised>>

\* The top of the loop: stop if fn absorbed a cancellation, else take the next
\* item at once or wait for one.
LoopTop(c, open) ==
  IF Stopping
  THEN /\ Ends(c, "cancelled")
       /\ unfinished' = open
       /\ UNCHANGED <<queue, item>>
  ELSE \/ Take(c, open)
       \/ /\ queue = <<>>
          /\ pc' = [pc EXCEPT ![c] = "getting"]
          /\ unfinished' = open
          /\ UNCHANGED <<queue, item, raised>>

ConsumerStart(c) ==
  /\ pc[c] = "created"
  /\ ~throw[c]
  /\ LoopTop(c, unfinished)
  /\ UNCHANGED <<call, status, cancelled, throw, cancelling, expired, source, results, metrics,
                 failed, group>>

\* A consumer that waits gets an item.  Which of several is open: another one
\* may have come by since the put woke this one.
GetUnblocks(c) ==
  /\ pc[c] = "getting"
  /\ ~throw[c]
  /\ Take(c, unfinished)
  /\ UNCHANGED <<call, status, cancelled, throw, cancelling, expired, source, results, metrics,
                 failed, group>>

\* Cancelled before its first step, or while it waits for an item.
ConsumerCancelled(c) ==
  /\ pc[c] \in {"created", "getting"}
  /\ throw[c]
  /\ throw' = [throw EXCEPT ![c] = FALSE]
  /\ Ends(c, "cancelled")
  /\ UNCHANGED <<call, status, cancelled, cancelling, expired, item, source, data, failed, group>>

\* The deadline of the call of fn fires and cancels the task.
Deadline(c) ==
  /\ pc[c] = "calling"
  /\ call.timeout = "finite"
  /\ ~expired[c]
  /\ expired' = [expired EXCEPT ![c] = TRUE]
  /\ throw' = [throw EXCEPT ![c] = TRUE]
  /\ cancelling' = [cancelling EXCEPT ![c] = @ + 1]
  /\ UNCHANGED <<call, status, cancelled, pc, item, raised, source, data, failed, group>>

\* fn catches the CancelledError delivered to it and goes on.
FnAbsorbsCancel(c) ==
  /\ pc[c] = "calling"
  /\ throw[c]
  /\ throw' = [throw EXCEPT ![c] = FALSE]
  /\ UNCHANGED <<call, status, cancelled, pc, cancelling, expired, item, raised, source, data,
                 failed, group>>

\* fn leaves its task's cancel count raised with nobody cancelling it (#196);
\* once per call.
FnLeaksCancelCount(c) ==
  /\ pc[c] = "calling"
  /\ ~throw[c]
  /\ cancelling[c] = 0
  /\ cancelling' = [cancelling EXCEPT ![c] = 1]
  /\ UNCHANGED <<call, status, cancelled, pc, throw, expired, item, raised, source, data, failed, group>>

\* `await fn(item)` ends.  A stored verdict is appended and the loop goes on
\* in the same step; a raised one latches and marks the item done first.
Settle(c, out) ==
  LET verdict == Verdict(out, expired[c], cancelling[c], Stopping)
      stored  == verdict = "value" \/ (call.return_exceptions /\ IsException(verdict))
  IN
  /\ pc[c] = "calling"
  /\ throw' = [throw EXCEPT ![c] = FALSE]
  /\ cancelling' = [cancelling EXCEPT ![c] = 0]
  /\ expired' = [expired EXCEPT ![c] = FALSE]
  /\ IF stored
     THEN /\ results' = [results EXCEPT ![item[c]] = Append(@, verdict)]
          /\ metrics' = [metrics EXCEPT !.consumed = @ + 1]
          /\ LoopTop(c, unfinished - 1)
          /\ UNCHANGED failed
     ELSE /\ Ends(c, verdict)
          /\ unfinished' = unfinished - 1
          /\ failed' = TRUE
          /\ UNCHANGED <<queue, item, results, metrics>>
  /\ UNCHANGED <<call, status, cancelled, source, group>>

-----------------------------------------------------------------------------
(* The TaskGroup and the calling task, as in Process.                      *)

Reap(t) ==
  LET isError == raised[t] \notin {"none", "cancelled"} IN
  /\ pc[t] = "ended"
  /\ pc' = [pc EXCEPT ![t] = "reaped"]
  /\ errors' = IF isError THEN errors \cup {t} ELSE errors
  /\ IF isError /\ ~aborting /\ ~requested
     THEN /\ Abort
          /\ requested' = TRUE
          /\ wake' = TRUE
     ELSE NoAbort /\ UNCHANGED <<requested, wake>>
  /\ UNCHANGED <<call, status, cancelled, expired, item, raised, source, data, failed, propagate>>

CancelCaller ==
  /\ status = "waiting"
  /\ ~cancelled
  /\ cancelled' = TRUE
  /\ wake' = TRUE
  /\ UNCHANGED <<call, status, tasks, source, data, failed, aborting, errors, requested, propagate>>

AllReaped == \A t \in Tasks : pc[t] \in {"absent", "reaped"}

Ending(held) == IF errors # {} THEN "errors" ELSE IF held THEN "cancelled" ELSE "returned"

CallerResume ==
  LET held == propagate \/ (wake /\ ~aborting) IN
  /\ status = "waiting"
  /\ wake \/ AllReaped
  /\ IF wake /\ ~aborting THEN Abort ELSE NoAbort
  /\ wake' = FALSE
  /\ propagate' = held
  /\ status' = IF AllReaped THEN Ending(held) ELSE "waiting"
  /\ UNCHANGED <<call, cancelled, pc, expired, item, raised, source, data, failed, errors, requested>>

Done == status \notin {"entry", "waiting"}

Terminated == Done /\ UNCHANGED vars

CallStep == Refuse \/ Spawn \/ CallerResume

ProducerStep == ProducerStart \/ PutUnblocks \/ PutCancelled \/ ClosingUnblocks \/ ProducerCancelled

SourceStep ==
  \/ SourceYields
  \/ SourceEnds
  \/ \E exc \in FnOutcomes \ {"value"} : SourceRaises(exc)

ConsumerStep(c) == ConsumerStart(c) \/ GetUnblocks(c) \/ ConsumerCancelled(c)

FnStep(c) == Deadline(c) \/ FnAbsorbsCancel(c) \/ FnLeaksCancelCount(c)

FnEnds(c) == \E out \in FnOutcomes : Settle(c, out)

Next ==
  \/ CallStep
  \/ CancelCaller
  \/ ProducerStep
  \/ SourceStep
  \/ SourceAbsorbsCancel
  \/ \E c \in Consumers : ConsumerStep(c) \/ FnStep(c) \/ FnEnds(c)
  \/ \E t \in Tasks : Reap(t)
  \/ Terminated

\* The loop runs every ready task and callback; each call of fn and each
\* request to the source ends.
Fairness ==
  /\ WF_vars(CallStep)
  /\ WF_vars(ProducerStep)
  /\ WF_vars(SourceStep)
  /\ \A k \in Calls : \A t \in 0..k.concurrency :
       /\ WF_vars(call = k /\ Reap(t))
       /\ t # Producer => WF_vars(call = k /\ ConsumerStep(t)) /\ WF_vars(call = k /\ FnEnds(t))

Spec == Init /\ [][Next]_vars /\ Fairness

-----------------------------------------------------------------------------
(* Properties.                                                             *)

Positions == {"absent", "ended", "reaped"} \cup Undone

\* Every variable stays within its type.
TypeOK ==
  /\ call \in Calls
  /\ status \in {"entry", "waiting", "refused", "returned", "errors", "cancelled"}
  /\ pc \in [Tasks -> Positions]
  /\ throw \in [Tasks -> BOOLEAN]
  /\ expired \in [Tasks -> BOOLEAN]
  /\ cancelling \in [Tasks -> Nat]
  /\ item \in [Tasks -> Items \cup {Sentinel}]
  /\ raised \in [Tasks -> Verdicts \cup {"none"}]
  /\ pulled \in 0..call.length /\ started \in {0} \cup Consumers /\ closed \in 0..started
  /\ queue \in Seq(Items \cup {Sentinel})
  /\ unfinished \in Nat
  /\ results \in [Items -> Seq(Verdicts)]
  /\ metrics \in [produced : 0..call.length, consumed : 0..call.length,
                  producer_pauses : 0..call.length, max_queue_depth : {0} \cup 1..call.queue_size]
  /\ errors \subseteq Tasks
  /\ cancelled \in BOOLEAN /\ failed \in BOOLEAN
  /\ aborting \in BOOLEAN /\ requested \in BOOLEAN
  /\ wake \in BOOLEAN /\ propagate \in BOOLEAN

Calling == {c \in Consumers : pc[c] = "calling"}

\* The pipeline cancels its tasks only while the signal that fn's and the
\* source's CancelledErrors are judged by says so (#163, #169, #196, #215).
AbortIsVisible == aborting => Stopping

\* The TaskGroup cancels its tasks once.  So no task is ever parked on the
\* queue during the teardown without that cancellation still due: nothing
\* would serve it, and stream would hang however often it is cancelled (#194).
NoneLeftParked ==
  aborting => \A t \in Tasks :
    pc[t] \in {"created", "getting", "putting", "closing"} => throw[t]

\* Every get of the queue is matched by one task_done(), on each of the four
\* ways a consumer can leave an item behind.
TaskDoneMatchesGet == unfinished = Len(queue) + Cardinality(Calling)

\* The pulled items that no consumer has taken: the queued ones, and the one
\* the producer holds or dropped.
Untaken ==
  Cardinality({n \in DOMAIN queue : queue[n] # Sentinel}) + (pulled - metrics.produced)

\* Backpressure (#115): at most queue_size items wait, whatever the source's
\* length, and one more in the hand of the blocked producer.
Backpressure == ~Refused => Len(queue) <= call.queue_size /\ Untaken <= call.queue_size + 1

\* The counters an operator reads to see which end is slow (#3, #176): a pause
\* is only counted against a queue that was full, items are not finished
\* before they are put, and a clean return has counted every item.
MetricsTell ==
  /\ metrics.producer_pauses > 0 => metrics.max_queue_depth = call.queue_size
  /\ metrics.consumed <= metrics.produced
  /\ status = "returned" =>
       metrics.produced = call.length /\ metrics.consumed = call.length

\* stream returns only if nobody cancelled the caller, neither side failed,
\* every item the source had was put through fn exactly once -- none dropped
\* at shutdown, none left behind the sentinels -- and, without
\* return_exceptions, with what fn returned.
CleanReturn ==
  status = "returned" =>
    /\ ~cancelled /\ ~failed
    /\ queue = <<>> /\ closed = started
    /\ \A k \in Items :
         /\ Len(results[k]) = 1
         /\ call.return_exceptions \/ results[k] = <<"value">>

\* With return_exceptions a consumer fails the batch only by a BaseException
\* that is no Exception: never by a bad item, a deadline or a stray
\* CancelledError.  The producer's failure is not one of fn's, and does.
CollectKeepsBatch ==
  (call.return_exceptions /\ failed) =>
    \/ cancelled
    \/ raised[Producer] \in Failures
    \/ \E c \in Consumers : raised[c] = "base"

\* Every call ends: whatever absorbs a cancellation, whichever side fails
\* first, and however small the queue the sentinels have to pass through
\* (#163, #169, #194).
Termination == <>Done

-----------------------------------------------------------------------------
(* What the documentation says and the code does not do.                   *)

\* README.md: "the producer never runs more than `queue_size` items ahead of
\* the consumers".  The item a blocked put holds is one more.
ProducerAheadDoc == ~Refused /\ pc[Producer] # "ended" => Untaken <= call.queue_size

\* StreamMetrics: "produced: number of items pulled from the producer".  It
\* counts completed puts: when a failing consumer's batch cancels a put that
\* waits for room, the item it held was pulled and is never counted.
ProducedDoc ==
  [][(~cancelled /\ pc[Producer] = "putting" /\ Full /\ pc'[Producer] = "ended") =>
       metrics'.produced = pulled']_vars

-----------------------------------------------------------------------------
(* stream implements the fan-out it promises, item by item of the source.  *)

Work == [k \in Items |->
  IF results[k] # <<>> THEN "kept"
  ELSE IF \E c \in Calling : item[c] = k THEN "running"
  ELSE IF \E c \in Consumers : item[c] = k THEN "lost"
  ELSE "pending"]

Fan == INSTANCE BoundedFanOut WITH
  limit  <- call.concurrency,
  work   <- Work,
  doomed <- failed \/ aborting,
  phase  <- IF ~Done THEN "open" ELSE IF status = "returned" THEN "returned" ELSE "raised"

\* Every step of stream -- its producer, its queue, its consumers and their
\* teardown -- is a step of the promise, or invisible to it: fn runs at most
\* once for an item, within the limit, and for none once the batch is bound
\* to fail (#146, #171, #173).
ImplementsFanOut == Fan!Spec
=============================================================================
