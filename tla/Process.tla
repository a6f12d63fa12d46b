----------------------------- MODULE Process -----------------------------
(***************************************************************************)
(* One call of process(items, fn, concurrency=, return_exceptions=,        *)
(* timeout=) of core.py, from its argument checks to its return.           *)
(*                                                                         *)
(* The processes are the calling task and one task per item, all on one    *)
(* event loop: an action is what one task runs between two awaits, or one  *)
(* callback of the loop.  The loop's order is left open, except that the   *)
(* item tasks take their first step in creation order, as call_soon gives  *)
(* it; so items wait for the semaphore in index order.                     *)
(***************************************************************************)
EXTENDS Integers, FiniteSets, FnOutcome

CONSTANT Calls      \* the argument lists the caller may pass

Arguments == [n : Nat, concurrency : Int, return_exceptions : BOOLEAN,
              timeout : {"None", "finite", "invalid"}, bare_string : BOOLEAN]

ASSUME CallsAssumption == Calls \subseteq Arguments

VARIABLES
  call,        \* the arguments; never change
  status,      \* where the calling task is, and how the call ended
  cancelled,   \* someone requested the calling task's cancellation
  pc,          \* item -> where its task is
  throw,       \* item -> a CancelledError is due at the task's next step
  cancelling,  \* item -> the task's cancelling() count
  expired,     \* item -> cm.expired()
  value,       \* sem._value
  results,     \* item -> its slot of the list, "None" while unset
  raised,      \* item -> how its task ended, "none" for a plain return
  failed,      \* the fail-fast latch
  aborting,    \* the TaskGroup has cancelled its children
  errors,      \* the items whose task's exception the TaskGroup collected
  requested,   \* the TaskGroup cancelled its parent to wake __aexit__
  wake,        \* a CancelledError is due at the parent's next step
  propagate    \* __aexit__ holds a CancelledError of the parent to re-raise

items == <<pc, throw, cancelling, expired, value, results, raised, failed>>
group == <<aborting, errors, requested, wake, propagate>>
vars  == <<call, status, cancelled, items, group>>

Items == 1..call.n

Undone  == {"created", "queued", "granted", "calling"}   \* not Task.done()
Settled == {"ended", "reaped"}
Positions == {"absent"} \cup Undone \cup Settled

-----------------------------------------------------------------------------
(* asyncio.Semaphore, as functions of a state s with its counter and the    *)
(* tasks' positions.  A waiter whose future was cancelled stays queued      *)
(* until its task runs, and is passed over.                                 *)

Sem == [value |-> value, pc |-> pc]

LiveWaiters(s) == {i \in Items : s.pc[i] = "queued" /\ ~throw[i]}

Locked(s) ==
  \/ s.value = 0
  \/ \E i \in Items : s.pc[i] = "granted" \/ i \in LiveWaiters(s)

FirstWaiter(s) == CHOOSE i \in LiveWaiters(s) : \A j \in LiveWaiters(s) : i <= j

\* The slot goes straight to the first waiter: the counter stays reserved.
WakeNext(s) ==
  IF LiveWaiters(s) = {} THEN s
  ELSE [value |-> s.value - 1, pc |-> [s.pc EXCEPT ![FirstWaiter(s)] = "granted"]]

ReleaseSlot(s) == WakeNext([s EXCEPT !.value = @ + 1])

Leave(s, i, where) == [s EXCEPT !.pc[i] = where]

Become(s) == value' = s.value /\ pc' = s.pc

-----------------------------------------------------------------------------
\* _CallerCancelProbe.cancelled(): the calling task's count rose since entry,
\* or a request was pending on entry.  A TaskGroup's own request counts.
CallerCancelled == cancelled \/ requested

\* Defect: only the latch is read, as if nobody ever cancelled the caller.
StoppingByLatch == failed

Stopping == failed \/ CallerCancelled

\* TaskGroup._abort: every task that is not done is cancelled.
Abort ==
  /\ aborting' = TRUE
  /\ throw' = [i \in Items |-> throw[i] \/ pc[i] \in Undone]
  /\ cancelling' = [i \in Items |-> cancelling[i] + IF pc[i] \in Undone THEN 1 ELSE 0]

NoAbort == UNCHANGED <<aborting, throw, cancelling>>

-----------------------------------------------------------------------------
\* The call is made; a cancellation requested before it may still be pending.
Init ==
  /\ call \in Calls
  /\ cancelled \in BOOLEAN
  /\ status = "entry"
  /\ pc = [i \in Items |-> "absent"]
  /\ throw = [i \in Items |-> FALSE]
  /\ cancelling = [i \in Items |-> 0]
  /\ expired = [i \in Items |-> FALSE]
  /\ value = 0
  /\ results = [i \in Items |-> "None"]
  /\ raised = [i \in Items |-> "none"]
  /\ failed = FALSE
  /\ aborting = FALSE
  /\ errors = {}
  /\ requested = FALSE
  /\ wake = FALSE
  /\ propagate = FALSE

\* Defect: concurrency is not checked.
RefusedUncapped == call.bare_string \/ call.timeout = "invalid"

Refused == call.bare_string \/ call.concurrency <= 0 \/ call.timeout = "invalid"

\* The guards raise before anything is scheduled.
Refuse ==
  /\ status = "entry"
  /\ Refused
  /\ status' = "refused"
  /\ UNCHANGED <<call, cancelled, items, group>>

\* No items: no await, so not even a pending cancellation is delivered.
ReturnEmpty ==
  /\ status = "entry"
  /\ ~Refused
  /\ call.n = 0
  /\ status' = "returned"
  /\ UNCHANGED <<call, cancelled, items, group>>

\* Every item's task is created and the group's __aexit__ starts to wait, in
\* one step: nothing in between suspends.  A pending cancellation cancels the
\* future __aexit__ waits for.
Spawn ==
  /\ status = "entry"
  /\ ~Refused
  /\ call.n > 0
  /\ status' = "waiting"
  /\ pc' = [i \in Items |-> "created"]
  /\ value' = call.concurrency
  /\ wake' = cancelled
  /\ UNCHANGED <<call, cancelled, throw, cancelling, expired, results, raised, failed,
                 aborting, errors, requested, propagate>>

-----------------------------------------------------------------------------
(* An item's task.                                                         *)

\* Defect: no latch (before #146), fn is called whatever happened.
EnterSlotUnlatched(s, i) == Become(Leave(s, i, "calling"))

\* Defect: the early return on the latch forgets the slot.
EnterSlotLeaking(s, i) ==
  Become(Leave(s, i, IF failed THEN "ended" ELSE "calling"))

\* It holds a slot in s: call fn, unless the batch has already failed.
EnterSlot(s, i) ==
  IF failed THEN Become(ReleaseSlot(Leave(s, i, "ended")))
            ELSE Become(Leave(s, i, "calling"))

\* The task's first step, when nothing cancelled it before: take a free slot
\* without suspending, or queue for one.
Start(i) ==
  /\ pc[i] = "created"
  /\ ~throw[i]
  /\ \A j \in Items : j < i => pc[j] # "created"
  /\ IF Locked(Sem) THEN Become(Leave(Sem, i, "queued"))
                    ELSE EnterSlot([Sem EXCEPT !.value = @ - 1], i)
  /\ UNCHANGED <<call, status, cancelled, throw, cancelling, expired, results, raised, failed, group>>

\* Cancelled before it ran, or while its future in the semaphore's queue was
\* still pending: no slot changes hands, and the latch is out of reach.
CancelUnslotted(i) ==
  /\ pc[i] \in {"created", "queued"}
  /\ throw[i]
  /\ pc' = [pc EXCEPT ![i] = "ended"]
  /\ raised' = [raised EXCEPT ![i] = "cancelled"]
  /\ throw' = [throw EXCEPT ![i] = FALSE]
  /\ UNCHANGED <<call, status, cancelled, cancelling, expired, value, results, failed, group>>

\* Woken with a slot.  acquire() passes a further free slot on before fn runs.
Resume(i) ==
  /\ pc[i] = "granted"
  /\ ~throw[i]
  /\ EnterSlot(IF value > 0 THEN WakeNext(Sem) ELSE Sem, i)
  /\ UNCHANGED <<call, status, cancelled, throw, cancelling, expired, results, raised, failed, group>>

\* Woken with a slot but cancelled since: acquire() gives the slot back.
CancelGranted(i) ==
  /\ pc[i] = "granted"
  /\ throw[i]
  /\ Become(ReleaseSlot(Leave(Sem, i, "ended")))
  /\ raised' = [raised EXCEPT ![i] = "cancelled"]
  /\ throw' = [throw EXCEPT ![i] = FALSE]
  /\ UNCHANGED <<call, status, cancelled, cancelling, expired, results, failed, group>>

\* The item's deadline fires and cancels its task.
Deadline(i) ==
  /\ pc[i] = "calling"
  /\ call.timeout = "finite"
  /\ ~expired[i]
  /\ expired' = [expired EXCEPT ![i] = TRUE]
  /\ throw' = [throw EXCEPT ![i] = TRUE]
  /\ cancelling' = [cancelling EXCEPT ![i] = @ + 1]
  /\ UNCHANGED <<call, status, cancelled, pc, value, results, raised, failed, group>>

\* fn handles the failure of a TaskGroup of its own: on 3.11 and 3.12 that
\* leaves its task's count raised with nobody cancelling it (#196).  Once is
\* enough to tell the count from a cancellation.
FnLeaksCancelCount(i) ==
  /\ pc[i] = "calling"
  /\ ~throw[i]
  /\ cancelling[i] = 0
  /\ cancelling' = [cancelling EXCEPT ![i] = 1]
  /\ UNCHANGED <<call, status, cancelled, pc, throw, expired, value, results, raised, failed, group>>

\* fn catches the CancelledError delivered to it and goes on.
FnAbsorbsCancel(i) ==
  /\ pc[i] = "calling"
  /\ throw[i]
  /\ throw' = [throw EXCEPT ![i] = FALSE]
  /\ UNCHANGED <<call, status, cancelled, pc, cancelling, expired, value, results, raised, failed, group>>

\* `await fn(item)` ends: the verdict is stored or raised, the latch is set
\* before the slot is released, and the task ends, all in one step.
Settle(i, out) ==
  LET verdict == Verdict(out, expired[i], cancelling[i], Stopping)
      stored  == verdict = "value" \/ (call.return_exceptions /\ IsException(verdict))
  IN
  /\ pc[i] = "calling"
  /\ throw' = [throw EXCEPT ![i] = FALSE]
  /\ IF stored
     THEN /\ results' = [results EXCEPT ![i] = verdict]
          /\ UNCHANGED <<raised, failed>>
     ELSE /\ raised' = [raised EXCEPT ![i] = verdict]
          /\ failed' = TRUE
          /\ UNCHANGED results
  /\ Become(ReleaseSlot(Leave(Sem, i, "ended")))
  /\ UNCHANGED <<call, status, cancelled, cancelling, expired, group>>

-----------------------------------------------------------------------------
(* The TaskGroup and the calling task.                                     *)

\* TaskGroup._on_task_done, a loop callback after the task ended: a task that
\* ended cancelled is ignored, the first error cancels the other tasks and
\* wakes the parent.
Reap(i) ==
  LET isError == raised[i] \notin {"none", "cancelled"} IN
  /\ pc[i] = "ended"
  /\ pc' = [pc EXCEPT ![i] = "reaped"]
  /\ errors' = IF isError THEN errors \cup {i} ELSE errors
  /\ IF isError /\ ~aborting /\ ~requested
     THEN /\ Abort
          /\ requested' = TRUE
          /\ wake' = TRUE
     ELSE NoAbort /\ UNCHANGED <<requested, wake>>
  /\ UNCHANGED <<call, status, cancelled, expired, value, results, raised, failed, propagate>>

\* Somebody cancels the calling task, once, while it waits.
CancelCaller ==
  /\ status = "waiting"
  /\ ~cancelled
  /\ cancelled' = TRUE
  /\ wake' = TRUE
  /\ UNCHANGED <<call, status, items, aborting, errors, requested, propagate>>

AllReaped == \A i \in Items : pc[i] = "reaped"

\* How __aexit__ and then process end, once no task is left.
Ending(held) == IF errors # {} THEN "errors" ELSE IF held THEN "cancelled" ELSE "returned"

\* The calling task runs: it is woken by a CancelledError, kept for later
\* unless the group is already aborting, or because no task is left.
CallerResume ==
  LET held == propagate \/ (wake /\ ~aborting) IN
  /\ status = "waiting"
  /\ wake \/ AllReaped
  /\ IF wake /\ ~aborting THEN Abort ELSE NoAbort
  /\ wake' = FALSE
  /\ propagate' = held
  /\ status' = IF AllReaped THEN Ending(held) ELSE "waiting"
  /\ UNCHANGED <<call, cancelled, pc, expired, value, results, raised, failed, errors, requested>>

Done == status \notin {"entry", "waiting"}

Terminated == Done /\ UNCHANGED vars

CallStep == Refuse \/ ReturnEmpty \/ Spawn \/ CallerResume

TaskStep(i) ==
  \/ Start(i)
  \/ CancelUnslotted(i)
  \/ Resume(i)
  \/ CancelGranted(i)
  \/ Reap(i)

FnStep(i) ==
  \/ Deadline(i)
  \/ FnLeaksCancelCount(i)
  \/ FnAbsorbsCancel(i)

FnEnds(i) == \E out \in Outcomes : Settle(i, out)

Next ==
  \/ CallStep
  \/ CancelCaller
  \/ \E i \in Items : TaskStep(i) \/ FnStep(i) \/ FnEnds(i)
  \/ Terminated

\* The loop runs every ready task and callback; each call of fn ends.  Nobody
\* has to cancel the caller, and no deadline has to fire.
Fairness ==
  /\ WF_vars(CallStep)
  /\ \A c \in Calls : \A i \in 1..c.n :
       WF_vars(call = c /\ TaskStep(i)) /\ WF_vars(call = c /\ FnEnds(i))

Spec == Init /\ [][Next]_vars /\ Fairness

-----------------------------------------------------------------------------
(* Properties.                                                             *)

Failures == {"error", "timeout", "base", "PipelineTimeoutError", "PipelineError"}

\* Every variable stays within its type; a result is never a CancelledError or
\* another BaseException that is no Exception (#36).
TypeOK ==
  /\ call \in Calls
  /\ status \in {"entry", "waiting", "refused", "returned", "errors", "cancelled"}
  /\ pc \in [Items -> Positions]
  /\ throw \in [Items -> BOOLEAN]
  /\ expired \in [Items -> BOOLEAN]
  /\ cancelling \in [Items -> Nat]
  /\ value \in Nat
  /\ results \in [Items -> (Verdicts \ {"cancelled", "base"}) \cup {"None"}]
  /\ raised \in [Items -> Verdicts \cup {"none"}]
  /\ errors \subseteq Items
  /\ cancelled \in BOOLEAN /\ failed \in BOOLEAN
  /\ aborting \in BOOLEAN /\ requested \in BOOLEAN
  /\ wake \in BOOLEAN /\ propagate \in BOOLEAN

Holding == {i \in Items : pc[i] \in {"granted", "calling"}}

Spawned == \E i \in Items : pc[i] # "absent"

\* However items fail, absorb cancellations or are torn down while they wait,
\* no slot of the semaphore is lost or counted twice: so at most `concurrency`
\* calls of fn are in flight, and every slot comes back.
SlotAccounting ==
  Spawned => value + Cardinality(Holding) = call.concurrency

\* The pipeline cancels its items only while the signal that fn's failures
\* are judged by says so: a CancelledError of the pipeline's own making can
\* never be taken for a stray one of fn (#163, #196, #215).
AbortIsVisible == aborting => Stopping

\* Once an item's failure will fail the batch, no further call of fn begins,
\* whatever runs between that item's end and the TaskGroup's cancellation
\* (#146).
FailFast ==
  [][(\E j \in Items : raised[j] \in Failures) =>
       \A i \in Items : pc'[i] = "calling" => pc[i] = "calling"]_vars

\* process returns a list only if nobody cancelled the caller meanwhile, no
\* item failed the batch, and every slot was filled by its own item; without
\* return_exceptions, with what fn returned (#36, #163).
CleanReturn ==
  (status = "returned" /\ call.n > 0) =>
    /\ ~cancelled
    /\ ~failed
    /\ \A i \in Items : /\ results[i] \in Verdicts \ {"base", "cancelled"}
                        /\ call.return_exceptions \/ results[i] = "value"

\* With return_exceptions the batch fails only by a BaseException that is no
\* Exception, or by the caller's cancellation: one bad document never loses
\* the others, and neither does a deadline or a stray CancelledError.
CollectKeepsBatch ==
  (call.return_exceptions /\ failed) =>
    cancelled \/ \E i \in Items : raised[i] = "base"

\* The verdict an item has, in the list or as its task's exception.
VerdictOf(i) == IF raised[i] # "none" THEN raised[i] ELSE results[i]

\* A failure is attributed to what caused it: the deadline only if it fired
\* (#66), a stray CancelledError only if neither the deadline nor a teardown
\* explains it (#163, #200).
HonestAttribution ==
  [][\A i \in Items : (pc[i] = "calling" /\ pc'[i] = "ended") =>
       /\ VerdictOf(i)' = "PipelineTimeoutError" => expired[i]
       /\ VerdictOf(i)' = "timeout" => ~expired[i]
       /\ VerdictOf(i)' = "PipelineError" => ~(expired[i] \/ aborting \/ CallerCancelled)]_vars

\* Every call ends, whatever fn does short of never ending.
Termination == <>Done

-----------------------------------------------------------------------------
(* process implements the fan-out it promises.                             *)

Work == [i \in Items |->
  CASE pc[i] = "calling" -> "running"
    [] pc[i] \in Settled -> IF results[i] = "None" THEN "lost" ELSE "kept"
    [] OTHER -> "pending"]

Fan == INSTANCE BoundedFanOut WITH
  limit  <- call.concurrency,
  work   <- Work,
  doomed <- failed \/ aborting,
  phase  <- IF ~Done THEN "open" ELSE IF status = "returned" THEN "returned" ELSE "raised"

\* Every step of process -- its tasks, its semaphore, its TaskGroup, the
\* caller's cancellation -- is a step of the promise, or invisible to it.
ImplementsFanOut == Fan!Spec
=============================================================================
