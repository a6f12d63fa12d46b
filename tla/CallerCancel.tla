--------------------------- MODULE CallerCancel ---------------------------
(***************************************************************************)
(* The calling task's cancellations across consecutive pipeline calls:     *)
(* _CallerCancelProbe, _TaskGroup and _rearm_pending_cancel of core.py, on *)
(* the Python 3.11 and 3.12 they are written for.  Process and Stream take *)
(* one call and let the signal be "cancelled or requested"; here it is     *)
(* computed from the task's counts, as the code computes it.               *)
(*                                                                         *)
(* The caller calls pipelines, handles their failures, awaits other things *)
(* in between or does not, and may do so inside an asyncio.timeout of its  *)
(* own.  Anybody, the caller included, may cancel it.  A pipeline is its   *)
(* TaskGroup here: children that end, fail, and fail while being torn      *)
(* down.                                                                   *)
(***************************************************************************)
EXTENDS Integers

CONSTANTS
  MaxCalls,     \* bound: pipeline calls
  MaxCancels,   \* bound: cancellations of the caller by anybody
  RetryAtOnce,  \* the caller may call again, inside a timeout of its own, with no
                \* await after a failure it handled
  MaxLeaked,    \* bound: count that TaskGroups of the caller's own left raised (#196)
  Children      \* bound: children of one call's TaskGroup

ASSUME BoundsAssumption ==
  /\ MaxCalls \in Nat /\ MaxCancels \in Nat /\ MaxLeaked \in Nat
  /\ Children \in Nat \ {0}
  /\ RetryAtOnce \in BOOLEAN

NoRearm == [entry |-> -1, pending |-> FALSE, rearms |-> 0]

VARIABLES
  caller,     \* "handling" its own code, "in_group", "awaiting", "finished" or "cancelled"
  count,      \* task.cancelling()
  due,        \* a CancelledError is thrown at its next step or await
  rearms,     \* _REARMS[task]
  calls,      \* pipelines called so far
  asked,      \* cancellations asked for by anybody
  leaked,     \* the count the caller brought in, with nobody cancelling it
  block,      \* the caller's own asyncio.timeout: "none", "entered", "expiring"
  base,       \* the count that timeout found on entry
  probe,      \* what the current call's probe found on entry
  scheduled,  \* the call_soon'ed _rearm_pending_cancel, or NoRearm
  busy,       \* children of the group that have not been reaped
  errors,     \* the group has collected an error
  aborting, requested, held

task  == <<count, due, rearms>>
world == <<asked, leaked>>
own   == <<block, base>>
group == <<busy, errors, aborting, requested, held>>
vars  == <<caller, task, calls, world, own, probe, scheduled, group>>

Suspended == caller \in {"in_group", "awaiting"}

-----------------------------------------------------------------------------
\* _CallerCancelProbe.brought_in_a_live_cancel, of a probe p.
BroughtInLive(p) == p.pending \/ rearms # p.rearms

\* Defect (before #215): the count is all that is compared.
CountRose(p) == count > p.entry

\* _CallerCancelProbe.cancelled
ProbeCancelled(p) == BroughtInLive(p) \/ count > p.entry

\* Task.uncancel never goes below 0.
Lowered(n, by) == IF n < by THEN 0 ELSE n - by

\* Task.cancel: counted, and thrown at the task's next step.
CancelTask == count' = count + 1 /\ due' = TRUE /\ UNCHANGED rearms

\* The caller may have been cancelled before its first call, and its own
\* TaskGroups may have left its count raised.
Init ==
  /\ caller = "handling"
  /\ leaked \in 0..MaxLeaked
  /\ asked \in {0, 1} /\ asked <= MaxCancels
  /\ due = (asked = 1)
  /\ count = leaked + asked
  /\ rearms = 0
  /\ calls = 0
  /\ block \in IF due THEN {"none"} ELSE {"none", "entered"}
  /\ base = count
  /\ probe = NoRearm
  /\ scheduled = NoRearm
  /\ busy = 0
  /\ errors = FALSE /\ aborting = FALSE /\ requested = FALSE /\ held = FALSE

-----------------------------------------------------------------------------
(* The caller's code.                                                      *)

\* _TaskGroup.__aenter__, the children's creation, and the first wait.
Call ==
  /\ caller = "handling"
  /\ calls < MaxCalls
  /\ (block # "none" /\ scheduled # NoRearm) => RetryAtOnce
  /\ calls' = calls + 1
  /\ caller' = "in_group"
  /\ probe' = [entry |-> count, pending |-> due, rearms |-> rearms]
  /\ busy' \in 1..Children
  /\ errors' = FALSE /\ aborting' = FALSE /\ requested' = FALSE /\ held' = FALSE
  /\ UNCHANGED <<task, world, own, scheduled>>

\* It awaits something else.
Await ==
  /\ caller = "handling"
  /\ caller' = "awaiting"
  /\ UNCHANGED <<task, calls, world, own, probe, scheduled, group>>

CancelSelf ==
  /\ caller = "handling"
  /\ asked < MaxCancels
  /\ asked' = asked + 1
  /\ CancelTask
  /\ UNCHANGED <<caller, calls, leaked, own, probe, scheduled, group>>

\* asyncio.timeout.__aexit__ takes its own request back.
LeaveBlock ==
  /\ caller = "handling"
  /\ block # "none"
  /\ block' = "none"
  /\ count' = IF block = "expiring" THEN Lowered(count, 1) ELSE count
  /\ UNCHANGED <<caller, due, rearms, calls, world, base, probe, scheduled, group>>

\* A CancelledError leaves the caller's code: as a TimeoutError, which the
\* caller handles, if its timeout sent it and nobody else did.
Unwind ==
  LET left == IF block = "expiring" THEN Lowered(count, 1) ELSE count IN
  /\ count' = left
  /\ caller' = IF block = "expiring" /\ left <= base THEN "handling" ELSE "cancelled"
  /\ block' = "none"
  /\ UNCHANGED base

\* It goes on after an await, or ends.
Resume ==
  /\ caller = "awaiting"
  /\ scheduled = NoRearm
  /\ IF due THEN due' = FALSE /\ Unwind
            ELSE /\ caller' \in IF block = "none" THEN {"handling", "finished"} ELSE {"handling"}
                 /\ UNCHANGED <<count, due, own>>
  /\ UNCHANGED <<rearms, calls, world, probe, scheduled, group>>

-----------------------------------------------------------------------------
(* The rest of the world, while the caller is suspended.                   *)

CancelCaller ==
  /\ Suspended
  /\ asked < MaxCancels
  /\ asked' = asked + 1
  /\ CancelTask
  /\ UNCHANGED <<caller, calls, leaked, own, probe, scheduled, group>>

\* The caller's own timeout fires.
TimeoutFires ==
  /\ Suspended
  /\ block = "entered"
  /\ block' = "expiring"
  /\ CancelTask
  /\ UNCHANGED <<caller, calls, world, base, probe, scheduled, group>>

\* TaskGroup._on_task_done.  A child of this call ends no sooner than the
\* callback the previous call left behind has run.
ChildEnds(error) ==
  /\ caller = "in_group"
  /\ scheduled = NoRearm
  /\ busy > 0
  /\ busy' = busy - 1
  /\ errors' = (errors \/ error)
  /\ IF error /\ ~aborting /\ ~requested
     THEN aborting' = TRUE /\ requested' = TRUE /\ CancelTask
     ELSE UNCHANGED <<aborting, requested, task>>
  /\ UNCHANGED <<caller, calls, world, own, probe, scheduled, held>>

\* Defect (before #206): any count is taken for a pending cancellation.
OwedOnAnyCount(p) == count > 0

\* Defect (before #219): what the count on entry stands for is not asked.
OwedOnRise(p) == count > p.entry

\* Is a cancellation the group swallowed still owed to the caller?
StillOwed(p) == count > p.entry - IF BroughtInLive(p) THEN 1 ELSE 0

\* _rearm_pending_cancel, one loop step after the group's exit: uncancel() and
\* cancel().
Rearm ==
  /\ scheduled # NoRearm
  /\ Suspended
  /\ scheduled' = NoRearm
  /\ IF StillOwed(scheduled)
     THEN /\ count' = Lowered(count, 1) + 1
          /\ due' = TRUE
          /\ rearms' = rearms + 1
     ELSE UNCHANGED task
  /\ UNCHANGED <<caller, calls, world, own, probe, group>>

-----------------------------------------------------------------------------
(* _TaskGroup.__aexit__.                                                   *)

\* Defect (before #204): the request the group made itself stays counted.
NothingTakenBack == 0

\* Defect: a cancellation that was not the group's own is taken back as well.
AlwaysTakenBack == 1

\* The request made while __aexit__ waited is the group's own to take back.
RequestTakenBack == IF requested THEN 1 ELSE 0

\* It ends with its errors: the caller handles the failure.
EndWithErrors ==
  /\ caller' = "handling"
  /\ count' = Lowered(count, RequestTakenBack)
  /\ scheduled' = probe
  /\ UNCHANGED own

\* The group's wait is interrupted, or no child is left.
GroupResume ==
  LET holds == held \/ (due /\ ~aborting) IN
  /\ caller = "in_group"
  /\ scheduled = NoRearm
  /\ due \/ busy = 0
  /\ due' = FALSE
  /\ aborting' = (aborting \/ due)
  /\ held' = holds
  /\ IF busy > 0 THEN UNCHANGED <<caller, count, own, scheduled>>
     ELSE IF errors THEN EndWithErrors
     ELSE IF holds THEN Unwind /\ UNCHANGED scheduled
     ELSE caller' = "handling" /\ UNCHANGED <<count, own, scheduled>>
  /\ UNCHANGED <<rearms, calls, world, probe, busy, errors, requested>>

Over == caller \in {"finished", "cancelled"}

Next ==
  \/ Call
  \/ Await
  \/ CancelSelf
  \/ LeaveBlock
  \/ Resume
  \/ CancelCaller
  \/ TimeoutFires
  \/ \E error \in BOOLEAN : ChildEnds(error)
  \/ Rearm
  \/ GroupResume
  \/ Over /\ UNCHANGED vars

Spec == Init /\ [][Next]_vars

-----------------------------------------------------------------------------
(* Properties.                                                             *)

\* What a probe may have found on entry.
Findings == [entry : -1..(leaked + asked + 2), pending : BOOLEAN, rearms : 0..MaxCalls]

\* Every variable stays within its type; the count never falls below what
\* the caller brought in.
TypeOK ==
  /\ caller \in {"handling", "in_group", "awaiting", "finished", "cancelled"}
  /\ count \in Nat /\ count >= leaked
  /\ due \in BOOLEAN
  /\ rearms \in 0..MaxCalls
  /\ calls \in 0..MaxCalls
  /\ asked \in 0..MaxCancels
  /\ leaked \in 0..MaxLeaked
  /\ block \in {"none", "entered", "expiring"}
  /\ base \in Nat
  /\ probe \in Findings /\ scheduled \in Findings
  /\ busy \in 0..Children
  /\ errors \in BOOLEAN /\ aborting \in BOOLEAN /\ requested \in BOOLEAN /\ held \in BOOLEAN

\* A pipeline call never cancels its caller: a CancelledError ends the caller
\* only if somebody asked for it; neither a handled failure, a count left
\* raised, nor the caller's own timeout can (#204, #206, #210).  A caller that
\* retries at once inside its timeout breaks it: the first call's re-arm counts
\* the timeout's request, the second one's baseline drops for it, and after the
\* timeout took its request back nothing is left to deliver but is delivered.
NoneInvented == caller = "cancelled" => asked > 0

\* A cancellation asked for is never lost: however many pipelines swallow it
\* while they fail, it reaches the caller at an await at last (#204, #219).
NoneLost == caller = "finished" => asked = 0

\* However the caller arranges its calls, none of them takes back a request it
\* did not make, its own timeout's or anybody's; and of those that nobody made
\* at most one is ever left counted.
CountWithinOne ==
  LET made == leaked + asked + (IF block = "expiring" THEN 1 ELSE 0)
                             + (IF caller = "in_group" /\ requested THEN 1 ELSE 0)
  IN made <= count /\ count <= made + 1

\* Handled failures leave the caller's count as they found it, with nobody
\* cancelling it (#204): a timeout of its own that fires later is a timeout.
\* On the way there it is never off by more than one.
CountRestored ==
  /\ CountWithinOne
  /\ caller \in {"handling", "finished"} /\ asked = 0 /\ block # "expiring" => count = leaked

\* However the caller arranges its calls, a pipeline that is being torn down
\* knows: what its children raise then is not taken for a failure of theirs,
\* and none of them begins anything more (#163, #196, #215).
TeardownSeen == (caller = "in_group" /\ aborting) => ProbeCancelled(probe)

\* The signal of the current call says that it is being torn down exactly if
\* it may be: always once the group cancels its children, and never on the
\* strength of a count that stands for no cancellation (#196, #215).
SignalIsTrue ==
  /\ TeardownSeen
  /\ caller = "in_group" /\ scheduled = NoRearm /\ ProbeCancelled(probe) =>
       asked > 0 \/ requested \/ block = "expiring"
=============================================================================
