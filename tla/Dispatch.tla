----------------------------- MODULE Dispatch -----------------------------
(***************************************************************************)
(* One call of dispatch_tool_calls of tool_dispatch.py.                    *)
(*                                                                         *)
(* Its tasks, semaphore, latch, deadline and TaskGroup repeat those of     *)
(* process clause by clause, so a call of a tool takes the steps of an     *)
(* item of Process.  This module adds what is different: the tools are     *)
(* looked up before anything runs, the results without a slot are dropped, *)
(* and the TaskGroup's exceptions are turned into one.                     *)
(*                                                                         *)
(* concurrency=None takes no slot.  A semaphore with a slot for every call *)
(* suspends nobody either: that call is the one with concurrency = n.      *)
(***************************************************************************)
EXTENDS Process, Sequences

VARIABLES
  missing,   \* the calls whose name the registry does not know
  nested,    \* the calls whose tool raised the deadline error of a dispatch of its own
  order,     \* the calls in the order their tasks ended, as their callbacks run
  written,   \* how often a tool has written to the arguments its ToolCall keeps
  handed     \* call -> how often they had been written to when its tool got them

arguments == <<written, handed>>
extra     == <<missing, nested, order, arguments>>

DispatchInit ==
  /\ Init
  /\ missing \in SUBSET Items
  /\ nested = {}
  /\ order = <<>>
  /\ written = 0
  /\ handed = [i \in Items |-> 0]

Unresolved == missing # {} /\ ~call.return_exceptions

\* A name that is not registered fails the call before any tool runs.
NotFound ==
  /\ status = "entry"
  /\ ~Refused
  /\ call.n > 0
  /\ Unresolved
  /\ status' = "not_found"
  /\ UNCHANGED <<call, cancelled, items, group, extra>>

\* Defect: names are looked up only when their turn comes.
BeginUnresolved ==
  /\ Spawn
  /\ UNCHANGED extra

\* Otherwise a stub that raises ToolNotFoundError stands in for the tool.
Begin ==
  /\ Spawn
  /\ ~Unresolved
  /\ UNCHANGED extra

Ended(i) ==
  order' = IF pc'[i] = "ended" /\ pc[i] # "ended" THEN Append(order, i) ELSE order

\* Defect (before #102): a tool that writes to its arguments writes to the
\* dict of its ToolCall.
WrittenToCall == written + 1

\* It writes to a deep copy of that dict, which nobody else sees.
WrittenToCopy == written

\* A tool is handed what the arguments are when it begins.  The calls repeat
\* one ToolCall, so that their tools share what can be shared.
HandsArguments(i) ==
  handed' = IF pc'[i] = "calling" /\ pc[i] # "calling" THEN [handed EXCEPT ![i] = written] ELSE handed

\* A call waits for its slot, gets it, or is cancelled before its tool runs.
Admission(i) ==
  /\ Start(i) \/ CancelUnslotted(i) \/ Resume(i) \/ CancelGranted(i)
  /\ Ended(i)
  /\ HandsArguments(i)
  /\ UNCHANGED <<missing, nested, written>>

\* What happens to a tool while it runs.  The stub does not suspend.
ToolStep(i) ==
  /\ i \notin missing
  /\ FnStep(i)
  /\ UNCHANGED extra

\* `await fn(arguments)` ends.  A tool that runs a dispatch of its own may let
\* that one's PipelineTimeoutError out: an error like any other (#155).
ToolEnds(i, out) ==
  /\ i \in missing => out = "error"
  /\ Settle(i, out)
  /\ nested' \in IF out = "error" /\ i \notin missing THEN {nested, nested \cup {i}} ELSE {nested}
  /\ Ended(i)
  /\ written' = IF i \in missing THEN written ELSE WrittenToCopy
  /\ UNCHANGED <<missing, handed>>

\* The callbacks run in the order in which the tasks ended.
ReapInOrder(i) ==
  /\ Reap(i)
  /\ \E k \in DOMAIN order : order[k] = i /\ \A h \in 1..(k - 1) : pc[order[h]] = "reaped"
  /\ UNCHANGED extra

-----------------------------------------------------------------------------
(* What the caller sees.                                                   *)

\* [r for r in results if r is not None], as the calls they belong to.
Returned == {i \in Items : results[i] # "None"}

\* except* Exception takes these; what it leaves is raised beside the new one.
Caught == {i \in errors : IsException(raised[i])}

\* Where the callbacks' order, which is that of the TaskGroup's exceptions, has them.
CaughtAt == {k \in DOMAIN order : order[k] \in Caught}

\* Defect: the last exception is taken for the first.
FirstFromTheEnd == order[CHOOSE k \in CaughtAt : \A h \in CaughtAt : h <= k]

First == order[CHOOSE k \in CaughtAt : \A h \in CaughtAt : k <= h]

\* Defect (before #155): any PipelineTimeoutError passes for this call's own.
OwnDeadlineByType(i) == raised[i] = "PipelineTimeoutError" \/ i \in nested

\* _dispatch_owner: the deadline error was raised by this very call.
OwnDeadline(i) == raised[i] = "PipelineTimeoutError"

Surfaced ==
  IF Caught = {} THEN "BaseExceptionGroup"
  ELSE IF errors # Caught THEN "BaseExceptionGroup with the PipelineError inside"
  ELSE IF OwnDeadline(First) THEN "PipelineTimeoutError"
  ELSE "PipelineError"

-----------------------------------------------------------------------------
DispatchCall ==
  \/ NotFound
  \/ Begin
  \/ (Refuse \/ ReturnEmpty \/ CallerResume) /\ UNCHANGED extra

DispatchNext ==
  \/ DispatchCall
  \/ CancelCaller /\ UNCHANGED extra
  \/ \E i \in Items :
       \/ Admission(i)
       \/ ToolStep(i)
       \/ \E out \in Outcomes : ToolEnds(i, out)
       \/ ReapInOrder(i)
  \/ Terminated /\ UNCHANGED extra

\* As for process: every ready task and callback runs, every tool ends.
DispatchFairness ==
  /\ WF_<<vars, extra>>(DispatchCall)
  /\ \A c \in Calls : \A i \in 1..c.n :
       /\ WF_<<vars, extra>>(call = c /\ (Admission(i) \/ ReapInOrder(i)))
       /\ WF_<<vars, extra>>(call = c /\ \E out \in Outcomes : ToolEnds(i, out))

DispatchSpec == DispatchInit /\ [][DispatchNext]_<<vars, extra>> /\ DispatchFairness

-----------------------------------------------------------------------------
(* Properties.                                                             *)

\* Every variable stays within its type; the order lists each ended task once;
\* and an unknown tool that must fail the call keeps it from starting (#90).
DispatchTypeOK ==
  /\ missing \subseteq Items
  /\ nested \subseteq Items \ missing
  /\ order \in Seq(Items)
  /\ Len(order) = Cardinality({i \in Items : pc[i] \in Settled})
  /\ status \in {"entry", "waiting", "refused", "not_found", "returned", "errors", "cancelled"}
  /\ Unresolved => status \in {"entry", "refused", "not_found"}
  /\ written \in Nat /\ handed \in [Items -> Nat]

\* A returned list has a result for every call, although unset slots are
\* dropped from it: an unknown tool's is its ToolNotFoundError, another's is
\* its answer to the arguments the call was made with, however the tools
\* interleave and whatever they write to them (#102).
ResultPerCall ==
  status = "returned" =>
    /\ Returned = Items
    /\ \A i \in Items : IF i \in missing THEN results[i] = "error" ELSE handed[i] = 0

\* Only this call's own deadline passes unwrapped: neither a tool's error nor
\* the deadline of a dispatch that a tool runs can be taken for it (#155).
DeadlineIsOwn ==
  (status = "errors" /\ Surfaced = "PipelineTimeoutError") => First \notin nested /\ expired[First]

\* The exception the caller sees is the failure that brought the batch down:
\* no call ended torn down before it.
SurfacesCause ==
  (status = "errors" /\ Caught = errors /\ ~cancelled) =>
    \E k \in DOMAIN order :
      order[k] = First /\ \A h \in 1..(k - 1) : raised[order[h]] = "none"

\* The docstring: "a *tool* that raises propagates wrapped in `PipelineError`",
\* a subclass of it for the deadline.
WrappedDoc == status = "errors" => Surfaced \in {"PipelineError", "PipelineTimeoutError"}
=============================================================================
