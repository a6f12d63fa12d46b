---------------------------- MODULE FnOutcome ----------------------------
(***************************************************************************)
(* How one awaited call of the caller's `fn` may end, and what the         *)
(* pipelines of core.py make of it.  process, stream and                   *)
(* dispatch_tool_calls carry the same three layers around `await fn(item)` *)
(* -- asyncio.timeout, the relabelling of its errors, the conversion of a  *)
(* stray CancelledError -- so they share the operators below.              *)
(*                                                                         *)
(* KeyboardInterrupt and SystemExit are left out: asyncio re-raises them   *)
(* out of the event loop, so nothing the pipeline does follows them.       *)
(***************************************************************************)
EXTENDS Integers

\* What `fn` itself does: returns, raises an Exception, raises a TimeoutError
\* of its own (#66), lets a CancelledError out (delivered to it, or a stray
\* one of its own, #163), or raises a BaseException that is no Exception.
Outcomes == {"value", "error", "timeout", "cancelled", "base"}

\* What becomes of the item.
Verdicts == Outcomes \cup {"PipelineTimeoutError", "PipelineError"}

\* Defect (before #36): BaseExceptions are collected as well.
IsBaseException(v) == v \in {"error", "timeout", "cancelled", "base", "PipelineTimeoutError", "PipelineError"}

\* isinstance(e, Exception): since Python 3.8 CancelledError is not one.
IsException(v) == v \in {"error", "timeout", "PipelineTimeoutError", "PipelineError"}

\* asyncio.Timeout.__aexit__: a CancelledError turns into TimeoutError only
\* if the deadline fired and the task's cancel count, lowered by the
\* deadline's own request, is back at its value on entry; `count` is what
\* the count has gained since.
AfterTimeout(out, expired, count) ==
  IF out = "cancelled" /\ expired /\ count - 1 <= 0 THEN "timeout" ELSE out

\* Defect (before #200): asyncio.timeout is trusted to convert its own cancellation.
DeadlineNeverEscapes(expired, stopping) == FALSE

\* cm.expired() and not stopping: the deadline's cancellation got past
\* asyncio.timeout because `fn` left the count raised (#200).
DeadlineEscaped(expired, stopping) == expired /\ ~stopping

\* The `except TimeoutError` / `except CancelledError` clauses that attribute
\* a failure to the deadline (#66, #200).
Attributed(out, expired, count, stopping) ==
  LET exc == AfterTimeout(out, expired, count) IN
  IF \/ exc = "timeout" /\ expired
     \/ exc = "cancelled" /\ DeadlineEscaped(expired, stopping)
  THEN "PipelineTimeoutError"
  ELSE exc

\* A CancelledError that nobody's teardown explains is the item's failure (#163).
StrayCancellationAsError(exc, stopping) ==
  IF exc = "cancelled" /\ ~stopping THEN "PipelineError" ELSE exc

\* Defect (before #163): a stray CancelledError is raised as it is.
VerdictKeepingStray(out, expired, count, stopping) ==
  Attributed(out, expired, count, stopping)

\* All three layers.
Verdict(out, expired, count, stopping) ==
  StrayCancellationAsError(Attributed(out, expired, count, stopping), stopping)
=============================================================================
