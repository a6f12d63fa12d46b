---------------------------- MODULE MCDispatch ----------------------------
(***************************************************************************)
(* Small calls of dispatch_tool_calls for TLC.  Three calls are the least  *)
(* that have one tool failing, one that runs and one that queues.          *)
(***************************************************************************)
EXTENDS Dispatch

CONSTANT MaxCalls

Batch(n, c, keep) == [n |-> n, concurrency |-> c, return_exceptions |-> keep,
                      timeout |-> "finite", bare_string |-> FALSE]

\* Each batch one at a time, and with concurrency=None.
WellFormed ==
  UNION {{Batch(n, c, keep) : c \in {1, n} \ {0}, keep \in BOOLEAN} : n \in 0..MaxCalls}

\* One call for each guard.
IllFormed ==
  LET c == Batch(1, 1, FALSE) IN {[c EXCEPT !.concurrency = 0], [c EXCEPT !.timeout = "invalid"]}

MCCalls == WellFormed \cup IllFormed
===========================================================================
