-------------------------- MODULE BoundedFanOut --------------------------
(***************************************************************************)
(* What a fan-out of core.py promises its caller, without its tasks, its   *)
(* semaphore and its TaskGroup: every item's work runs at most once and    *)
(* within the limit, none begins once the call is bound to raise, and the  *)
(* call returns only with a kept result for every item, with nothing left  *)
(* running behind it.                                                      *)
(***************************************************************************)
EXTENDS Integers, FiniteSets

VARIABLES
  limit,    \* how many items may run at once; set by the caller
  work,     \* item -> "pending", "running", "kept" or "lost"
  doomed,   \* the call can no longer return a list
  phase     \* "open", "returned" or "raised"

vars == <<limit, work, doomed, phase>>

In(state) == {i \in DOMAIN work : work[i] = state}

Init ==
  /\ limit \in Int
  /\ \A i \in DOMAIN work : work[i] = "pending"
  /\ doomed = FALSE
  /\ phase = "open"

Begin(i) ==
  /\ phase = "open" /\ ~doomed
  /\ work[i] = "pending"
  /\ Cardinality(In("running")) < limit
  /\ work' = [work EXCEPT ![i] = "running"]
  /\ UNCHANGED <<limit, doomed, phase>>

Keep(i) ==
  /\ work[i] = "running"
  /\ work' = [work EXCEPT ![i] = "kept"]
  /\ UNCHANGED <<limit, doomed, phase>>

\* The worker that keeps one result takes on the next item at once.
Relay(i, j) ==
  /\ phase = "open" /\ ~doomed
  /\ work[i] = "running" /\ work[j] = "pending"
  /\ work' = [work EXCEPT ![i] = "kept", ![j] = "running"]
  /\ UNCHANGED <<limit, doomed, phase>>

\* The work failed or was torn down.
Lose(i) ==
  /\ work[i] = "running"
  /\ work' = [work EXCEPT ![i] = "lost"]
  /\ doomed' = TRUE
  /\ UNCHANGED <<limit, phase>>

\* The work never began.
Drop(i) ==
  /\ doomed
  /\ work[i] = "pending"
  /\ work' = [work EXCEPT ![i] = "lost"]
  /\ UNCHANGED <<limit, doomed, phase>>

\* The caller is cancelled.
Doom ==
  /\ phase = "open"
  /\ doomed' = TRUE
  /\ UNCHANGED <<limit, work, phase>>

Return ==
  /\ phase = "open" /\ ~doomed
  /\ In("kept") = DOMAIN work
  /\ phase' = "returned"
  /\ UNCHANGED <<limit, work, doomed>>

Raise ==
  /\ phase = "open"
  /\ In("running") = {}
  /\ phase' = "raised"
  /\ doomed' \in {doomed, TRUE}
  /\ UNCHANGED <<limit, work>>

Next ==
  \/ \E i \in DOMAIN work : Begin(i) \/ Keep(i) \/ Lose(i) \/ Drop(i)
  \/ \E i, j \in DOMAIN work : Relay(i, j)
  \/ Doom
  \/ Return
  \/ Raise

Spec == Init /\ [][Next]_vars

-----------------------------------------------------------------------------
(* What a caller may rely on.                                              *)

\* No more items run at once than the caller asked for; of a limit below 1,
\* none does.
WithinLimit == In("running") # {} => Cardinality(In("running")) <= limit

\* A list comes back only with a result for every item, and whichever way the
\* call ends it leaves nothing running behind it.
EndsWhole ==
  /\ phase = "returned" => In("kept") = DOMAIN work
  /\ phase # "open" => In("running") = {}

\* No item's work is begun twice, no outcome is taken back, and the promise to
\* raise is kept.
OnlyOnce ==
  /\ \A i \in DOMAIN work :
       /\ work[i] # "pending" => work'[i] # "pending"
       /\ work[i] \in {"kept", "lost"} => work'[i] = work[i]
  /\ doomed => doomed' /\ In("running")' \subseteq In("running")
  /\ phase # "open" => phase' = phase

\* What a caller may rely on, whatever happens to its call.
Promises == []WithinLimit /\ []EndsWhole /\ [][OnlyOnce]_vars
=============================================================================
