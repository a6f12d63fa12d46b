----------------------------- MODULE MCStream -----------------------------
(***************************************************************************)
(* Small calls of stream for TLC.  Three items against a queue of one and  *)
(* two consumers make the producer wait with an item in hand while one     *)
(* item is queued and both consumers work or have failed.  A deadline that *)
(* need not fire covers the calls without one.                             *)
(***************************************************************************)
EXTENDS DemoStream

CONSTANTS Producers, MaxLength, MaxConcurrency, MaxQueueSize

WellFormed ==
  [producer : Producers, length : 0..MaxLength, concurrency : 1..MaxConcurrency,
   queue_size : 1..MaxQueueSize, return_exceptions : BOOLEAN, timeout : {"finite"}]

\* One call for each guard, at zero and below it.
IllFormed ==
  LET c == [producer |-> "any", length |-> 1, concurrency |-> 1, queue_size |-> 1,
            return_exceptions |-> FALSE, timeout |-> "None"]
  IN {[c EXCEPT !.concurrency = n] : n \in {-1, 0}} \cup {[c EXCEPT !.queue_size = n] : n \in {-1, 0}}
     \cup {[c EXCEPT !.timeout = "invalid"]}

MCCalls == WellFormed \cup IllFormed
===========================================================================
