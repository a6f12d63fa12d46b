---------------------------- MODULE MCProcess ----------------------------
(***************************************************************************)
(* Small calls of process for TLC.  Three items at concurrency 1 and 2 are *)
(* the least that have a failing item, one that is in flight and one that  *)
(* waits for a slot.  A deadline that need not fire covers the calls       *)
(* without one.                                                            *)
(***************************************************************************)
EXTENDS Process

CONSTANTS MaxItems, MaxConcurrency

WellFormed ==
  [n : 0..MaxItems, concurrency : 1..MaxConcurrency, return_exceptions : BOOLEAN,
   timeout : {"finite"}, bare_string : {FALSE}]

\* One call for each guard.
IllFormed ==
  LET c == [n |-> 1, concurrency |-> 1, return_exceptions |-> FALSE,
            timeout |-> "None", bare_string |-> FALSE]
  IN {[c EXCEPT !.bare_string = TRUE], [c EXCEPT !.concurrency = 0],
      [c EXCEPT !.timeout = "invalid"]}

MCCalls == WellFormed \cup IllFormed
=============================================================================
