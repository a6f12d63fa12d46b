------------------------------ MODULE DemoRow ------------------------------
(***************************************************************************)
(* The metrics of a row of bench_backpressure.py: of a stream of n items   *)
(* through a queue, whose producer never waits of its own.                 *)
(***************************************************************************)
EXTENDS Integers

\* It fills the queue before any consumer runs.
Depth(n, queue_size) == IF n > queue_size THEN queue_size ELSE n

\* It pauses at a full queue, for one of the items it did not hold at first or
\* for up to all of them.
PauseCounts(n, queue_size) == IF n > queue_size THEN 1..(n - queue_size) ELSE {0}
=============================================================================
