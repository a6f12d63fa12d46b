------------------------- MODULE BackpressureReport -------------------------
(***************************************************************************)
(* A run of bench_backpressure.py: its cells, one stream each, and what    *)
(* the report then says its table shows about the queue's bound.           *)
(*                                                                         *)
(* stream stands here as its metrics on a producer that never waits of its *)
(* own (DemoRow): DemoStream is that stream, and has no others.            *)
(***************************************************************************)
EXTENDS Integers, Sequences, FiniteSets, DemoRow

CONSTANTS
  CommandLines,   \* the flags to model
  Retries,        \* the values of --n a reader may try next
  Pauses,         \* the counts of pauses to model, of those that are possible
  Nothing         \* what is not there yet, or is not given

CommandLine == [n : Int, queue_size : Int, concurrency : Int, consumer_ms : {"finite", "invalid"},
                compare : BOOLEAN, compare_n : BOOLEAN]

ASSUME CommandLinesAssumption == CommandLines \subseteq CommandLine
ASSUME RetriesAssumption == Retries \subseteq Nat \ {0}
ASSUME PausesAssumption == {0, 1} \subseteq Pauses /\ Pauses \subseteq Nat
ASSUME NothingAssumption == Nothing \notin Int

VARIABLES
  flags,   \* the command line; never changes
  table,   \* the rows measured so far
  claim,   \* what the report says, once it is written
  exit     \* the exit code

demo == <<flags, table, claim, exit>>

DemoInit ==
  /\ flags \in CommandLines
  /\ table = <<>>
  /\ claim = Nothing
  /\ exit = Nothing

BadFlags ==
  flags.n <= 0 \/ flags.queue_size <= 0 \/ flags.concurrency <= 0 \/ flags.consumer_ms = "invalid"

ExitTwo ==
  /\ exit = Nothing /\ BadFlags
  /\ exit' = 2
  /\ UNCHANGED <<flags, table, claim>>

Tenth(n) == IF n \div 10 >= 1 THEN n \div 10 ELSE 1

\* The base cell; --compare adds one at four times the queue, --compare-n one
\* at a tenth of the items.
Cells(f) ==
  <<[n |-> f.n, queue_size |-> f.queue_size]>>
  \o (IF f.compare THEN <<[n |-> f.n, queue_size |-> 4 * f.queue_size]>> ELSE <<>>)
  \o (IF f.compare_n THEN <<[n |-> Tenth(f.n), queue_size |-> f.queue_size]>> ELSE <<>>)

\* The rows that run_one may measure for a cell.
Measured(cell) ==
  {[n |-> cell.n, queue_size |-> cell.queue_size,
    max_queue_depth |-> Depth(cell.n, cell.queue_size),
    producer_pauses |-> p] : p \in PauseCounts(cell.n, cell.queue_size) \cap Pauses}

RunOne ==
  /\ exit = Nothing /\ ~BadFlags
  /\ Len(table) < Len(Cells(flags))
  /\ \E row \in Measured(Cells(flags)[Len(table) + 1]) : table' = Append(table, row)
  /\ UNCHANGED <<flags, claim, exit>>

\* Defect (before #161): a row with as many items as the queue holds passes.
SaturatedByDepth(r) == r.max_queue_depth >= r.queue_size \/ r.producer_pauses > 0

\* The row reached the bound with items left to put.
Saturated(r) ==
  /\ r.n > r.queue_size
  /\ r.max_queue_depth >= r.queue_size \/ r.producer_pauses > 0

\* Defect (before #202, #208): the largest queue, which is --compare's.
LargestQueue(rows) ==
  CHOOSE q \in {r.queue_size : r \in rows} : \A r \in rows : r.queue_size <= q

\* The queue a --compare-n row runs at.
BaseQueue(rows) ==
  CHOOSE q \in {r.queue_size : r \in rows} : \A r \in rows : q <= r.queue_size

\* What _render_markdown concludes from the rows: that they are evidence, or
\* to retry with a tenth of --n above `advice`; and of which it says that the
\* producer never paused: those that stayed unfilled, or every one ("No row
\* filled the queue").
Conclusion(rows) ==
  LET filled == {r \in rows : Saturated(r)}
      evidence == Cardinality({r.n : r \in filled}) > 1
  IN [evidence |-> evidence,
      advice |-> IF evidence THEN Nothing ELSE BaseQueue(rows),
      unfilled |-> {<<r.n, r.queue_size>> : r \in rows \ filled}]

RowsOf(t) == {t[k] : k \in DOMAIN t}

RenderDemo ==
  /\ exit = Nothing /\ ~BadFlags
  /\ Len(table) = Len(Cells(flags))
  /\ claim' = Conclusion(RowsOf(table))
  /\ exit' = 0
  /\ UNCHANGED <<flags, table>>

DemoEnded == exit # Nothing /\ UNCHANGED demo

DemoNext == ExitTwo \/ RunOne \/ RenderDemo \/ DemoEnded

DemoSpec == DemoInit /\ [][DemoNext]_demo

-----------------------------------------------------------------------------
(* Properties.                                                             *)

\* What a run with --compare-n and another --n concludes, whatever it measures.
WouldBeEvidence(n) ==
  LET f == [flags EXCEPT !.n = n, !.compare_n = TRUE] IN
  Conclusion(UNION {Measured(Cells(f)[k]) : k \in DOMAIN Cells(f)}).evidence

Waited(r) == r.producer_pauses > 0

\* The report calls its table evidence for the bound's independence of n only
\* on two rows at one queue size with different n in both of which the
\* producer had to wait (#134, #161); a row it calls unfilled is one whose
\* producer never did (#144, #149); and where it gives advice, a retry that follows
\* it is evidence and one that does not is not (#202, #208).
ReportIsTrue ==
  exit = 0 =>
    /\ claim.evidence => \E r, s \in RowsOf(table) :
         r.queue_size = s.queue_size /\ r.n # s.n /\ Waited(r) /\ Waited(s)
    /\ \A r \in RowsOf(table) : <<r.n, r.queue_size>> \in claim.unfilled => ~Waited(r)
    /\ claim.advice # Nothing => \A n \in Retries : WouldBeEvidence(n) <=> n \div 10 > claim.advice
=============================================================================
