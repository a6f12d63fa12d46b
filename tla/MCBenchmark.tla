---------------------------- MODULE MCBenchmark ----------------------------
(***************************************************************************)
(* The two bench scripts, one or the other, on small workloads.  Three     *)
(* documents are the least that make two batches with a short last one;    *)
(* the durations make a ratio of 19.996, which prints as 20.00, its        *)
(* inverse, 1 and 0.                                                       *)
(***************************************************************************)
EXTENDS Benchmark, BackpressureReport

CONSTANTS MaxDocs, MaxWidth, MaxN

ScriptPlan == <<"serial", "async", "async+batched">>

\* Sessions of other callers: repeated rows, a late baseline, none at all.
OtherPlans == {<<"async", "serial", "serial">>, <<"async", "async", "serial">>,
               <<"async+batched", "async">>}

Session(form, n, c, b, p) ==
  [docs |-> form, n |-> n, concurrency |-> c, batch_size |-> b, plan |-> p]

MCJobs ==
  {Session(form, n, c, b, ScriptPlan) :
     form \in {"workload", "iterator"}, n \in 0..MaxDocs, c \in 1..MaxWidth, b \in 1..MaxWidth}
  \cup {Session("list", 2, 2, 1, p) : p \in OtherPlans}
  \cup {Session("string", 1, 1, 1, ScriptPlan),
        Session("string", 0, 1, 1, <<>>),
        Session("list", 1, 0, 1, <<"async">>),
        Session("list", 1, 1, 0, <<"async+batched">>),
        Session("list", 1, 0, 0, <<"serial">>)}

\* Every --n and queue up to a tenth of --n that exceeds four times the queue.
MCCommandLines ==
  [n : 0..MaxN, queue_size : 0..2, concurrency : {2}, consumer_ms : {"finite", "invalid"},
   compare : BOOLEAN, compare_n : BOOLEAN]

MCRetries == 1..MaxN

\* The script that is not run: a session refused before anything began.
NoSession ==
  /\ job = Session("string", 0, 1, 1, <<>>) /\ status = "refused"
  /\ plan = <<>> /\ source = <<>> /\ docs = <<>> /\ mids = <<>> /\ outs = <<>>
  /\ rows = <<>> /\ landing = None
  /\ limit = 0 /\ work = <<>> /\ doomed = FALSE /\ phase = "returned"

NoDemo == flags = Nothing /\ table = <<>> /\ claim = Nothing /\ exit = Nothing

EitherInit ==
  \/ Init /\ NoDemo
  \/ NoSession /\ DemoInit

EitherNext ==
  \/ flags = Nothing /\ Next /\ UNCHANGED demo
  \/ flags # Nothing /\ DemoNext /\ UNCHANGED vars

EitherScript == EitherInit /\ [][EitherNext]_<<vars, demo>>
=============================================================================
