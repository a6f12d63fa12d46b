----------------------------- MODULE Benchmark -----------------------------
(***************************************************************************)
(* A session of benchmark.py: run_pipeline on one pipeline after another,  *)
(* attach_speedup on their results, and the report bench_1000_doc.py       *)
(* renders from them.  Its own session is _run_all: serial, async,         *)
(* async+batched over one list.                                            *)
(*                                                                         *)
(* The async pipelines hand their units of work -- a document, or a batch  *)
(* of them -- to process, which stands here as what it promises            *)
(* (BoundedFanOut, which Process is proved to implement).  A text is the   *)
(* document it came from and the calls made on it since.                   *)
(***************************************************************************)
EXTENDS Integers, Sequences, FiniteSets

CONSTANTS
  Jobs,        \* the sessions to model
  Durations,   \* what a timed run may take, in ticks of the clock
  None         \* Python's None

Pipelines == {"serial", "async", "async+batched"}

\* The form in which the documents arrive; "workload" is the script's list.
Job == [docs : {"workload", "list", "iterator", "string"}, n : Nat,
        concurrency : Int, batch_size : Int, plan : Seq(Pipelines)]

\* A text: the document it came from (0: none of them) and the calls made.
Texts == [doc : Nat, calls : Seq({"llm1", "llm2"})]

ASSUME JobsAssumption == Jobs \subseteq Job
ASSUME DurationsAssumption == Durations \subseteq Nat
ASSUME NoneAssumption == None \notin Nat \cup (Nat \X Nat) \cup Seq(Texts)

VARIABLES
  job,      \* what is asked for; never changes
  plan,     \* the pipelines still to run
  status,   \* "ready" between two runs, "running", "refused", "raised" or "published"
  source,   \* what reading the caller's documents (once more) gives
  docs,     \* the list the current run read
  mids,     \* unit of work -> the checked outputs of its first call
  outs,     \* unit of work -> those of its second call
  rows,     \* the RunResults
  landing,  \* where the report says real APIs land: below this printed speedup, or, if
            \* None, in the 5-20x range
  limit, work, doomed, phase   \* the current fan-out, as in BoundedFanOut

fanout == <<limit, work, doomed, phase>>
vars   == <<job, plan, status, source, docs, mids, outs, rows, landing, fanout>>

FanOut == INSTANCE BoundedFanOut

Running == Head(plan)

-----------------------------------------------------------------------------
(* Batches and what a batch caller may answer.                             *)

\* Defect: a last batch that is not full is forgotten.
ChunkFull(items, size) ==
  [b \in 1..(Len(items) \div size) |-> SubSeq(items, (b - 1) * size + 1, b * size)]

\* _chunk: slices of `size`, the last of which may be short.
Chunk(items, size) ==
  [b \in 1..((Len(items) + size - 1) \div size) |->
     SubSeq(items, (b - 1) * size + 1,
            IF b * size <= Len(items) THEN b * size ELSE Len(items))]

\* Without batching a unit is one document.
UnitSize(p) == IF p = "async+batched" THEN job.batch_size ELSE 1

Units == Chunk(docs, UnitSize(Running))

Called(texts, llm) == [k \in DOMAIN texts |-> [texts[k] EXCEPT !.calls = Append(@, llm)]]

Dropping(s, k) == [j \in 1..(Len(s) - 1) |-> IF j < k THEN s[j] ELSE s[j + 1]]

Reversed(s) == [k \in DOMAIN s |-> s[Len(s) + 1 - k]]

Character == [doc |-> 0, calls |-> <<>>]

\* What a batch endpoint sends back: its outputs; with an item that expired
\* left out, or one too many (of an endless generator no more is read); a
\* set, in some order of its own; a dict keyed by the inputs; one string, whose
\* characters happen to be as many; nothing iterable; or an error.  A list of
\* the right length in another order is left out: the code trusts the endpoint
\* for it.
BatchAnswers(sent, llm) ==
  LET own == Called(sent, llm) IN
  {[form |-> f, items |-> s] : f \in {"list", "iterator"},
     s \in {own, Append(own, own[1])} \cup {Dropping(own, k) : k \in DOMAIN own}}
  \cup {[form |-> "set", items |-> Reversed(own)],
        [form |-> "mapping", items |-> sent],
        [form |-> "string", items |-> [k \in DOMAIN own |-> Character]],
        [form |-> "scalar", items |-> <<>>],
        [form |-> "error", items |-> <<>>]}

\* A single call answers with a string or raises.
Answers(sent, llm) ==
  IF Running = "async+batched" THEN BatchAnswers(sent, llm)
  ELSE {[form |-> "list", items |-> Called(sent, llm)], [form |-> "error", items |-> <<>>]}

\* Defect (before #231): an unordered collection passes.
OrderedOrSet == {"list", "iterator", "set", "mapping"}

\* Neither a bare string, nor unordered, nor no collection at all.
Ordered == {"list", "iterator"}

\* _check_batch_len
Checked(sent, got) == got.form \in Ordered /\ Len(got.items) = Len(sent)

-----------------------------------------------------------------------------
(* Timing, attach_speedup and the report.  A rate is a fraction; it is     *)
(* None where the code says None.                                          *)

\* Defect (before #60, #94): a run that took no measurable time has rate 0.
ZeroRate(amount, ticks) == IF ticks = 0 THEN <<0, 1>> ELSE <<amount, ticks>>

Rate(amount, ticks) == IF ticks = 0 THEN None ELSE <<amount, ticks>>

\* The first serial row's duration.
Baseline ==
  LET serials == {k \in DOMAIN rows : rows[k].pipeline = "serial"} IN
  IF serials = {} THEN None
  ELSE rows[CHOOSE k \in serials : \A j \in serials : k <= j].duration

Speedup(ticks) == IF Baseline \in {None, 0} THEN None ELSE Rate(Baseline, ticks)

AttachSpeedup == [k \in DOMAIN rows |-> [rows[k] EXCEPT !.speedup = Speedup(rows[k].duration)]]

\* A rate as `:.2f` prints it, in hundredths.
Printed(r) == (200 * r[1] + r[2]) \div (2 * r[2])

\* Defect (before #165): the baseline's own 1.00 counts as measured.
NotBatched == {"async+batched"}

\* The rows whose speedup is no ceiling for real APIs.
Excluded == {"serial", "async+batched"}

\* Defect (before #198): the comparison is made before rounding.
ClearsUnrounded(r) == r[1] >= 20 * r[2]

Clears(r) == Printed(r) >= 2000

\* The landing sentence of render_markdown, from the rows of its table.
Landing(table) ==
  LET measured == {table[k].speedup : k \in {j \in DOMAIN table :
                     table[j].speedup # None /\ table[j].pipeline \notin Excluded}}
      ceiling == CHOOSE r \in measured : \A q \in measured : q[1] * r[2] <= r[1] * q[2]
  IN IF measured = {} THEN None ELSE IF Clears(ceiling) THEN None ELSE Printed(ceiling)

-----------------------------------------------------------------------------
Init ==
  /\ job \in Jobs
  /\ plan = job.plan
  /\ status = "ready"
  /\ source = [d \in 1..job.n |-> [doc |-> d, calls |-> <<>>]]
  /\ docs = <<>> /\ mids = <<>> /\ outs = <<>>
  /\ rows = <<>>
  /\ landing = None
  /\ limit = 0 /\ work = <<>> /\ doomed = FALSE /\ phase = "returned"

FansOut(p) == p \in {"async", "async+batched"}

BadWorkload == job.n < 1 \/ job.concurrency < 1 \/ job.batch_size < 1

\* Defect (before #28): a pipeline does not check how wide it may run.
RefusedByBatchSize ==
  \/ job.docs = "string"
  \/ job.docs = "workload" /\ BadWorkload
  \/ job.batch_size < 1 /\ \E k \in DOMAIN job.plan : job.plan[k] = "async+batched"

\* Every constructor runs before the first run_pipeline.
Refused ==
  \/ job.docs = "string"
  \/ job.docs = "workload" /\ BadWorkload
  \/ \E k \in DOMAIN job.plan :
       \/ FansOut(job.plan[k]) /\ job.concurrency < 1
       \/ job.plan[k] = "async+batched" /\ job.batch_size < 1

Refuse ==
  /\ status = "ready" /\ Refused
  /\ status' = "refused"
  /\ UNCHANGED <<job, plan, source, docs, mids, outs, rows, landing, fanout>>

\* run_pipeline reads the documents once, before any work; a one-shot
\* iterator is then exhausted.
BeginRun ==
  /\ status = "ready" /\ ~Refused
  /\ plan # <<>>
  /\ status' = "running"
  /\ docs' = source
  /\ source' = IF job.docs = "iterator" THEN <<>> ELSE source
  /\ LET units == DOMAIN Chunk(source, UnitSize(Running)) IN
     /\ work' = [u \in units |-> "pending"]
     /\ mids' = [u \in units |-> None]
     /\ outs' = [u \in units |-> None]
  /\ limit' = IF FansOut(Running) THEN job.concurrency ELSE 1
  /\ doomed' = FALSE
  /\ phase' = "open"
  /\ UNCHANGED <<job, plan, rows, landing>>

\* The serial loop takes the documents in order.
InTurn(u) == FansOut(Running) \/ \A v \in 1..(u - 1) : work[v] = "kept"

Begin(u) ==
  /\ InTurn(u)
  /\ FanOut!Begin(u)
  /\ UNCHANGED <<job, plan, status, source, docs, mids, outs, rows, landing>>

\* The first call answers; what does not match the unit fails it here, before
\* anything is sent on.
FirstCall(u) ==
  /\ work[u] = "running" /\ mids[u] = None
  /\ \E got \in Answers(Units[u], "llm1") :
       IF Checked(Units[u], got)
       THEN mids' = [mids EXCEPT ![u] = got.items] /\ UNCHANGED fanout
       ELSE FanOut!Lose(u) /\ UNCHANGED mids
  /\ UNCHANGED <<job, plan, status, source, docs, outs, rows, landing>>

\* The second call answers.
SecondCall(u) ==
  /\ work[u] = "running" /\ mids[u] # None
  /\ \E got \in Answers(mids[u], "llm2") :
       IF Checked(mids[u], got)
       THEN outs' = [outs EXCEPT ![u] = got.items] /\ FanOut!Keep(u)
       ELSE FanOut!Lose(u) /\ UNCHANGED outs
  /\ UNCHANGED <<job, plan, status, source, docs, mids, rows, landing>>

\* The session is interrupted.
Interrupt ==
  /\ status = "running"
  /\ FanOut!Doom
  /\ UNCHANGED <<job, plan, status, source, docs, mids, outs, rows, landing>>

\* A unit of a call that is bound to raise is torn down, or never begins.
TearDown(u) ==
  /\ doomed
  /\ FanOut!Lose(u) \/ FanOut!Drop(u)
  /\ UNCHANGED <<job, plan, status, source, docs, mids, outs, rows, landing>>

\* The exception leaves run_pipeline and ends the session without a report.
Raise ==
  /\ status = "running" /\ doomed
  /\ FanOut!Raise
  /\ status' = "raised"
  /\ UNCHANGED <<job, plan, source, docs, mids, outs, rows, landing>>

\* The pipeline returns and its RunResult is made.
EndRun ==
  /\ status = "running"
  /\ FanOut!Return
  /\ status' = "ready"
  /\ plan' = Tail(plan)
  /\ \E ticks \in Durations :
       rows' = Append(rows, [pipeline |-> Running, n_docs |-> Len(docs), duration |-> ticks,
                             docs_per_second |-> Rate(Len(docs), ticks), speedup |-> None])
  /\ UNCHANGED <<job, source, docs, mids, outs, landing>>

\* attach_speedup, then the report.
Publish ==
  /\ status = "ready" /\ ~Refused
  /\ plan = <<>>
  /\ status' = "published"
  /\ rows' = AttachSpeedup
  /\ landing' = Landing(rows')
  /\ UNCHANGED <<job, plan, source, docs, mids, outs, fanout>>

Ended == status \in {"refused", "raised", "published"} /\ UNCHANGED vars

Next ==
  \/ Refuse
  \/ BeginRun
  \/ status = "running" /\ \E u \in DOMAIN work :
       Begin(u) \/ FirstCall(u) \/ SecondCall(u) \/ TearDown(u)
  \/ Interrupt
  \/ Raise
  \/ EndRun
  \/ Publish
  \/ Ended

Spec == Init /\ [][Next]_vars

-----------------------------------------------------------------------------
(* Properties.                                                             *)

Rates == {None} \cup (Nat \X (Nat \ {0}))

\* Every variable stays within its type: no published rate was divided by a run
\* that took no time, and no run begins with room for nobody (#28).
TypeOK ==
  /\ job \in Jobs
  /\ plan \in Seq(Pipelines)
  /\ status \in {"ready", "running", "refused", "raised", "published"}
  /\ docs \in Seq([doc : 1..job.n, calls : {<<>>}])
  /\ rows \in Seq([pipeline : Pipelines, n_docs : Nat, duration : Durations,
                   docs_per_second : Rates, speedup : Rates])
  /\ landing \in {None} \cup 0..1999
  /\ DOMAIN work = DOMAIN mids /\ DOMAIN work = DOMAIN outs
  /\ status = "running" => limit >= 1

\* However batches interleave and whatever a batch endpoint answers, short of a
\* list of the right length in another order, what is sent on to the second
\* call, and what a batch returns, are outputs for its own documents, one each
\* and in their order (#226, #229, #231).
BatchesStayAligned ==
  status = "running" => \A u \in DOMAIN work :
    /\ mids[u] # None => mids[u] = Called(Units[u], "llm1")
    /\ outs[u] # None => outs[u] = Called(Called(Units[u], "llm1"), "llm2")
    /\ work[u] = "kept" => outs[u] # None

\* The flat list a run returns.
Flat ==
  LET upto[u \in 0..Len(outs)] == IF u = 0 THEN <<>> ELSE upto[u - 1] \o outs[u] IN upto[Len(outs)]

\* Every pipeline computes the same function: a run that returns has called
\* both LLMs on each document it read -- none lost with a short last batch --
\* and returns the outputs in document order; its row counts exactly those.
EveryDocAnswered ==
  (status = "ready" /\ rows # <<>>) =>
    /\ Flat = Called(Called(docs, "llm1"), "llm2")
    /\ rows[Len(rows)].n_docs = Len(Flat)

Above(r, s) == r = None \/ (s # None /\ r[1] * s[2] >= s[1] * r[2])

\* Of two published rows the faster one never reads as the slower, in either
\* column; no measurable time reads as the fastest (#60, #94).  And there is
\* a row for every run, in order, repeated measurements included.
FasterNeverRanksLower ==
  status = "published" =>
    /\ [k \in DOMAIN rows |-> rows[k].pipeline] = job.plan
    /\ \A j, k \in DOMAIN rows : rows[j].duration < rows[k].duration =>
         /\ Above(rows[j].speedup, rows[k].speedup)
         /\ rows[j].n_docs = rows[k].n_docs =>
              Above(rows[j].docs_per_second, rows[k].docs_per_second)

\* The speedups the table prints for the parallel pipelines without batching.
FanOutCells == {Printed(rows[k].speedup) : k \in {j \in DOMAIN rows :
                  rows[j].pipeline = "async" /\ rows[j].speedup # None}}

\* The report puts real APIs below a ceiling only if that ceiling is a cell of
\* its table, the highest of a parallel pipeline without batching, and prints
\* below 20.00; and in the 5-20x range only if no such cell speaks against it
\* (#129, #140, #165, #198).
LandingMatchesTable ==
  status = "published" =>
    IF landing = None
    THEN FanOutCells = {} \/ \E c \in FanOutCells : c >= 2000
    ELSE /\ landing \in FanOutCells /\ landing < 2000
         /\ \A c \in FanOutCells : c <= landing
=============================================================================
