----------------------------- MODULE DemoStream -----------------------------
(***************************************************************************)
(* The stream that bench_backpressure.py's run_one measures: its source is *)
(* _fast_producer, which has every item ready, so that the producer's task *)
(* is suspended by a full queue and by nothing else.                       *)
(***************************************************************************)
EXTENDS Stream, DemoRow

Ready == call.producer = "ready"

\* A request to such a source is answered before any other task runs.
SourcesNext ==
  /\ Next
  /\ Ready /\ pc[Producer] = "pulling" => SourceYields \/ SourceEnds

\* stream with either kind of source; its safety only.
SourcesSpec == Init /\ [][SourcesNext]_vars

\* Every row that run_one may return is one of those BackpressureReport makes
\* its table of: the depth is the queue's, or all items' if they are fewer,
\* and the producer waited exactly if they are more (#3, #149, #161).
RunOneRow ==
  Ready /\ status = "returned" =>
    /\ metrics.max_queue_depth = Depth(call.length, call.queue_size)
    /\ metrics.producer_pauses \in PauseCounts(call.length, call.queue_size)

\* What an operator and the demo's report read from the counters is so.
ReportTells == MetricsTell /\ RunOneRow
=============================================================================
