--------------------------- MODULE MCQueueMetrics ---------------------------
(* Small instances of QueueMetrics for TLC. *)
EXTENDS QueueMetrics, MCReliableQueue

(***************************************************************************)
(* BehaviourOnly, with the number of dead letters and the counters that    *)
(* the safety properties are about, in the store and in the snapshot.      *)
(***************************************************************************)
Counted == {"submitted", "attempts", "waits", "inferences", "failed", "dead_lettered"}
Seen == {"failed", "dead_lettered"} \cup Histograms

MetricsBehaviour ==
  <<BehaviourOnly, Len(deadLetter), stage, pc, rpc, Restrict(stats, Counted), buckets,
    [scrape EXCEPT !.pending = 0, !.processing = 0,
                   !.stats = Restrict(@, Seen \cap DOMAIN @)]>>

============================================================================
