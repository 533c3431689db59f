---------------------------- MODULE QueueMetrics ----------------------------
(***************************************************************************)
(* What Prometheus and GET /queue/stats see of the queue: the buckets of   *)
(* the two histograms, and get_metrics_snapshot(), which reads counters,   *)
(* list lengths and histograms by six Redis commands while the queue goes  *)
(* on.  Scrapes follow one another; they change nothing.                   *)
(***************************************************************************)
EXTENDS ReliableQueue

CONSTANTS
  Bounds,      \* the finite upper bounds of QUEUE_WAIT_BUCKETS and its like
  Durations    \* what may be observed, max(0.0, ...)

ASSUME BoundsAreNaturals == Bounds \subseteq Nat /\ Durations \subseteq Nat

VARIABLES
  buckets,   \* the fields le:<bound> of both histograms
  scrape     \* the snapshot that is being read, and where the reader stands

metrics == <<buckets, scrape>>

metricsVars == <<store, stage, worker, reaper, metrics>>

(* Their "count" fields are counters of stats. *)
Histograms == {"waits", "inferences"}

Blank == [at |-> "idle", stats |-> [c \in Counters |-> 0],
          pending |-> 0, processing |-> 0, dead |-> 0,
          histograms |-> [h \in Histograms |-> [b \in Bounds |-> 0]]]

MetricsInit ==
  /\ Init
  /\ buckets = [h \in Histograms |-> [b \in Bounds |-> 0]]
  /\ scrape = Blank

----------------------------------------------------------------------------
(* The MULTI of _observe_histogram() *)

(* Slip: only the first bucket that fits is incremented. *)
ObservedInOne(h, v) ==
  [b \in Bounds |->
     IF v <= b /\ \A c \in Bounds : c < b => c < v
       THEN buckets[h][b] + 1 ELSE buckets[h][b]]

(* Every bucket the value fits in is incremented, with the count. *)
Observed(h, v) ==
  [b \in Bounds |-> IF v <= b THEN buckets[h][b] + 1 ELSE buckets[h][b]]

(* What a step of the queue observes: the histogram whose count it raises. *)
Observe ==
  \E v \in Durations :
    buckets' = [h \in Histograms |->
                  IF stats'[h] = stats[h] THEN buckets[h] ELSE Observed(h, v)]

----------------------------------------------------------------------------
(* get_metrics_snapshot(), one command per step *)

Read(from, to, updated) ==
  /\ scrape.at = from
  /\ scrape' = [updated EXCEPT !.at = to]
  /\ UNCHANGED buckets

(* HGETALL kvcache:queue:stats comes first in get_stats() ... *)
ReadCounters == Read("idle", "pending",
  [scrape EXCEPT !.stats = [c \in Counters \ Histograms |-> stats[c]]])

(* ... and the lengths are read while its answer is put together. *)
ReadPending == Read("pending", "processing", [scrape EXCEPT !.pending = Len(tasks)])

ReadProcessing == Read("processing", "dead",
  [scrape EXCEPT !.processing = Len(processing)])

ReadDeadLetters == Read("dead", "waits", [scrape EXCEPT !.dead = Len(deadLetter)])

(* Slip: the counters are read again with a histogram. *)
ReadHistogramAndCounters(h, to) == Read(h, to,
  [scrape EXCEPT !.stats = stats, !.histograms[h] = buckets[h]])

(* HGETALL of one histogram: its count and its buckets *)
ReadHistogram(h, to) == Read(h, to,
  [scrape EXCEPT !.stats = [c \in DOMAIN @ \cup {h} |->
                              IF c = h THEN stats[h] ELSE @[c]],
                 !.histograms[h] = buckets[h]])

(* GET /queue/stats ends with the lengths. *)
AnswerStats == Read("waits", "idle", Blank)

(* collect() yields the families of a complete snapshot, or, if one of the  *)
(* reads raised, metrics_up 0 alone.                                        *)
Collect == Read("collect", "idle", Blank) \/ Read("down", "idle", Blank)

ScrapeFails ==
  /\ RedisErrors
  /\ scrape.at \notin {"collect", "down"}
  /\ scrape' = [Blank EXCEPT !.at = "down"]
  /\ UNCHANGED buckets

Scrape ==
  \/ ReadCounters \/ ReadPending \/ ReadProcessing \/ ReadDeadLetters
  \/ ReadHistogram("waits", "inferences") \/ ReadHistogram("inferences", "collect")
  \/ Collect

MetricsNext ==
  \/ Next /\ Observe /\ UNCHANGED scrape
  \/ (Scrape \/ AnswerStats \/ ScrapeFails) /\ UNCHANGED vars

MetricsSpec == MetricsInit /\ [][MetricsNext]_metricsVars

(* Prometheus scrapes every 5 s, and a handler runs to its end. *)
MetricsFairSpec ==
  /\ MetricsSpec
  /\ Fairness
  /\ WF_metricsVars(Scrape /\ UNCHANGED vars)

----------------------------------------------------------------------------
(* The lengths have been read after the counters. *)
LengthsRead == scrape.at \in {"waits", "inferences", "collect"}

(***************************************************************************)
(* A snapshot is torn, but not against its reader: no dead letter is       *)
(* counted that the list it shows does not have, and none is counted as    *)
(* dead that is not counted as failed.                                     *)
(***************************************************************************)
DeadLettersShown ==
  LengthsRead =>
    /\ scrape.stats["dead_lettered"] <= scrape.stats["failed"]
    /\ scrape.stats["failed"] <= scrape.dead

(***************************************************************************)
(* The histograms of a page are cumulative, as Prometheus requires: no     *)
(* bucket exceeds a wider one, nor the count, which is the +Inf bucket.    *)
(***************************************************************************)
BucketsCumulative ==
  scrape.at = "collect" =>
    \A h \in Histograms : \A b \in Bounds :
      /\ scrape.histograms[h][b] <= scrape.stats[h]
      /\ \A c \in Bounds :
           b <= c => scrape.histograms[h][b] <= scrape.histograms[h][c]

(***************************************************************************)
(* When nothing fails and workers die only before they acknowledge, the    *)
(* books of the queue balance in the end, in every snapshot: each          *)
(* submitted job is in a list, completed or dead, and counted once.        *)
(***************************************************************************)
PageBalanced ==
  scrape.stats["submitted"] = scrape.pending + scrape.processing +
    scrape.stats["completed"] + scrape.dead

PagesBalance == <>[](LengthsRead => PageBalanced)

============================================================================
