----------------------------- MODULE RawQuicLoad -----------------------------
(***************************************************************************)
(* The quic-go-raw-load process: warm-up and measured phase, batches of    *)
(* concurrent goroutines, the merging of their statistics, and the exit    *)
(* code (main, runStreamLoad, runHandshakeColdLoad,                        *)
(* runConnectionChurnLoad and their batches). One stream is here only its  *)
(* outcome; module RawQuicStream has the rest.                             *)
(***************************************************************************)
EXTENDS Integers, FiniteSets

CONSTANTS Conns,       \* opts.connections of them
          Streams,     \* opts.streamsPerConnection
          MaxBatches   \* bound: batches in one phase

ASSUME LoadAssumption ==
  /\ IsFiniteSet(Conns) /\ Conns # {}
  /\ Streams \in Nat \ {0} /\ MaxBatches \in Nat \ {0}

Modes == {"sequential", "concurrent", "handshake", "churn"}

VARIABLES loadOpts,  \* mode, warm-up, fail-on-errors
          phase,     \* "warmup" or "measured"; runLoad's discard is phase = "warmup"
          main,      \* where the main goroutine is
          batches,   \* batches run in this phase
          expired,   \* the phase's deadline has passed
          openConns, \* connections that are open
          g,         \* where each goroutine of the batch is
          left,      \* streams a sequential goroutine still has to run
          local,     \* its own runStats
          batch,     \* the batch's runStats, shared
          stats,     \* the phase's runStats
          err,       \* the error runLoad returns
          document,  \* what was printed: nothing, the warm-up's or the measured one
          loadExit

loadVars == << loadOpts, phase, main, batches, expired, openConns, g, left, local, batch,
               stats, err, document, loadExit >>

Goroutines == Conns \X (1..Streams)

(* A batch has a goroutine per stream, or per connection. *)
Started == IF loadOpts.mode = "concurrent" THEN Goroutines ELSE Conns \X {1}

PerConn == IF loadOpts.mode = "handshake" THEN 1 ELSE Streams

Zero == [total |-> 0, ok |-> 0, failed |-> 0, timeout |-> 0, errors |-> 0,
         latencies |-> 0, connects |-> 0]

merge(a, b) == [k \in DOMAIN a |-> a[k] + b[k]]

Results == {"ok", "failed", "timeout"}

(* totalRequests goes up by one. *)
countRequest(s) == [s EXCEPT !.total = @ + 1]

(* What one operation adds, apart from totalRequests. *)
Outcome(r) ==
  IF r = "ok" THEN [Zero EXCEPT !.ok = 1, !.latencies = 1]
  ELSE [Zero EXCEPT !.failed = 1, !.errors = 1,
                    !.timeout = IF r = "timeout" THEN 1 ELSE 0]

-----------------------------------------------------------------------------
LoadInit ==
  /\ loadOpts \in [mode : Modes, warmup : BOOLEAN, failOnErrors : BOOLEAN]
  /\ phase = IF loadOpts.warmup THEN "warmup" ELSE "measured"
  /\ main = "start" /\ batches = 0 /\ expired = FALSE /\ openConns = {}
  /\ g = [i \in Goroutines |-> "done"] /\ left = [i \in Goroutines |-> 0]
  /\ local = [i \in Goroutines |-> Zero]
  /\ batch = Zero /\ stats = Zero /\ err = FALSE
  /\ document = "none" /\ loadExit = "none"

Begin ==
  /\ main = "start"
  /\ main' = IF loadOpts.mode \in {"sequential", "concurrent"} THEN "dial" ELSE "batch"
  /\ UNCHANGED << loadOpts, phase, batches, expired, openConns, g, left, local, batch, stats,
                  err, document, loadExit >>

(* The connections of a stream load are dialled one after another. *)
DialConn ==
  /\ main = "dial"
  /\ IF openConns = Conns THEN main' = "batch" /\ UNCHANGED openConns
     ELSE /\ \E c \in Conns \ openConns : openConns' = openConns \cup {c}
          /\ UNCHANGED main
  /\ UNCHANGED << loadOpts, phase, batches, expired, g, left, local, batch, stats, err,
                  document, loadExit >>

(* A failed dial fails every stream; the earlier connections stay open. *)
DialFailed ==
  /\ main = "dial" /\ openConns # Conns
  /\ stats' = [Zero EXCEPT !.failed = Cardinality(Conns) * Streams, !.errors = 1]
  /\ err' = TRUE /\ main' = "returned"
  /\ UNCHANGED << loadOpts, phase, batches, expired, openConns, g, left, local, batch,
                  document, loadExit >>

(* firstBatch || time.Now().Before(deadline) *)
StartBatch ==
  /\ main = "batch" /\ batches < MaxBatches
  /\ batches = 0 \/ ~expired
  /\ batches' = batches + 1 /\ main' = "join" /\ batch' = Zero
  /\ g' = [i \in Goroutines |->
             IF i \notin Started THEN "done"
             ELSE IF loadOpts.mode \in {"handshake", "churn"} THEN "dial" ELSE "run"]
  /\ left' = [i \in Goroutines |-> IF i \in Started THEN PerConn ELSE 0]
  /\ local' = [i \in Goroutines |-> Zero]
  /\ UNCHANGED << loadOpts, phase, expired, openConns, stats, err, document, loadExit >>

Expire ==
  /\ main \in {"batch", "join", "merge"} /\ ~expired /\ expired' = TRUE
  /\ UNCHANGED << loadOpts, phase, main, batches, openConns, g, left, local, batch, stats, err,
                  document, loadExit >>

-----------------------------------------------------------------------------
(* The goroutines of a batch *)

(* runConnectionChurnBatch and runHandshakeColdBatch dial in the goroutine. *)
(* A failed dial of the churn fails all streams of its connection.          *)
ChurnDial(i) ==
  /\ g[i] = "dial" /\ loadOpts.mode = "churn"
  /\ \/ /\ g' = [g EXCEPT ![i] = "run"] /\ openConns' = openConns \cup {i[1]}
        /\ local' = [local EXCEPT ![i].connects = 1]
     \/ /\ \E r \in Results \ {"ok"} :
             local' = [local EXCEPT ![i] =
                [Zero EXCEPT !.total = Streams, !.failed = Streams, !.errors = 1,
                             !.timeout = IF r = "timeout" THEN Streams ELSE 0]]
        /\ g' = [g EXCEPT ![i] = "merge"] /\ UNCHANGED openConns
  /\ UNCHANGED << loadOpts, phase, main, batches, expired, left, batch, stats, err,
                  document, loadExit >>

HandshakeDial(i) ==
  /\ g[i] = "dial" /\ loadOpts.mode = "handshake"
  /\ \E r \in Results :
       /\ batch' = merge(countRequest(batch),
                         [Outcome(r) EXCEPT !.latencies = 0,
                                            !.connects = IF r = "ok" THEN 1 ELSE 0])
       /\ g' = [g EXCEPT ![i] = IF r = "ok" THEN "close" ELSE "done"]
       /\ openConns' = IF r = "ok" THEN openConns \cup {i[1]} ELSE openConns
  /\ UNCHANGED << loadOpts, phase, main, batches, expired, left, local, stats, err,
                  document, loadExit >>

(* The connection is closed before wg.Done. *)
CloseConn(i) ==
  /\ g[i] = "close"
  /\ openConns' = openConns \ {i[1]} /\ g' = [g EXCEPT ![i] = "done"]
  /\ UNCHANGED << loadOpts, phase, main, batches, expired, left, local, batch, stats, err,
                  document, loadExit >>

(* runConcurrentStreamBatch counts the operation, then its outcome, in two  *)
(* atomic steps without a lock around both.                                 *)
CountTotal(i, r) ==
  /\ g[i] = "run" /\ loadOpts.mode = "concurrent"
  /\ batch' = countRequest(batch)
  /\ g' = [g EXCEPT ![i] = r]
  /\ UNCHANGED << loadOpts, phase, main, batches, expired, openConns, left, local, stats, err,
                  document, loadExit >>

CountOutcomeNotDone(i) ==
  /\ g[i] \in Results
  /\ batch' = merge(batch, Outcome(g[i]))
  /\ g' = [g EXCEPT ![i] = IF g[i] = "ok" THEN "done" ELSE "returned"]
  /\ UNCHANGED << loadOpts, phase, main, batches, expired, openConns, left, local, stats, err,
                  document, loadExit >>

CountOutcome(i) ==
  /\ g[i] \in Results
  /\ batch' = merge(batch, Outcome(g[i]))
  /\ g' = [g EXCEPT ![i] = "done"]
  /\ UNCHANGED << loadOpts, phase, main, batches, expired, openConns, left, local, stats, err,
                  document, loadExit >>

(* runSequentialStreams: a failed stream does not end the loop. *)
RunStopsAtError(i, r) ==
  /\ g[i] = "run" /\ loadOpts.mode \in {"sequential", "churn"} /\ left[i] > 0
  /\ local' = [local EXCEPT ![i] = merge(countRequest(@), Outcome(r))]
  /\ left' = [left EXCEPT ![i] = IF r = "ok" THEN @ - 1 ELSE 0]
  /\ UNCHANGED << loadOpts, phase, main, batches, expired, openConns, g, batch, stats, err,
                  document, loadExit >>

RunSequential(i, r) ==
  /\ g[i] = "run" /\ loadOpts.mode \in {"sequential", "churn"} /\ left[i] > 0
  /\ local' = [local EXCEPT ![i] = merge(countRequest(@), Outcome(r))]
  /\ left' = [left EXCEPT ![i] = @ - 1]
  /\ UNCHANGED << loadOpts, phase, main, batches, expired, openConns, g, batch, stats, err,
                  document, loadExit >>

EndSequential(i) ==
  /\ g[i] = "run" /\ loadOpts.mode \in {"sequential", "churn"} /\ left[i] = 0
  /\ g' = [g EXCEPT ![i] = "merge"]
  /\ UNCHANGED << loadOpts, phase, main, batches, expired, openConns, left, local, batch,
                  stats, err, document, loadExit >>

MergeLocal(i) ==
  /\ g[i] = "merge"
  /\ batch' = merge(batch, local[i])
  /\ g' = [g EXCEPT ![i] = IF loadOpts.mode = "churn" /\ i[1] \in openConns
                             THEN "close" ELSE "done"]
  /\ UNCHANGED << loadOpts, phase, main, batches, expired, openConns, left, local, stats, err,
                  document, loadExit >>

-----------------------------------------------------------------------------
(* wg.Wait *)
Join ==
  /\ main = "join" /\ \A i \in Goroutines : g[i] = "done"
  /\ main' = "merge"
  /\ UNCHANGED << loadOpts, phase, batches, expired, openConns, g, left, local, batch, stats,
                  err, document, loadExit >>

(* A warm-up's batches are not merged. An error ends a stream load in       *)
(* either phase, the other loads only when they are measured.               *)
MergeBatchAfterCheck ==
  /\ main = "merge"
  /\ stats' = IF phase = "warmup" \/ batch.errors > 0 THEN stats ELSE merge(stats, batch)
  /\ IF batch.errors > 0 /\ (phase = "measured" \/ loadOpts.mode \in {"sequential", "concurrent"})
       THEN err' = TRUE /\ main' = "returned" ELSE main' = "batch" /\ UNCHANGED err
  /\ UNCHANGED << loadOpts, phase, batches, expired, openConns, g, left, local, batch,
                  document, loadExit >>

MergeBatch ==
  /\ main = "merge"
  /\ stats' = IF phase = "warmup" THEN stats ELSE merge(stats, batch)
  /\ IF batch.errors > 0 /\ (phase = "measured" \/ loadOpts.mode \in {"sequential", "concurrent"})
       THEN err' = TRUE /\ main' = "returned" ELSE main' = "batch" /\ UNCHANGED err
  /\ UNCHANGED << loadOpts, phase, batches, expired, openConns, g, left, local, batch,
                  document, loadExit >>

PhaseOver ==
  /\ main = "batch" /\ batches > 0 /\ expired
  /\ main' = "returned"
  /\ UNCHANGED << loadOpts, phase, batches, expired, openConns, g, left, local, batch, stats,
                  err, document, loadExit >>

(* The deferred close runs only once all connections had been dialled. *)
Closed == IF batches > 0 THEN {} ELSE openConns

WarmupReturned ==
  /\ main = "returned" /\ phase = "warmup"
  /\ openConns' = Closed
  /\ IF err
       THEN /\ document' \in {"none", "warmup"} /\ loadExit' = "1" /\ main' = "exited"
            /\ UNCHANGED << phase, batches, expired, stats, err >>
       ELSE /\ phase' = "measured" /\ main' = "start" /\ batches' = 0
            /\ expired' = FALSE /\ stats' = Zero
            /\ UNCHANGED << err, document, loadExit >>
  /\ UNCHANGED << loadOpts, g, left, local, batch >>

MeasuredReturned ==
  /\ main = "returned" /\ phase = "measured"
  /\ openConns' = Closed /\ main' = "exited"
  /\ \/ document' = "none" /\ loadExit' = "1"
     \/ /\ document' = "measured"
        /\ loadExit' = IF \/ stats.ok = 0
                          \/ loadOpts.failOnErrors /\ (err \/ stats.failed > 0 \/ stats.timeout > 0)
                         THEN "1" ELSE "0"
  /\ UNCHANGED << loadOpts, phase, batches, expired, g, left, local, batch, stats, err >>

GoroutineStep(i) ==
  \/ ChurnDial(i) \/ HandshakeDial(i) \/ CloseConn(i) \/ CountOutcome(i)
  \/ EndSequential(i) \/ MergeLocal(i)
  \/ \E r \in Results : CountTotal(i, r) \/ RunSequential(i, r)

MainStep ==
  \/ Begin \/ DialConn \/ DialFailed \/ StartBatch \/ Join \/ MergeBatch \/ PhaseOver
  \/ WarmupReturned \/ MeasuredReturned

LoadNext == MainStep \/ Expire \/ \E i \in Goroutines : GoroutineStep(i)

LoadSpec == LoadInit /\ [][LoadNext]_loadVars

(* Some runnable goroutine runs, every dial and stream has a timeout, and   *)
(* the clock reaches the deadline.                                          *)
LoadFairness ==
  /\ WF_loadVars(MainStep) /\ WF_loadVars(Expire)
  /\ WF_loadVars(\E i \in Goroutines : GoroutineStep(i))

FairLoadSpec == LoadSpec /\ LoadFairness

-----------------------------------------------------------------------------
Counts == 0..(MaxBatches * Cardinality(Conns) * Streams)

StatsType == [{"total", "ok", "failed", "timeout", "errors", "latencies", "connects"}
                -> Counts]

(* The variables keep their types; no counter runs past what was started. *)
LoadTypeOK ==
  /\ loadOpts \in [mode : Modes, warmup : BOOLEAN, failOnErrors : BOOLEAN]
  /\ phase \in {"warmup", "measured"}
  /\ main \in {"start", "dial", "batch", "join", "merge", "returned", "exited"}
  /\ batches \in 0..MaxBatches /\ expired \in BOOLEAN /\ openConns \subseteq Conns
  /\ g \in [Goroutines -> Results \cup {"dial", "run", "merge", "close", "done"}]
  /\ left \in [Goroutines -> 0..Streams]
  /\ batch \in StatsType /\ stats \in StatsType
  /\ \A i \in Goroutines : local[i] \in StatsType
  /\ err \in BOOLEAN /\ document \in {"none", "warmup", "measured"}
  /\ loadExit \in {"none", "0", "1"}

AddsUp(s) ==
  /\ s.total = s.ok + s.failed /\ s.timeout <= s.failed
  /\ s.errors <= s.failed /\ (s.failed > 0 => s.errors > 0)
  /\ s.ok = IF loadOpts.mode = "handshake" THEN s.connects ELSE s.latencies

(* Once the goroutines of a batch have been joined nothing is missing from  *)
(* its statistics and nothing is counted twice, in whatever order they ran: *)
(* every operation of the batch is in the total and in exactly one of       *)
(* successful and failed, each success has its latency sample, a timeout    *)
(* is a failure, and there is an error message exactly if something failed. *)
BatchAddsUp ==
  main = "merge" =>
     /\ AddsUp(batch)
     /\ batch.total = Cardinality(Conns) * PerConn

(* The document reports the measured batches, whole, and nothing of the     *)
(* warm-up; a load whose dials failed reports failures without requests.    *)
DocumentIsMeasured ==
  document = "measured" =>
     IF batches = 0
       THEN stats = [Zero EXCEPT !.failed = Cardinality(Conns) * Streams, !.errors = 1]
       ELSE AddsUp(stats) /\ stats.total = batches * Cardinality(Conns) * PerConn

(* What exit code 0 promises: a printed document with successes, and with   *)
(* -fail-on-errors a run in which nothing failed at all.                    *)
ExitZeroMeansMeasured ==
  loadExit = "0" =>
     /\ document = "measured" /\ stats.ok > 0
     /\ loadOpts.failOnErrors => ~err /\ stats.failed = 0 /\ stats.ok = stats.total

(* The variables keep their types, and the document and the exit code main  *)
(* ends with say what the measured phase did.                               *)
LoadResultIsMeasured == LoadTypeOK /\ DocumentIsMeasured /\ ExitZeroMeansMeasured

(* The process ends, whatever fails in it.                                  *)
LoadEnds == <>(main = "exited")
=============================================================================
